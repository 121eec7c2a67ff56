--------------------------- MODULE DetectorProofs ---------------------------
(***************************************************************************)
(* What DeadlockDetector promises, for any number of transactions and of   *)
(* resources and under every strategy: its edges lead to holders of what   *)
(* was waited for, and the waits it lost are those whose holder freed      *)
(* something else.  And what it promises two-phase transactions: that it   *)
(* misses no deadlock, and what stands behind the cycle of a victim.       *)
(*                                                                         *)
(* The first lemmas say what each operation of the graph does to HeldBy,   *)
(* WantedBy, the set of nodes and the edges; the proof of the invariant    *)
(* uses nothing else of the graph.                                         *)
(***************************************************************************)
EXTENDS DeadlockDetector, FiniteSetTheorems, FunctionTheorems, TLAPS

NodeType == [Txs -> Node \cup {None}]

LEMMA Accessors ==
    ASSUME node \in NodeType
    PROVE  /\ NewNode \in Node
           /\ \A t \in Txs : /\ NodeOf(t) \in Node
                             /\ HeldBy(t) \subseteq Resources
                             /\ WantedBy(t) \in Resources \cup {None}
                             /\ node[t] = None => HeldBy(t) = {} /\ WantedBy(t) = None
  <1>1. NewNode \in Node
    BY ConstAssumption DEF NewNode, Node, Old
  <1>2. ASSUME NEW t \in Txs PROVE NodeOf(t) \in Node
    BY <1>1, <1>2 DEF NodeOf, NodeType
  <1>3. ASSUME NEW n \in Node PROVE n.held \subseteq Resources /\ n.wait \in Resources \cup {None}
    BY <1>3 DEF Node
  <1>4. ASSUME NEW t \in Txs, node[t] = None PROVE HeldBy(t) = {} /\ WantedBy(t) = None
    BY <1>4 DEF HeldBy, WantedBy, NodeOf, NewNode
  <1> QED
    BY <1>1, <1>2, <1>3, <1>4 DEF HeldBy, WantedBy

\* A change of some fields of a node.
LEMMA HeldField ==
    ASSUME NEW n \in Node, NEW h \in SUBSET Resources
    PROVE  /\ [n EXCEPT !.held = h] \in Node
           /\ [n EXCEPT !.held = h].held = h
           /\ [n EXCEPT !.held = h].wait = n.wait
  BY DEF Node

LEMMA WaitField ==
    ASSUME NEW n \in Node, NEW r \in Resources, NEW p \in Int
    PROVE  /\ Waiting(n, r, p) \in Node
           /\ Waiting(n, r, p).held = n.held
           /\ Waiting(n, r, p).wait = r
  <1>1. 0 \in 0..Old
    BY ConstAssumption DEF Old
  <1> QED
    BY <1>1 DEF Node, Waiting

LEMMA AgeField ==
    ASSUME NEW n \in Node, NEW a \in 0..Old
    PROVE  /\ [n EXCEPT !.age = a] \in Node
           /\ [n EXCEPT !.age = a].held = n.held
           /\ [n EXCEPT !.age = a].wait = n.wait
  BY DEF Node

LEMMA AddHolderEffect ==
    ASSUME node \in NodeType, NEW t \in Txs, NEW r \in Resources, AddHolder(t, r)
    PROVE  /\ node' \in NodeType
           /\ HeldBy(t)' = HeldBy(t) \cup {r}
           /\ WantedBy(t)' = WantedBy(t)
           /\ node'[t] # None
           /\ \A o \in Txs \ {t} : /\ node'[o] = node[o]
                                   /\ HeldBy(o)' = HeldBy(o)
                                   /\ WantedBy(o)' = WantedBy(o)
           /\ edges' = edges \cup
                 {<<o, t>> : o \in {o \in Txs \ {t} : WantedBy(o) = r}}
  <1> DEFINE h == HeldBy(t) \cup {r}
             n == [NodeOf(t) EXCEPT !.held = h]
  <1>1. node' = [node EXCEPT ![t] = n]
    BY DEF AddHolder, HeldBy
  <1>2. NodeOf(t) \in Node /\ h \in SUBSET Resources
    BY Accessors
  <1>3. n \in Node /\ n.held = h /\ n.wait = WantedBy(t)
    BY ONLY <1>2, HeldField DEF WantedBy
  <1> HIDE DEF n
  <1>4. node' \in NodeType /\ node'[t] = n /\ \A o \in Txs \ {t} : node'[o] = node[o]
    BY <1>1, <1>3 DEF NodeType
  <1>5. node'[t] # None
    BY <1>3, <1>4, NodeAssumption
  <1>6. HeldBy(t)' = n.held /\ WantedBy(t)' = n.wait
    BY <1>4, <1>5 DEF HeldBy, WantedBy, NodeOf
  <1>7. \A o \in Txs \ {t} : HeldBy(o)' = HeldBy(o) /\ WantedBy(o)' = WantedBy(o)
    BY <1>4 DEF HeldBy, WantedBy, NodeOf, NewNode
  <1> QED
    BY <1>3, <1>4, <1>5, <1>6, <1>7 DEF AddHolder

LEMMA AddWaiterEffect ==
    ASSUME node \in NodeType, NEW t \in Txs, NEW r \in Resources, AddWaiter(t, r)
    PROVE  /\ node' \in NodeType
           /\ HeldBy(t)' = HeldBy(t)
           /\ WantedBy(t)' = r
           /\ node'[t] # None
           /\ \A o \in Txs \ {t} : /\ node'[o] = node[o]
                                   /\ HeldBy(o)' = HeldBy(o)
                                   /\ WantedBy(o)' = WantedBy(o)
           /\ edges' = edges \cup
                 {<<t, o>> : o \in {o \in Txs \ {t} : r \in HeldBy(o)}}
  <1> DEFINE n == Waiting(NodeOf(t), r, Priority[t])
  <1>1. node' = [node EXCEPT ![t] = n]
    BY DEF AddWaiter
  <1>2. n \in Node /\ n.held = HeldBy(t) /\ n.wait = r
    <2>1. NodeOf(t) \in Node /\ Priority[t] \in Int /\ r \in Resources
      BY Accessors, ConstAssumption
    <2>2. n \in Node /\ n.held = NodeOf(t).held /\ n.wait = r
      BY ONLY <2>1, WaitField
    <2> QED
      BY <2>2 DEF HeldBy
  <1> HIDE DEF n
  <1>3. node' \in NodeType /\ node'[t] = n /\ \A o \in Txs \ {t} : node'[o] = node[o]
    BY <1>1, <1>2 DEF NodeType
  <1>4. node'[t] # None
    BY <1>2, <1>3, NodeAssumption
  <1>5. HeldBy(t)' = n.held /\ WantedBy(t)' = n.wait
    BY <1>3, <1>4 DEF HeldBy, WantedBy, NodeOf
  <1>6. \A o \in Txs \ {t} : HeldBy(o)' = HeldBy(o) /\ WantedBy(o)' = WantedBy(o)
    BY <1>3 DEF HeldBy, WantedBy, NodeOf, NewNode
  <1> QED
    BY <1>2, <1>3, <1>4, <1>5, <1>6 DEF AddWaiter

LEMMA RemoveHolderEffect ==
    ASSUME node \in NodeType, NEW t \in Txs, NEW r \in Resources, RemoveHolder(t, r)
    PROVE  /\ node' \in NodeType
           /\ HeldBy(t)' = HeldBy(t) \ {r}
           /\ WantedBy(t)' = WantedBy(t)
           /\ \A o \in Txs : node'[o] = None <=> node[o] = None
           /\ \A o \in Txs \ {t} : HeldBy(o)' = HeldBy(o) /\ WantedBy(o)' = WantedBy(o)
           /\ edges' \subseteq edges
           /\ \A e \in edges : e[2] # t => e \in edges'
           /\ node[t] # None => \A e \in edges' : e[2] = t => e[1] = t
  <1>1. CASE node[t] = None
    <2>1. node' = node /\ edges' = edges
      BY <1>1 DEF RemoveHolder
    <2>2. \A o \in Txs : HeldBy(o)' = HeldBy(o) /\ WantedBy(o)' = WantedBy(o)
      BY <2>1 DEF HeldBy, WantedBy, NodeOf, NewNode
    <2>3. HeldBy(t) = {}
      BY <1>1, Accessors
    <2> QED
      BY <1>1, <2>1, <2>2, <2>3
  <1>2. CASE node[t] # None
    <2> DEFINE h == HeldBy(t) \ {r}
               n == [node[t] EXCEPT !.held = h]
    <2>1. node' = [node EXCEPT ![t] = n] /\ edges' = {e \in edges : e[2] # t \/ e[1] = t}
      BY <1>2 DEF RemoveHolder, HeldBy, NodeOf
    <2>2. NodeOf(t) = node[t] /\ node[t] \in Node /\ h \in SUBSET Resources
      BY <1>2, Accessors DEF NodeOf, NodeType
    <2>3. n \in Node /\ n.held = HeldBy(t) \ {r} /\ n.wait = WantedBy(t)
      BY ONLY <2>2, HeldField DEF WantedBy
    <2> HIDE DEF n
    <2>4. node' \in NodeType /\ node'[t] = n /\ \A o \in Txs \ {t} : node'[o] = node[o]
      BY <2>1, <2>3 DEF NodeType
    <2>5. node'[t] # None
      BY <2>3, <2>4, NodeAssumption
    <2>6. HeldBy(t)' = n.held /\ WantedBy(t)' = n.wait
      BY <2>4, <2>5 DEF HeldBy, WantedBy, NodeOf
    <2>7. \A o \in Txs \ {t} : HeldBy(o)' = HeldBy(o) /\ WantedBy(o)' = WantedBy(o)
      BY <2>4 DEF HeldBy, WantedBy, NodeOf, NewNode
    <2> QED
      BY <1>2, <2>1, <2>3, <2>4, <2>5, <2>6, <2>7
  <1> QED
    BY <1>1, <1>2

LEMMA RemoveNodesEffect ==
    ASSUME node \in NodeType, NEW G \in SUBSET Txs, RemoveNodes(G)
    PROVE  /\ node' \in NodeType
           /\ \A t \in Txs \ G : /\ node'[t] = node[t]
                                 /\ HeldBy(t)' = HeldBy(t)
                                 /\ WantedBy(t)' = WantedBy(t)
           /\ \A t \in G : HeldBy(t)' = {} /\ WantedBy(t)' = None
           /\ edges' = {e \in edges : e[1] \notin G /\ e[2] \notin G}
  <1>1. /\ node' \in NodeType
        /\ \A t \in Txs \ G : node'[t] = node[t]
        /\ \A t \in G : node'[t] = None
        /\ edges' = {e \in edges : e[1] \notin G /\ e[2] \notin G}
    BY DEF RemoveNodes, NodeType
  <1>2. \A t \in Txs \ G : HeldBy(t)' = HeldBy(t) /\ WantedBy(t)' = WantedBy(t)
    BY <1>1 DEF HeldBy, WantedBy, NodeOf, NewNode
  <1>3. \A t \in G : HeldBy(t)' = {} /\ WantedBy(t)' = None
    BY <1>1 DEF HeldBy, WantedBy, NodeOf, NewNode
  <1> QED
    BY <1>1, <1>2, <1>3

LEMMA SameNodes ==
    ASSUME node' = node
    PROVE  \A t \in Txs : HeldBy(t)' = HeldBy(t) /\ WantedBy(t)' = WantedBy(t)
  BY DEF HeldBy, WantedBy, NodeOf, NewNode

LEMMA TickEffect ==
    ASSUME node \in NodeType, Tick
    PROVE  /\ node' \in NodeType
           /\ \A t \in Txs : /\ node'[t] = None <=> node[t] = None
                             /\ HeldBy(t)' = HeldBy(t)
                             /\ WantedBy(t)' = WantedBy(t)
  <1> SUFFICES ASSUME NEW t \in Txs
               PROVE  /\ node'[t] \in Node \cup {None}
                      /\ node'[t] = None <=> node[t] = None
                      /\ HeldBy(t)' = HeldBy(t)
                      /\ WantedBy(t)' = WantedBy(t)
    BY DEF Tick, NodeType
  <1>1. CASE ~Young(t)
    <2>1. node'[t] = node[t]
      BY <1>1 DEF Tick
    <2> QED
      BY <2>1 DEF HeldBy, WantedBy, NodeOf, NewNode, NodeType
  <1>2. CASE Young(t)
    <2> DEFINE a == node[t].age + 1
               n == [node[t] EXCEPT !.age = a]
    <2>1. node'[t] = n
      BY <1>2 DEF Tick
    <2>2. node[t] # None /\ node[t] \in Node /\ NodeOf(t) = node[t] /\ node[t].age < Old
      BY <1>2, Accessors DEF Young, NodeType, NodeOf
    <2>3. n \in Node /\ n.held = HeldBy(t) /\ n.wait = WantedBy(t)
      <3>1. a \in 0..Old
        BY <2>2, ConstAssumption DEF Node, Old
      <3> QED
        BY ONLY <2>2, <3>1, AgeField DEF HeldBy, WantedBy
    <2> HIDE DEF n
    <2>4. node'[t] # None
      BY <2>1, <2>3, NodeAssumption
    <2>5. HeldBy(t)' = n.held /\ WantedBy(t)' = n.wait
      BY <2>1, <2>4 DEF HeldBy, WantedBy, NodeOf
    <2> QED
      BY <2>1, <2>2, <2>3, <2>4, <2>5
  <1> QED
    BY <1>1, <1>2

----------------------------------------------------------------------------
(* The invariant *)

GraphInv == NodesTrue /\ EdgesJoinNodes /\ EdgesTrue /\ WaitsShown
ClientInv == UnseenWait /\ (TwoPhase => WaitersGrow)

LEMMA AsksIs ==
    /\ Asks \subseteq Txs \X Txs
    /\ \A t, u \in Txs : <<t, u>> \in Asks <=> t # u /\ \E r \in asked[t] : owner[r] = u
  BY DEF Asks

LEMMA AsksIsNext ==
    /\ Asks' \subseteq Txs \X Txs
    /\ \A t, u \in Txs : <<t, u>> \in Asks' <=> t # u /\ \E r \in asked'[t] : owner'[r] = u
  BY DEF Asks

\* What is asked for stays so unless its holder lets go of it.
LEMMA AsksKeep ==
    ASSUME NEW G \in SUBSET Txs, TypeOK,
           \A t \in Txs : asked[t] \subseteq asked'[t],
           \A r \in Resources : owner[r] \in G => owner'[r] = owner[r]
    PROVE  \A e \in Asks : e[2] \in G => e \in Asks'
  <1> SUFFICES ASSUME NEW e \in Asks, e[2] \in G PROVE e \in Asks'
    OBVIOUS
  <1>1. PICK t \in Txs, u \in Txs : e = <<t, u>>
    BY AsksIs
  <1>2. t # u /\ u \in G
    BY <1>1, AsksIs
  <1>3. PICK r \in asked[t] : owner[r] = u
    BY <1>1, AsksIs
  <1>4. r \in Resources /\ r \in asked'[t] /\ owner'[r] = u
    BY <1>2, <1>3 DEF TypeOK
  <1> QED
    BY <1>1, <1>2, <1>4, AsksIsNext

\* The next one on a cycle, and the one before.
LEMMA Around ==
    ASSUME NEW n \in Nat \ {0}
    PROVE  /\ \A i \in 1..n : (i % n) + 1 \in 1..n
           /\ \A j \in 1..n : \E i \in 1..n : (i % n) + 1 = j
  <1>1. \A i \in 1..n : (i % n) + 1 \in 1..n
    OBVIOUS
  <1>2. ASSUME NEW j \in 1..n PROVE \E i \in 1..n : (i % n) + 1 = j
    <2>1. CASE j = 1
      <3>1. n % n = 0
        OBVIOUS
      <3> QED
        BY <2>1, <3>1
    <2>2. CASE j # 1
      <3>1. (j - 1) % n = j - 1
        BY <2>2
      <3> QED
        BY <2>2, <3>1
    <2> QED
      BY <2>1, <2>2
  <1> QED
    BY <1>1, <1>2

\* A cycle is one in every graph with the edges between its members.
LEMMA CycleKept ==
    ASSUME NEW E, NEW F, NEW C, IsFiniteSet(C), IsCycleOf(E, C),
           \A e \in E : e[1] \in C /\ e[2] \in C => e \in F
    PROVE  IsCycleOf(F, C)
  <1> DEFINE n == Cardinality(C)
  <1>1. PICK s \in [1..n -> C] :
           /\ C = {s[i] : i \in 1..n}
           /\ \A i \in 1..n : <<s[i], s[(i % n) + 1]>> \in E
    BY DEF IsCycleOf
  <1>2. n \in Nat
    BY FS_CardinalityType
  <1> HIDE DEF n
  <1>3. ASSUME NEW i \in 1..n PROVE <<s[i], s[(i % n) + 1]>> \in F
    <2>1. n \in Nat \ {0}
      BY <1>2
    <2>2. (i % n) + 1 \in 1..n
      BY <2>1, Around
    <2>3. s[i] \in C /\ s[(i % n) + 1] \in C
      BY <2>2
    <2> DEFINE e == <<s[i], s[(i % n) + 1]>>
    <2>4. e \in E /\ e[1] = s[i] /\ e[2] = s[(i % n) + 1]
      BY <1>1
    <2> HIDE DEF e
    <2>5. e \in F
      BY <2>3, <2>4
    <2> QED
      BY <2>5 DEF e
  <1> QED
    BY <1>1, <1>3 DEF IsCycleOf, n

LEMMA EmptyCycle == ASSUME NEW E PROVE IsCycleOf(E, {})
  <1>1. Cardinality({}) = 0 /\ 1..0 = {}
    BY FS_EmptySet
  <1>2. [i \in 1..0 |-> i] \in [1..0 -> {}]
    BY <1>1
  <1> QED
    BY <1>1, <1>2 DEF IsCycleOf

LEMMA FiniteCycles == ASSUME NEW C \in SUBSET Txs PROVE IsFiniteSet(C)
  BY ConstAssumption, FS_Subset

\* The cycles under work stay knit while what their members ask for is held.
LEMMA CyclesKeep ==
    ASSUME TypeOK, VictimBlamed, CyclesKnit, UNCHANGED detector,
           TwoPhase => \A x \in Txs : phase'[x] = "growing" => phase[x] = "growing",
           TwoPhase => \A e \in Asks : phase'[e[2]] = "growing" => e \in Asks'
    PROVE  VictimBlamed' /\ CyclesKnit'
  <1>1. cycles' = cycles /\ blamed' = blamed /\ victim' = victim /\ det' = det
    BY DEF detector
  <1>2. ASSUME TwoPhase, NEW C \in cycles \cup {blamed}, \A t \in C : phase'[t] = "growing"
        PROVE  IsCycleOf(Asks', C)
    <2>1. C \in SUBSET Txs
      BY DEF TypeOK
    <2>2. IsCycleOf(Asks, C)
      BY <1>2, <2>1 DEF CyclesKnit
    <2>3. \A e \in Asks : e[1] \in C /\ e[2] \in C => e \in Asks'
      BY <1>2
    <2> QED
      BY <2>1, <2>2, <2>3, CycleKept, FiniteCycles
  <1>3. VictimBlamed'
    BY <1>1 DEF VictimBlamed
  <1>4. CyclesKnit'
    BY <1>1, <1>2 DEF CyclesKnit, IsCycleOf
  <1> QED
    BY <1>3, <1>4

\* Steps in which nobody lets go of anything disturb neither cycles nor edges.
LEMMA HoldersKeep ==
    ASSUME IInv, UNCHANGED detector, phase' = phase,
           \A t \in Txs : asked[t] \subseteq asked'[t],
           \A r \in Resources : owner[r] # None => owner'[r] = owner[r]
    PROVE  /\ edges \subseteq Asks'
           /\ VictimBlamed' /\ CyclesKnit'
  <1>1. \A r \in Resources : owner[r] \in Txs => owner'[r] = owner[r]
    BY ConstAssumption
  <1>2. \A e \in Asks : e[2] \in Txs => e \in Asks'
    BY <1>1, AsksKeep DEF IInv
  <1>3. \A e \in Asks : e \in Asks'
    BY <1>2, AsksIs
  <1>4. VictimBlamed' /\ CyclesKnit'
    BY <1>3, CyclesKeep DEF IInv
  <1> QED
    BY <1>3, <1>4 DEF IInv, EdgesTrue

LEMMA LockInv ==
    ASSUME IInv, NEW t \in Txs, NEW r \in Resources, Lock(t, r)
    PROVE  IInv'
  <1> DEFINE new == {<<o, t>> : o \in {o \in Txs \ {t} : WantedBy(o) = r}}
  <1>1. /\ phase[t] = "growing" /\ waits[t] = None /\ owner[r] = None
        /\ owner' = [owner EXCEPT ![r] = t] /\ AddHolder(t, r)
        /\ UNCHANGED <<waits, phase, asked, unseen, detector, forgotten>>
    BY DEF Lock
  <1>2. /\ node' \in NodeType
        /\ HeldBy(t)' = HeldBy(t) \cup {r} /\ WantedBy(t)' = WantedBy(t) /\ node'[t] # None
        /\ \A o \in Txs \ {t} : /\ node'[o] = node[o]
                                /\ HeldBy(o)' = HeldBy(o)
                                /\ WantedBy(o)' = WantedBy(o)
        /\ edges' = edges \cup new
    <2>1. node \in NodeType
      BY DEF IInv, TypeOK, NodeType
    <2> QED
      BY <1>1, <2>1, AddHolderEffect
  <1> HIDE DEF new
  <1>3. \A e \in new : \E o \in Txs \ {t} : e = <<o, t>> /\ e[1] = o /\ e[2] = t /\ WantedBy(o) = r
    BY DEF new
  <1>4. /\ owner'[r] = t /\ \A q \in Resources \ {r} : owner'[q] = owner[q]
        /\ owner' \in [Resources -> Txs \cup {None}]
    BY <1>1 DEF IInv, TypeOK
  <1>5. TypeOK'
    <2>1. new \subseteq Txs \X Txs
      BY <1>3
    <2> QED
      BY <1>1, <1>2, <1>4, <2>1 DEF IInv, TypeOK, NodeType, detector
  <1>6. NodesTrue'
    BY <1>1, <1>2, <1>4, ConstAssumption DEF IInv, NodesTrue, TypeOK
  <1>7. EdgesJoinNodes'
    <2>1. ASSUME NEW o \in Txs, WantedBy(o) = r PROVE node[o] # None
      BY <2>1, Accessors, ConstAssumption DEF IInv, TypeOK, NodeType
    <2> QED
      BY <1>2, <1>3, <2>1 DEF IInv, EdgesJoinNodes, TypeOK
  <1>8. edges \subseteq Asks' /\ VictimBlamed' /\ CyclesKnit'
    <2>1. \A q \in Resources : owner[q] # None => owner'[q] = owner[q]
      BY <1>1, <1>4
    <2> QED
      BY <1>1, <2>1, HoldersKeep
  <1>9. EdgesTrue'
    <2>1. ASSUME NEW e \in new PROVE e \in Asks'
      <3>1. PICK o \in Txs \ {t} : e = <<o, t>> /\ WantedBy(o) = r
        BY <1>3
      <3>2. r \in asked'[o]
        BY <1>1, <3>1, ConstAssumption DEF IInv, NodesTrue
      <3> QED
        BY <1>4, <3>1, <3>2, AsksIsNext
    <2> QED
      BY <1>2, <1>8, <2>1 DEF EdgesTrue
  <1>10. WaitsShown'
    <2> SUFFICES ASSUME NEW x \in Txs, NEW u \in Txs, WaitsFor(x, u)',
                        x \notin unseen \cup forgotten, u \notin forgotten
                 PROVE  <<x, u>> \in edges'
      BY <1>1 DEF WaitsShown
    <2>1. CASE waits[x] = r
      BY <1>1, <1>2, <1>4, <2>1, ConstAssumption DEF IInv, NodesTrue, WaitsFor, TypeOK, new
    <2>2. CASE waits[x] # r
      BY <1>1, <1>2, <1>4, <2>2 DEF IInv, WaitsShown, WaitsFor, TypeOK
    <2> QED
      BY <2>1, <2>2
  <1>11. ClientInv'
    <2>1. \A x \in unseen : waits[x] \in Resources \ {r}
      BY <1>1 DEF IInv, UnseenWait, TypeOK
    <2> QED
      BY <1>1, <1>4, <2>1 DEF IInv, ClientInv, UnseenWait, WaitersGrow
  <1> QED
    BY <1>5, <1>6, <1>7, <1>8, <1>9, <1>10, <1>11 DEF IInv, ClientInv

LEMMA BeginWaitInv ==
    ASSUME IInv, NEW t \in Txs, NEW r \in Resources, BeginWait(t, r)
    PROVE  IInv'
  <1> DEFINE new == {<<t, o>> : o \in {o \in Txs \ {t} : r \in HeldBy(o)}}
  <1>1. /\ phase[t] = "growing" /\ waits[t] = None /\ owner[r] # None /\ owner[r] # t
        /\ waits' = [waits EXCEPT ![t] = r] /\ AddWaiter(t, r)
        /\ asked' = [asked EXCEPT ![t] = @ \cup {r}]
        /\ UNCHANGED <<owner, phase, unseen, detector, forgotten>>
    BY DEF BeginWait
  <1>2. /\ node' \in NodeType
        /\ HeldBy(t)' = HeldBy(t) /\ WantedBy(t)' = r /\ node'[t] # None
        /\ \A o \in Txs \ {t} : /\ node'[o] = node[o]
                                /\ HeldBy(o)' = HeldBy(o)
                                /\ WantedBy(o)' = WantedBy(o)
        /\ edges' = edges \cup new
    <2>1. node \in NodeType
      BY DEF IInv, TypeOK, NodeType
    <2> QED
      BY <1>1, <2>1, AddWaiterEffect
  <1> HIDE DEF new
  <1>3. \A e \in new : \E o \in Txs \ {t} : e = <<t, o>> /\ e[1] = t /\ e[2] = o /\ r \in HeldBy(o)
    BY DEF new
  <1>4. /\ waits'[t] = r /\ \A x \in Txs \ {t} : waits'[x] = waits[x]
        /\ waits' \in [Txs -> Resources \cup {None}]
        /\ asked'[t] = asked[t] \cup {r} /\ \A x \in Txs \ {t} : asked'[x] = asked[x]
        /\ asked' \in [Txs -> SUBSET Resources]
        /\ r # None
    BY <1>1, ConstAssumption DEF IInv, TypeOK
  <1>5. TypeOK'
    <2>1. new \subseteq Txs \X Txs
      BY <1>3
    <2> QED
      BY <1>1, <1>2, <1>4, <2>1 DEF IInv, TypeOK, NodeType, detector
  <1>6. NodesTrue'
    BY <1>1, <1>2, <1>4 DEF IInv, NodesTrue, TypeOK
  <1>7. EdgesJoinNodes'
    <2>1. ASSUME NEW o \in Txs, r \in HeldBy(o) PROVE node[o] # None
      BY <2>1, Accessors DEF IInv, TypeOK, NodeType
    <2> QED
      BY <1>2, <1>3, <2>1 DEF IInv, EdgesJoinNodes, TypeOK
  <1>8. edges \subseteq Asks' /\ VictimBlamed' /\ CyclesKnit'
    <2>1. \A x \in Txs : asked[x] \subseteq asked'[x]
      BY <1>4
    <2> QED
      BY <1>1, <2>1, HoldersKeep
  <1>9. EdgesTrue'
    <2>1. ASSUME NEW e \in new PROVE e \in Asks'
      <3>1. PICK o \in Txs \ {t} : e = <<t, o>> /\ r \in HeldBy(o)
        BY <1>3
      <3>2. owner'[r] = o /\ r \in asked'[t]
        BY <1>1, <1>4, <3>1 DEF IInv, NodesTrue
      <3> QED
        BY <3>1, <3>2, AsksIsNext
    <2> QED
      BY <1>2, <1>8, <2>1 DEF EdgesTrue
  <1>10. WaitsShown'
    <2> SUFFICES ASSUME NEW x \in Txs, NEW u \in Txs, WaitsFor(x, u)',
                        x \notin unseen \cup forgotten, u \notin forgotten
                 PROVE  <<x, u>> \in edges'
      BY <1>1 DEF WaitsShown
    <2>1. CASE x = t
      BY <1>1, <1>2, <1>4, <2>1 DEF IInv, NodesTrue, WaitsFor, new
    <2>2. CASE x # t
      BY <1>1, <1>2, <1>4, <2>2 DEF IInv, WaitsShown, WaitsFor
    <2> QED
      BY <2>1, <2>2
  <1>11. ClientInv'
    <2>1. t \notin unseen /\ unseen \subseteq Txs
      BY <1>1 DEF IInv, UnseenWait, TypeOK
    <2> QED
      BY <1>1, <1>4, <2>1 DEF IInv, ClientInv, UnseenWait, WaitersGrow
  <1> QED
    BY <1>5, <1>6, <1>7, <1>8, <1>9, <1>10, <1>11 DEF IInv, ClientInv

LEMMA GrantedInv ==
    ASSUME IInv, NEW t \in Txs, Granted(t)
    PROVE  IInv'
  <1> DEFINE r == waits[t]
             new == {<<o, t>> : o \in {o \in Txs \ {t} : WantedBy(o) = r}}
  <1>1. /\ r \in Resources /\ owner[r] = None
        /\ owner' = [owner EXCEPT ![r] = t] /\ waits' = [waits EXCEPT ![t] = None]
        /\ AddHolder(t, r)
        /\ UNCHANGED <<phase, asked, unseen, detector, forgotten>>
    BY DEF Granted, IInv, TypeOK
  <1>2. /\ node' \in NodeType
        /\ HeldBy(t)' = HeldBy(t) \cup {r} /\ WantedBy(t)' = WantedBy(t) /\ node'[t] # None
        /\ \A o \in Txs \ {t} : /\ node'[o] = node[o]
                                /\ HeldBy(o)' = HeldBy(o)
                                /\ WantedBy(o)' = WantedBy(o)
        /\ edges' = edges \cup new
    <2>1. node \in NodeType
      BY DEF IInv, TypeOK, NodeType
    <2> HIDE DEF r
    <2>2. /\ node' \in NodeType
          /\ HeldBy(t)' = HeldBy(t) \cup {r} /\ WantedBy(t)' = WantedBy(t) /\ node'[t] # None
          /\ \A o \in Txs \ {t} : /\ node'[o] = node[o]
                                  /\ HeldBy(o)' = HeldBy(o)
                                  /\ WantedBy(o)' = WantedBy(o)
          /\ edges' = edges \cup {<<o, t>> : o \in {o \in Txs \ {t} : WantedBy(o) = r}}
      BY <1>1, <2>1, AddHolderEffect
    <2> QED
      BY <2>2
  <1> HIDE DEF new
  <1>3. \A e \in new : \E o \in Txs \ {t} : e = <<o, t>> /\ e[1] = o /\ e[2] = t /\ WantedBy(o) = r
    BY DEF new
  <1>4. /\ owner'[r] = t /\ \A q \in Resources \ {r} : owner'[q] = owner[q]
        /\ owner' \in [Resources -> Txs \cup {None}]
        /\ waits'[t] = None /\ \A x \in Txs \ {t} : waits'[x] = waits[x]
        /\ waits' \in [Txs -> Resources \cup {None}]
    BY <1>1 DEF IInv, TypeOK
  <1>5. r # None /\ t # None
    BY <1>1, ConstAssumption
  <1>6. waits[t] = r
    OBVIOUS
  <1> HIDE DEF r
  <1>7. TypeOK'
    <2>1. new \subseteq Txs \X Txs
      BY <1>3
    <2> QED
      BY <1>1, <1>2, <1>4, <2>1 DEF IInv, TypeOK, NodeType, detector
  <1>8. NodesTrue'
    <2>1. ASSUME NEW x \in Txs
          PROVE  /\ \A q \in HeldBy(x)' : owner'[q] = x
                 /\ x \notin forgotten => \A q \in Resources : owner'[q] = x => q \in HeldBy(x)'
      <3>1. HeldBy(x) \subseteq Resources
        BY Accessors DEF IInv, TypeOK, NodeType
      <3>2. \A q \in HeldBy(x) : owner[q] = x /\ q # r
        BY <1>1, <3>1, ConstAssumption DEF IInv, NodesTrue
      <3>3. x \notin forgotten => \A q \in Resources : owner[q] = x => q \in HeldBy(x)
        BY DEF IInv, NodesTrue
      <3> QED
        BY <1>2, <1>4, <3>1, <3>2, <3>3
    <2>2. ASSUME NEW x \in Txs
          PROVE  /\ WantedBy(x)' \in asked'[x] \cup {None}
                 /\ waits'[x] \in asked'[x] \cup {None}
                 /\ x \notin forgotten /\ waits'[x] # None => WantedBy(x)' = waits'[x]
      BY <1>1, <1>2, <1>4 DEF IInv, NodesTrue
    <2> QED
      BY <1>1, <2>1, <2>2 DEF NodesTrue
  <1>9. EdgesJoinNodes'
    <2>1. ASSUME NEW o \in Txs, WantedBy(o) = r PROVE node[o] # None
      BY <2>1, <1>5, Accessors DEF IInv, TypeOK, NodeType
    <2> QED
      BY <1>2, <1>3, <2>1 DEF IInv, EdgesJoinNodes, TypeOK
  <1>10. edges \subseteq Asks' /\ VictimBlamed' /\ CyclesKnit'
    <2>1. \A q \in Resources : owner[q] # None => owner'[q] = owner[q]
      BY <1>1, <1>4
    <2> QED
      BY <1>1, <2>1, HoldersKeep
  <1>11. EdgesTrue'
    <2>1. ASSUME NEW e \in new PROVE e \in Asks'
      <3>1. PICK o \in Txs \ {t} : e = <<o, t>> /\ WantedBy(o) = r
        BY <1>3
      <3>2. r \in asked'[o]
        BY <1>1, <1>5, <3>1 DEF IInv, NodesTrue
      <3> QED
        BY <1>4, <3>1, <3>2, AsksIsNext
    <2> QED
      BY <1>2, <1>10, <2>1 DEF EdgesTrue
  <1>12. WaitsShown'
    <2> SUFFICES ASSUME NEW x \in Txs, NEW u \in Txs, WaitsFor(x, u)',
                        x \notin unseen \cup forgotten, u \notin forgotten
                 PROVE  <<x, u>> \in edges'
      BY <1>1 DEF WaitsShown
    <2>1. x # t
      BY <1>4 DEF WaitsFor
    <2>2. CASE waits[x] = r
      BY <1>1, <1>2, <1>4, <1>5, <2>1, <2>2 DEF IInv, NodesTrue, WaitsFor, TypeOK, new
    <2>3. CASE waits[x] # r
      BY <1>1, <1>2, <1>4, <2>1, <2>3 DEF IInv, WaitsShown, WaitsFor, TypeOK
    <2> QED
      BY <2>2, <2>3
  <1>13. ClientInv'
    <2>1. t \notin unseen
      BY <1>1, <1>6 DEF IInv, UnseenWait
    <2>2. \A x \in unseen : x \in Txs /\ waits[x] \in Resources \ {r}
      BY <1>1 DEF IInv, UnseenWait, TypeOK
    <2> QED
      BY <1>1, <1>4, <2>1, <2>2 DEF IInv, ClientInv, UnseenWait, WaitersGrow
  <1> QED
    BY <1>7, <1>8, <1>9, <1>10, <1>11, <1>12, <1>13 DEF IInv, ClientInv

\* The graph does not notice.
LEMMA GiveUpInv ==
    ASSUME IInv, NEW t \in Txs, GiveUp(t)
    PROVE  IInv'
  <1>1. /\ waits' = [waits EXCEPT ![t] = None]
        /\ unseen' = unseen \ {t}
        /\ UNCHANGED <<owner, phase, node, edges, asked, detector, forgotten>>
    BY DEF GiveUp
  <1>2. /\ waits'[t] = None /\ \A x \in Txs \ {t} : waits'[x] = waits[x]
        /\ waits' \in [Txs -> Resources \cup {None}]
    BY <1>1 DEF IInv, TypeOK
  <1>3. \A x \in Txs : HeldBy(x)' = HeldBy(x) /\ WantedBy(x)' = WantedBy(x)
    BY <1>1, SameNodes
  <1>4. TypeOK'
    BY <1>1, <1>2 DEF IInv, TypeOK, detector
  <1>5. NodesTrue'
    BY <1>1, <1>2, <1>3 DEF IInv, NodesTrue
  <1>6. EdgesJoinNodes'
    BY <1>1 DEF IInv, EdgesJoinNodes
  <1>7. EdgesTrue' /\ VictimBlamed' /\ CyclesKnit'
    BY <1>1, HoldersKeep DEF EdgesTrue
  <1>8. WaitsShown'
    BY <1>1, <1>2 DEF IInv, WaitsShown, WaitsFor
  <1>9. ClientInv'
    BY <1>1, <1>2 DEF IInv, ClientInv, UnseenWait, WaitersGrow, TypeOK
  <1> QED
    BY <1>4, <1>5, <1>6, <1>7, <1>8, <1>9 DEF IInv, ClientInv

LEMMA ReleaseInv ==
    ASSUME IInv, NEW t \in Txs, NEW r \in Resources, Release(t, r)
    PROVE  IInv'
  <1>1. /\ waits[t] = None /\ owner[r] = t
        /\ owner' = [owner EXCEPT ![r] = None]
        /\ phase' = [phase EXCEPT ![t] = IF TwoPhase THEN "shrinking" ELSE @]
        /\ unseen' = {u \in unseen : waits[u] # r} \cup WaitElsewhere(t, r)
        /\ RemoveHolder(t, r)
        /\ UNCHANGED <<waits, asked, detector, forgotten>>
    BY DEF Release
  <1>2. /\ node' \in NodeType
        /\ HeldBy(t)' = HeldBy(t) \ {r} /\ WantedBy(t)' = WantedBy(t)
        /\ \A o \in Txs : node'[o] = None <=> node[o] = None
        /\ \A o \in Txs \ {t} : HeldBy(o)' = HeldBy(o) /\ WantedBy(o)' = WantedBy(o)
        /\ edges' \subseteq edges
        /\ \A e \in edges : e[2] # t => e \in edges'
        /\ node[t] # None => \A e \in edges' : e[2] = t => e[1] = t
    <2>1. node \in NodeType
      BY DEF IInv, TypeOK, NodeType
    <2> QED
      BY <1>1, <2>1, RemoveHolderEffect
  <1>3. /\ owner'[r] = None /\ \A q \in Resources \ {r} : owner'[q] = owner[q]
        /\ owner' \in [Resources -> Txs \cup {None}]
        /\ TwoPhase => phase'[t] = "shrinking"
        /\ ~TwoPhase => phase' = phase
        /\ \A x \in Txs \ {t} : phase'[x] = phase[x]
        /\ phase' \in [Txs -> {"growing", "shrinking"}]
    BY <1>1 DEF IInv, TypeOK
  <1>4. WaitElsewhere(t, r) \subseteq Txs /\ unseen' \subseteq Txs
    BY <1>1 DEF WaitElsewhere, IInv, TypeOK
  <1>5. TypeOK'
    BY <1>1, <1>2, <1>3, <1>4 DEF IInv, TypeOK, NodeType, detector
  <1>6. NodesTrue'
    BY <1>1, <1>2, <1>3, ConstAssumption DEF IInv, NodesTrue, TypeOK
  <1>7. EdgesJoinNodes'
    BY <1>2 DEF IInv, EdgesJoinNodes, TypeOK
  <1>8. \A e \in Asks : e[2] \in Txs \ {t} => e \in Asks'
    <2>1. \A q \in Resources : owner[q] \in Txs \ {t} => owner'[q] = owner[q]
      BY <1>1, <1>3
    <2> QED
      BY <1>1, <2>1, AsksKeep DEF IInv
  <1>9. EdgesTrue'
    <2> SUFFICES ASSUME NEW e \in edges' PROVE e \in Asks'
      BY DEF EdgesTrue
    <2>1. e \in edges /\ e \in Asks
      BY <1>2 DEF IInv, EdgesTrue
    <2>2. PICK x \in Txs, u \in Txs : e = <<x, u>> /\ x # u
      BY <2>1, AsksIs
    <2>3. e[2] # t
      BY <1>2, <2>1, <2>2 DEF IInv, EdgesJoinNodes
    <2> QED
      BY <1>8, <2>1, <2>2, <2>3
  <1>10. WaitsShown'
    <2> SUFFICES ASSUME NEW x \in Txs, NEW u \in Txs, WaitsFor(x, u)',
                        x \notin unseen' \cup forgotten, u \notin forgotten
                 PROVE  <<x, u>> \in edges'
      BY <1>1 DEF WaitsShown
    <2>1. waits[x] # None /\ owner'[waits[x]] = u /\ u # None
      BY <1>1, ConstAssumption DEF WaitsFor
    <2>2. waits[x] \in Resources \ {r} /\ owner[waits[x]] = u
      BY <2>1, <1>3 DEF IInv, TypeOK
    <2>3. u # t
      BY <1>1, <2>1, <2>2 DEF WaitElsewhere
    <2>4. x \notin unseen
      BY <1>1, <2>2
    <2>5. <<x, u>> \in edges
      BY <2>1, <2>2, <2>4 DEF IInv, WaitsShown, WaitsFor
    <2> QED
      BY <2>3, <2>5, <1>2
  <1>11. ClientInv'
    <2>1. UnseenWait'
      <3> SUFFICES ASSUME NEW x \in unseen'
                   PROVE  /\ waits[x] # None /\ owner'[waits[x]] # None
                          /\ TwoPhase => phase'[owner'[waits[x]]] = "shrinking"
        BY <1>1 DEF UnseenWait
      <3>1. CASE x \in unseen /\ waits[x] # r
        <4>1. waits[x] \in Resources \ {r} /\ owner'[waits[x]] = owner[waits[x]]
          BY <1>3, <3>1 DEF IInv, UnseenWait, TypeOK
        <4>2. owner[waits[x]] \in Txs /\ TwoPhase => phase[owner[waits[x]]] = "shrinking"
          BY <3>1, <4>1 DEF IInv, UnseenWait, TypeOK
        <4> QED
          BY <1>3, <3>1, <4>1, <4>2 DEF IInv, UnseenWait, TypeOK
      <3>2. CASE x \in WaitElsewhere(t, r)
        <4>1. waits[x] \in Resources \ {r} /\ owner[waits[x]] = t
          BY <3>2 DEF WaitElsewhere, IInv, TypeOK
        <4> QED
          BY <1>3, <4>1, <3>2, ConstAssumption DEF WaitElsewhere
      <3> QED
        BY <1>1, <3>1, <3>2
    <2>2. TwoPhase => WaitersGrow'
      BY <1>1, <1>3 DEF IInv, WaitersGrow
    <2> QED
      BY <2>1, <2>2 DEF ClientInv
  <1>12. VictimBlamed' /\ CyclesKnit'
    <2>1. TwoPhase => \A x \in Txs : phase'[x] = "growing" => phase[x] = "growing"
      BY <1>3
    <2>2. ASSUME TwoPhase, NEW e \in Asks, phase'[e[2]] = "growing" PROVE e \in Asks'
      <3>1. e[2] \in Txs \ {t}
        BY <1>3, <2>2, AsksIs
      <3> QED
        BY <1>8, <3>1
    <2> QED
      BY <1>1, <2>1, <2>2, CyclesKeep DEF IInv
  <1> QED
    BY <1>5, <1>6, <1>7, <1>9, <1>10, <1>11, <1>12 DEF IInv, ClientInv

\* The clients' side of the invariant needs nothing of the graph.
LEMMA ClientsKeep ==
    ASSUME IInv, UNCHANGED <<owner, waits, phase, asked, unseen>>
    PROVE  ClientInv'
  BY DEF IInv, ClientInv, UnseenWait, WaitersGrow

LEMMA TickInv ==
    ASSUME IInv, Tick
    PROVE  IInv'
  <1>1. UNCHANGED <<owner, waits, phase, asked, unseen, edges, detector, forgotten>>
    BY DEF Tick, clients
  <1>2. /\ node' \in NodeType
        /\ \A t \in Txs : /\ node'[t] = None <=> node[t] = None
                          /\ HeldBy(t)' = HeldBy(t)
                          /\ WantedBy(t)' = WantedBy(t)
    <2>1. node \in NodeType
      BY DEF IInv, TypeOK, NodeType
    <2> QED
      BY <2>1, TickEffect
  <1>3. TypeOK'
    BY <1>1, <1>2 DEF IInv, TypeOK, NodeType, detector
  <1>4. NodesTrue'
    BY <1>1, <1>2 DEF IInv, NodesTrue
  <1>5. EdgesJoinNodes' /\ WaitsShown'
    BY <1>1, <1>2 DEF IInv, EdgesJoinNodes, WaitsShown, WaitsFor, TypeOK
  <1>6. EdgesTrue' /\ VictimBlamed' /\ CyclesKnit'
    BY <1>1, HoldersKeep DEF EdgesTrue
  <1> QED
    BY <1>1, <1>3, <1>4, <1>5, <1>6, ClientsKeep DEF IInv, ClientInv

\* The detector removes nodes and remembers that it did.
LEMMA ForgetInv ==
    ASSUME IInv, NEW G \in SUBSET Txs, RemoveNodes(G), forgotten' = forgotten \cup G,
           UNCHANGED <<owner, waits, phase, asked, unseen>>
    PROVE  /\ node' \in NodeType /\ edges' \subseteq edges /\ forgotten' \subseteq Txs
           /\ GraphInv'
  <1>1. /\ node' \in NodeType
        /\ \A t \in Txs \ G : /\ node'[t] = node[t]
                              /\ HeldBy(t)' = HeldBy(t)
                              /\ WantedBy(t)' = WantedBy(t)
        /\ \A t \in G : HeldBy(t)' = {} /\ WantedBy(t)' = None
        /\ edges' = {e \in edges : e[1] \notin G /\ e[2] \notin G}
    <2>1. node \in NodeType
      BY DEF IInv, TypeOK, NodeType
    <2> QED
      BY <2>1, RemoveNodesEffect
  <1>2. NodesTrue'
    BY <1>1 DEF IInv, NodesTrue
  <1>3. EdgesJoinNodes'
    BY <1>1 DEF IInv, EdgesJoinNodes, TypeOK
  <1>4. EdgesTrue'
    BY <1>1 DEF IInv, EdgesTrue, Asks
  <1>5. WaitsShown'
    BY <1>1 DEF IInv, WaitsShown, WaitsFor
  <1> QED
    BY <1>1, <1>2, <1>3, <1>4, <1>5 DEF GraphInv, IInv, TypeOK

LEMMA CleanupInv ==
    ASSUME IInv, Cleanup
    PROVE  IInv'
  <1>1. /\ det' = "search"
        /\ UNCHANGED <<owner, waits, phase, asked, unseen, strategy, cycles, blamed, victim>>
    BY DEF Cleanup, clients
  <1>2. node' \in NodeType /\ edges' \subseteq edges /\ forgotten' \subseteq Txs /\ GraphInv'
    <2>1. CASE Sweep
      <3>1. Stale \in SUBSET Txs
        BY DEF Stale
      <3> QED
        BY <1>1, <2>1, <3>1, ForgetInv DEF Sweep
    <2>2. CASE UNCHANGED <<node, edges, forgotten>>
      <3>1. \A t \in Txs : HeldBy(t)' = HeldBy(t) /\ WantedBy(t)' = WantedBy(t)
        BY <2>2, SameNodes
      <3>2. NodesTrue'
        BY <1>1, <2>2, <3>1 DEF IInv, NodesTrue
      <3>3. EdgesJoinNodes' /\ EdgesTrue' /\ WaitsShown'
        BY <1>1, <2>2 DEF IInv, EdgesJoinNodes, EdgesTrue, Asks, WaitsShown, WaitsFor
      <3> QED
        BY <2>2, <3>2, <3>3 DEF IInv, TypeOK, NodeType, GraphInv
    <2> QED
      BY <2>1, <2>2 DEF Cleanup
  <1>3. TypeOK'
    BY <1>1, <1>2 DEF IInv, TypeOK, NodeType
  <1>4. VictimBlamed' /\ CyclesKnit'
    BY <1>1 DEF IInv, VictimBlamed, CyclesKnit, IsCycleOf, Asks
  <1> QED
    BY <1>1, <1>2, <1>3, <1>4, ClientsKeep DEF IInv, GraphInv, ClientInv

\* On a cycle of what was asked for, loyal transactions wait for one another.
LEMMA LoyalReal ==
    ASSUME TypeOK, NEW C \in SUBSET Txs, IsCycleOf(Asks, C), \A t \in C : Loyal(t)
    PROVE  Real(C)
  <1> DEFINE n == Cardinality(C)
             succ(i) == (i % n) + 1
  <1>1. PICK s \in [1..n -> C] :
           /\ C = {s[i] : i \in 1..n}
           /\ \A i \in 1..n : <<s[i], s[succ(i)]>> \in Asks
    BY DEF IsCycleOf
  <1>2. n \in Nat
    BY FiniteCycles, FS_CardinalityType
  <1> HIDE DEF n
  <1>3. ASSUME NEW i \in 1..n
        PROVE  /\ succ(i) \in 1..n
               /\ waits[s[i]] # None /\ owner[waits[s[i]]] = s[succ(i)]
    <2>1. succ(i) \in 1..n
      BY <1>2, Around
    <2> DEFINE x == s[i]
               y == s[succ(i)]
    <2>2. x \in C /\ y \in C /\ <<x, y>> \in Asks
      BY <1>1, <2>1
    <2> HIDE DEF x, y, succ
    <2>3. x # y /\ \E r \in asked[x] : owner[r] = y
      BY <2>2, AsksIs
    <2>4. waits[x] # None /\ owner[waits[x]] = y
      <3>1. PICK r \in asked[x] : owner[r] = y
        BY <2>3
      <3>2. r \in Resources /\ (waits[x] = r \/ owner[r] = x)
        BY <2>2, <3>1 DEF Loyal, TypeOK
      <3> QED
        BY <2>3, <3>1, <3>2, ConstAssumption
    <2> QED
      BY <2>1, <2>4 DEF x, y
  <1>4. ASSUME NEW x \in C PROVE waits[x] # None /\ owner[waits[x]] \in C
    <2>1. PICK i \in 1..n : x = s[i]
      BY <1>1
    <2>2. s[succ(i)] \in C
      BY <1>1, <1>3
    <2> QED
      BY <1>3, <2>1, <2>2
  <1>5. ASSUME NEW y \in C PROVE \E x \in C : owner[waits[x]] = y
    <2>1. PICK j \in 1..n : y = s[j]
      BY <1>1
    <2>2. n \in Nat \ {0}
      BY <1>2
    <2>3. PICK i \in 1..n : succ(i) = j
      BY <2>2, Around
    <2> QED
      BY <1>1, <1>3, <2>1, <2>3
  <1> QED
    BY <1>4, <1>5 DEF Real

LEMMA SearchInv ==
    ASSUME IInv, Search
    PROVE  IInv'
  <1>1. /\ cycles' \in SearchResult
        /\ det' \in {"idle", "resolve"}
        /\ UNCHANGED <<owner, waits, phase, asked, unseen, node, edges, strategy, blamed, victim, forgotten>>
    BY DEF Search, clients
  <1>2. cycles' \subseteq GraphCycles
    BY <1>1 DEF SearchResult, SearchResults, GraphCycles
  <1>3. \A t \in Txs : HeldBy(t)' = HeldBy(t) /\ WantedBy(t)' = WantedBy(t)
    BY <1>1, SameNodes
  <1>4. TypeOK'
    <2>1. cycles' \subseteq SUBSET Txs
      BY <1>2 DEF GraphCycles, CyclesOf
    <2> QED
      BY <1>1, <2>1 DEF IInv, TypeOK
  <1>5. NodesTrue'
    BY <1>1, <1>3 DEF IInv, NodesTrue
  <1>6. EdgesJoinNodes' /\ EdgesTrue' /\ WaitsShown'
    BY <1>1 DEF IInv, EdgesJoinNodes, EdgesTrue, Asks, WaitsShown, WaitsFor
  <1>7. VictimBlamed' /\ CyclesKnit'
    <2>1. ASSUME NEW C \in cycles' PROVE IsCycleOf(Asks, C)
      <3>1. C \in SUBSET Txs /\ IsCycleOf(edges, C)
        BY <1>2 DEF GraphCycles, CyclesOf
      <3>2. \A e \in edges : e[1] \in C /\ e[2] \in C => e \in Asks
        BY DEF IInv, EdgesTrue
      <3> QED
        BY <3>1, <3>2, CycleKept, FiniteCycles
    <2>2. TwoPhase /\ (\A t \in blamed : phase[t] = "growing") => IsCycleOf(Asks, blamed)
      BY DEF IInv, CyclesKnit
    <2>3. Asks' = Asks
      BY <1>1 DEF Asks
    <2>4. VictimBlamed'
      BY <1>1 DEF IInv, VictimBlamed
    <2> QED
      BY <1>1, <2>1, <2>2, <2>3, <2>4 DEF CyclesKnit, IsCycleOf
  <1> QED
    BY <1>1, <1>4, <1>5, <1>6, <1>7, ClientsKeep DEF IInv, ClientInv

LEMMA ChooseInv ==
    ASSUME IInv, Choose
    PROVE  IInv'
  <1>1. UNCHANGED <<owner, waits, phase, asked, unseen, node, edges, strategy, forgotten>>
    BY DEF Choose, clients
  <1>2. PICK C \in cycles :
           /\ cycles' = cycles \ {C}
           /\ \/ /\ det' = After(cycles')
                 /\ UNCHANGED <<blamed, victim>>
              \/ \E v \in Victims(C) : victim' = v /\ blamed' = C /\ det' = "abort"
    BY DEF Choose
  <1>3. Victims(C) \subseteq C /\ C \subseteq Txs
    <2>1. C \subseteq Txs
      BY DEF IInv, TypeOK
    <2>2. strategy \in {"waitDie", "timeout", "priority"}
      BY ConstAssumption DEF IInv, TypeOK
    <2> QED
      BY <2>1, <2>2 DEF Victims, WaitDieVictims, TimeoutVictims, PriorityVictims, Present
  <1>4. \/ blamed' = blamed /\ victim' = victim
        \/ blamed' = C /\ victim' \in C
    BY <1>2, <1>3
  <1>5. \A t \in Txs : HeldBy(t)' = HeldBy(t) /\ WantedBy(t)' = WantedBy(t)
    BY <1>1, SameNodes
  <1>6. TypeOK'
    <2>1. det' \in {"idle", "resolve", "abort"}
      BY <1>2 DEF After
    <2> QED
      BY <1>1, <1>2, <1>3, <1>4, <2>1 DEF IInv, TypeOK
  <1>7. NodesTrue'
    BY <1>1, <1>5 DEF IInv, NodesTrue
  <1>8. EdgesJoinNodes' /\ EdgesTrue' /\ WaitsShown'
    BY <1>1 DEF IInv, EdgesJoinNodes, EdgesTrue, Asks, WaitsShown, WaitsFor
  <1>9. VictimBlamed'
    <2>1. victim' # None => victim' \in blamed'
      BY <1>4 DEF IInv, VictimBlamed
    <2>2. det' = "abort" => victim' # None
      BY <1>2, <1>3, ConstAssumption DEF After
    <2> QED
      BY <2>1, <2>2 DEF VictimBlamed
  <1>10. CyclesKnit'
    <2>1. cycles' \cup {blamed'} \subseteq cycles \cup {blamed}
      BY <1>2, <1>4
    <2>2. Asks' = Asks
      BY <1>1 DEF Asks
    <2> QED
      BY <1>1, <2>1, <2>2 DEF IInv, CyclesKnit, IsCycleOf
  <1> QED
    BY <1>1, <1>6, <1>7, <1>8, <1>9, <1>10, ClientsKeep DEF IInv, ClientInv

LEMMA AbortInv ==
    ASSUME IInv, Abort
    PROVE  IInv'
  <1>1. /\ RemoveNodes({victim}) /\ forgotten' = forgotten \cup {victim}
        /\ victim' = None /\ blamed' = {} /\ det' \in {"idle", "resolve"}
        /\ UNCHANGED <<owner, waits, phase, asked, unseen, strategy, cycles>>
    BY DEF Abort, clients, After
  <1>2. node' \in NodeType /\ edges' \subseteq edges /\ forgotten' \subseteq Txs /\ GraphInv'
    <2>1. {victim} \in SUBSET Txs
      BY DEF Abort, IInv, VictimBlamed, TypeOK
    <2> QED
      BY <1>1, <2>1, ForgetInv
  <1>3. TypeOK'
    BY <1>1, <1>2 DEF IInv, TypeOK, NodeType
  <1>4. VictimBlamed'
    BY <1>1 DEF VictimBlamed
  <1>5. CyclesKnit'
    <2>1. Asks' = Asks
      BY <1>1 DEF Asks
    <2>2. IsCycleOf(Asks, {})
      BY EmptyCycle
    <2>3. ASSUME TwoPhase, NEW C \in cycles' \cup {blamed'}, \A t \in C : phase[t] = "growing"
          PROVE  IsCycleOf(Asks, C)
      BY <1>1, <2>2, <2>3 DEF IInv, CyclesKnit
    <2> QED
      BY <1>1, <2>1, <2>3 DEF CyclesKnit, IsCycleOf
  <1> QED
    BY <1>1, <1>2, <1>3, <1>4, <1>5, ClientsKeep DEF IInv, GraphInv, ClientInv

LEMMA InitInv == Init => IInv
  <1> SUFFICES ASSUME Init PROVE IInv
    OBVIOUS
  <1>1. TypeOK
    BY DEF Init, TypeOK
  <1>2. \A t \in Txs : HeldBy(t) = {} /\ WantedBy(t) = None
    BY DEF Init, HeldBy, WantedBy, NodeOf, NewNode
  <1>3. NodesTrue
    BY <1>2, ConstAssumption DEF Init, NodesTrue
  <1>4. EdgesJoinNodes /\ EdgesTrue /\ WaitsShown
    BY DEF Init, EdgesJoinNodes, EdgesTrue, WaitsShown, WaitsFor
  <1>5. UnseenWait /\ WaitersGrow /\ VictimBlamed
    BY DEF Init, UnseenWait, WaitersGrow, VictimBlamed
  <1>6. CyclesKnit
    BY EmptyCycle DEF Init, CyclesKnit
  <1> QED
    BY <1>1, <1>3, <1>4, <1>5, <1>6 DEF IInv

LEMMA StutterInv == IInv /\ UNCHANGED vars => IInv'
  <1> SUFFICES ASSUME IInv, UNCHANGED vars PROVE IInv'
    OBVIOUS
  <1>1. UNCHANGED <<owner, waits, phase, asked, unseen, node, edges, detector, forgotten>>
    BY DEF vars, clients
  <1>2. \A t \in Txs : HeldBy(t)' = HeldBy(t) /\ WantedBy(t)' = WantedBy(t)
    BY <1>1, SameNodes
  <1>3. NodesTrue'
    BY <1>1, <1>2 DEF IInv, NodesTrue
  <1>4. TypeOK' /\ EdgesJoinNodes' /\ WaitsShown'
    BY <1>1 DEF IInv, TypeOK, detector, EdgesJoinNodes, WaitsShown, WaitsFor
  <1>5. EdgesTrue' /\ VictimBlamed' /\ CyclesKnit'
    BY <1>1, HoldersKeep DEF EdgesTrue
  <1> QED
    BY <1>1, <1>3, <1>4, <1>5, ClientsKeep DEF IInv, ClientInv

----------------------------------------------------------------------------

\* Every step of clients, clock and detector keeps nodes, edges and the cycles
\* under work in the relation to the locks that IInv describes.
THEOREM Inductive == Spec => []IInv
  <1>1. Init => IInv
    BY InitInv
  <1>2. IInv /\ [Next]_vars => IInv'
    BY LockInv, BeginWaitInv, GrantedInv, GiveUpInv, ReleaseInv, TickInv,
       CleanupInv, SearchInv, ChooseInv, AbortInv, StutterInv
       DEF Next, ClientStep, DetectorStep
  <1> QED
    BY <1>1, <1>2, PTL DEF Spec

\* The states the detector and its clients reach are well typed.
THEOREM TypeCorrect == Spec => []TypeOK
  <1>1. IInv => TypeOK
    BY DEF IInv
  <1> QED
    BY <1>1, Inductive, PTL

\* An edge leads to a holder of something its transaction has waited for; the
\* edges of one that has given up no wait, or taken it up again, are its waits.
THEOREM EdgesTrueAlways ==
    Spec => [](EdgesTrue /\ \A e \in edges : Loyal(e[1]) => WaitsFor(e[1], e[2]))
  <1>1. IInv => EdgesTrue /\ \A e \in edges : Loyal(e[1]) => WaitsFor(e[1], e[2])
    <2> SUFFICES ASSUME IInv, NEW e \in edges, Loyal(e[1]) PROVE WaitsFor(e[1], e[2])
      BY DEF IInv
    <2>1. PICK t \in Txs, u \in Txs : e = <<t, u>> /\ <<t, u>> \in Asks
      BY AsksIs DEF IInv, EdgesTrue
    <2>2. t # u
      BY <2>1, AsksIs
    <2>3. PICK r \in asked[t] : owner[r] = u
      BY <2>1, AsksIs
    <2>4. r \in Resources /\ waits[t] = r
      BY <2>1, <2>2, <2>3 DEF Loyal, IInv, TypeOK
    <2> QED
      BY <2>1, <2>3, <2>4, ConstAssumption DEF WaitsFor
  <1> QED
    BY <1>1, Inductive, PTL

\* Every wait is an edge, but for one whose holder has freed something else
\* since it began, and but for nodes the detector removed.
THEOREM WaitsShownAlways == Spec => []WaitsShown
  <1>1. IInv => WaitsShown
    BY DEF IInv
  <1> QED
    BY <1>1, Inductive, PTL

\* The graph and the locks agree, both ways.
THEOREM GraphTrueAlways == Spec => []GraphTrue
  <1>1. IInv => GraphTrue
    BY DEF IInv, GraphTrue
  <1> QED
    BY <1>1, Inductive, PTL

\* Whoever is about to be aborted for a cycle of transactions that have not
\* begun to release is on a ring of what was waited for, and deadlocked if all
\* of them are loyal, whatever happened since the search.
THEOREM VictimDeadlockedAlways == TwoPhase /\ Spec => []VictimDeadlocked
  <1>1. TwoPhase /\ IInv => VictimDeadlocked
    <2> SUFFICES ASSUME TwoPhase, IInv, victim # None, \A t \in blamed : phase[t] = "growing"
                 PROVE  /\ IsCycleOf(Asks, blamed)
                        /\ (\A t \in blamed : Loyal(t)) => Deadlocked(victim)
      BY DEF VictimDeadlocked
    <2>1. victim \in blamed /\ IsCycleOf(Asks, blamed) /\ blamed \in SUBSET Txs
      BY DEF IInv, VictimBlamed, CyclesKnit, TypeOK
    <2>2. (\A t \in blamed : Loyal(t)) => Real(blamed)
      BY <2>1, LoyalReal DEF IInv
    <2> QED
      BY <2>1, <2>2 DEF Deadlocked
  <1> SUFFICES ASSUME TwoPhase PROVE Spec => []VictimDeadlocked
    OBVIOUS
  <1>2. IInv => VictimDeadlocked
    BY <1>1
  <1> QED
    BY <1>2, Inductive, PTL

----------------------------------------------------------------------------
(* No deadlock escapes the search. *)

\* A set has as many elements as a list that names each of them once.
LEMMA Counted ==
    ASSUME NEW n \in Nat, NEW C, NEW f \in [1..n -> C],
           \A i, j \in 1..n : f[i] = f[j] => i = j,
           \A x \in C : \E i \in 1..n : f[i] = x
    PROVE  IsFiniteSet(C) /\ Cardinality(C) = n
  <1>1. f \in Bijection(1..n, C)
    BY Fun_IsBij
  <1>2. ExistsBijection(1..n, C)
    BY <1>1 DEF ExistsBijection
  <1> QED
    BY <1>2, FS_NatBijection, FS_CountingElements

\* n steps along next that meet no element twice, and what they leave out.
Walk(S, next, n, p) ==
    /\ p \in [1..n -> S]
    /\ \A i, j \in 1..n : p[i] = p[j] => i = j
    /\ \A i \in 1..(n - 1) : p[i + 1] = next[p[i]]
LeftOut(S, n, p) == {x \in S : \A i \in 1..n : p[i] # x}

\* A walk that leaves out as little as possible comes back to where it was.
LEMMA WalkReturns ==
    ASSUME NEW S, IsFiniteSet(S), S # {}, NEW next \in [S -> S]
    PROVE  \E n \in Nat \ {0} : \E p : Walk(S, next, n, p) /\ \E k \in 1..n : next[p[n]] = p[k]
  <1> DEFINE T == {U \in SUBSET S :
                     \E n \in Nat \ {0} : \E p : Walk(S, next, n, p) /\ U = LeftOut(S, n, p)}
  <1>1. T # {}
    <2>1. PICK x \in S : TRUE
      OBVIOUS
    <2>2. Walk(S, next, 1, [i \in 1..1 |-> x])
      BY DEF Walk
    <2>3. LeftOut(S, 1, [i \in 1..1 |-> x]) \in SUBSET S
      BY DEF LeftOut
    <2> QED
      BY <2>2, <2>3
  <1>2. PICK U \in T : \A V \in T : <<V, U>> \notin StrictSubsetOrdering(S)
    <2>1. T \subseteq FiniteSubsetsOf(S)
      BY FS_FiniteSubsetsOfFinite
    <2> HIDE DEF T
    <2> QED
      BY <1>1, <2>1, FS_StrictSubsetOrderingWellFounded, WFMin
  <1>3. PICK n \in Nat \ {0} : \E p : Walk(S, next, n, p) /\ U = LeftOut(S, n, p)
    BY <1>2
  <1>4. PICK p : Walk(S, next, n, p) /\ U = LeftOut(S, n, p)
    BY <1>3
  <1> DEFINE y == next[p[n]]
  <1>5. ASSUME \A k \in 1..n : y # p[k] PROVE FALSE
    <2> DEFINE q == [i \in 1..(n + 1) |-> IF i = n + 1 THEN y ELSE p[i]]
    <2>1. y \in S
      BY <1>4 DEF Walk
    <2>2. Walk(S, next, n + 1, q)
      <3>1. q \in [1..(n + 1) -> S]
        BY <1>4, <2>1 DEF Walk
      <3>2. \A i, j \in 1..(n + 1) : q[i] = q[j] => i = j
        BY <1>4, <1>5 DEF Walk
      <3>3. \A i \in 1..n : q[i + 1] = next[q[i]]
        BY <1>4 DEF Walk
      <3>4. (n + 1) - 1 = n
        OBVIOUS
      <3> HIDE DEF q
      <3> QED
        BY <3>1, <3>2, <3>3, <3>4 DEF Walk
    <2>3. LeftOut(S, n + 1, q) \subseteq U \ {y}
      <3>1. \A i \in 1..n : q[i] = p[i] /\ i \in 1..(n + 1)
        OBVIOUS
      <3>2. q[n + 1] = y /\ n + 1 \in 1..(n + 1)
        OBVIOUS
      <3> HIDE DEF q, y
      <3> QED
        BY <1>4, <3>1, <3>2 DEF LeftOut
    <2>4. y \in U
      BY <1>4, <1>5, <2>1 DEF LeftOut
    <2>5. LeftOut(S, n + 1, q) \in T
      <3>1. LeftOut(S, n + 1, q) \in SUBSET S
        BY DEF LeftOut
      <3> HIDE DEF q
      <3> QED
        BY <2>2, <3>1
    <2>6. <<LeftOut(S, n + 1, q), U>> \in StrictSubsetOrdering(S)
      BY <2>3, <2>4, <2>5 DEF StrictSubsetOrdering
    <2> QED
      BY <1>2, <2>5, <2>6
  <1> QED
    BY <1>4, <1>5

\* A finite set that its members' edges do not leave contains a cycle.
LEMMA CycleInside ==
    ASSUME NEW S, IsFiniteSet(S), S # {}, NEW next \in [S -> S], NEW E,
           \A x \in S : <<x, next[x]>> \in E
    PROVE  \E C \in (SUBSET S) \ {{}} : IsCycleOf(E, C)
  <1>1. PICK n \in Nat \ {0} : \E p : Walk(S, next, n, p) /\ \E k \in 1..n : next[p[n]] = p[k]
    BY WalkReturns
  <1>2. PICK p : Walk(S, next, n, p) /\ \E k \in 1..n : next[p[n]] = p[k]
    BY <1>1
  <1>3. PICK k \in 1..n : next[p[n]] = p[k]
    BY <1>2
  <1> DEFINE m == n + 1 - k
             s == [i \in 1..m |-> p[k + i - 1]]
             C == {s[i] : i \in 1..m}
  <1>4. m \in Nat \ {0} /\ \A i \in 1..m : k + i - 1 \in 1..n
    OBVIOUS
  <1>5. \A i \in 1..m : s[i] = p[k + i - 1] /\ s[i] \in S
    BY <1>2, <1>4 DEF Walk
  <1>6. s \in [1..m -> C] /\ C \in (SUBSET S) \ {{}}
    <2>1. 1 \in 1..m
      BY <1>4
    <2>2. s \in [1..m -> C]
      OBVIOUS
    <2>3. C \subseteq S
      BY <1>5
    <2> HIDE DEF s, m
    <2> QED
      BY <2>1, <2>2, <2>3
  <1>7. Cardinality(C) = m
    <2>1. \A i, j \in 1..m : s[i] = s[j] => i = j
      BY <1>2, <1>4, <1>5 DEF Walk
    <2>2. \A x \in C : \E i \in 1..m : s[i] = x
      OBVIOUS
    <2> HIDE DEF C, s, m
    <2> QED
      BY <1>4, <1>6, <2>1, <2>2, Counted
  <1>8. \A i \in 1..m : <<s[i], s[(i % m) + 1]>> \in E
    <2> SUFFICES ASSUME NEW i \in 1..m PROVE <<s[i], s[(i % m) + 1]>> \in E
      OBVIOUS
    <2>1. s[(i % m) + 1] = next[s[i]]
      <3>1. CASE i = m
        <4>1. (i % m) + 1 = 1
          BY <1>4, <3>1
        <4>2. s[1] = p[k] /\ s[i] = p[n]
          BY <1>4, <1>5, <3>1
        <4> QED
          BY <1>3, <4>1, <4>2
      <3>2. CASE i # m
        <4>1. (i % m) + 1 = i + 1 /\ i + 1 \in 1..m
          BY <1>4, <3>2
        <4>2. s[i] = p[k + i - 1] /\ s[i + 1] = p[k + i] /\ k + i - 1 \in 1..(n - 1)
          BY <1>4, <1>5, <3>2, <4>1
        <4>3. p[(k + i - 1) + 1] = next[p[k + i - 1]]
          BY <1>2, <4>2 DEF Walk
        <4> QED
          BY <4>1, <4>2, <4>3
      <3> QED
        BY <3>1, <3>2
    <2> QED
      BY <1>5, <2>1
  <1> HIDE DEF C, s, m
  <1>9. C = {s[i] : i \in 1..m}
    BY DEF C
  <1>10. IsCycleOf(E, C)
    BY <1>6, <1>7, <1>8, <1>9 DEF IsCycleOf
  <1> QED
    BY <1>6, <1>10

\* Every deadlock of two-phase transactions that the detector has not removed
\* holds a cycle of the graph, however many there are and whatever they hold.
THEOREM NothingMissed == TwoPhase /\ Spec => []NoMissedDeadlock
  <1>1. TwoPhase /\ IInv => NoMissedDeadlock
    <2> SUFFICES ASSUME TwoPhase, IInv,
                        NEW S \in SUBSET (Txs \ forgotten), S # {}, Real(S)
                 PROVE  \E C \in GraphCycles : C \subseteq S
      BY DEF NoMissedDeadlock
    <2> DEFINE next == [x \in S |-> owner[waits[x]]]
    <2>1. next \in [S -> S]
      BY DEF Real
    <2>2. \A x \in S : <<x, next[x]>> \in edges
      <3> SUFFICES ASSUME NEW x \in S PROVE <<x, next[x]>> \in edges
        OBVIOUS
      <3>1. next[x] \in S /\ x \in Txs /\ next[x] \in Txs
        BY <2>1
      <3>2. WaitsFor(x, next[x]) /\ phase[owner[waits[x]]] = "growing"
        BY <3>1 DEF Real, WaitsFor, IInv, WaitersGrow
      <3>3. x \notin unseen
        BY <3>2 DEF IInv, UnseenWait
      <3> QED
        BY <3>1, <3>2, <3>3 DEF IInv, WaitsShown
    <2>3. IsFiniteSet(S)
      BY ConstAssumption, FS_Subset
    <2> HIDE DEF next
    <2>4. PICK C \in (SUBSET S) \ {{}} : IsCycleOf(edges, C)
      BY <2>1, <2>2, <2>3, CycleInside
    <2> QED
      BY <2>4 DEF GraphCycles, CyclesOf
  <1> SUFFICES ASSUME TwoPhase PROVE Spec => []NoMissedDeadlock
    OBVIOUS
  <1>2. IInv => NoMissedDeadlock
    BY <1>1
  <1> QED
    BY <1>2, Inductive, PTL
=============================================================================
