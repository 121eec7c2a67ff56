------------------------- MODULE CycleSearchProofs -------------------------
(***************************************************************************)
(* The search of CycleSearch is right for every set of transactions and    *)
(* every wait-for graph: what it reports are cycles, and when it ends it   *)
(* has reported one from every component of the graph that contains any.   *)
(* The proof is by the inductive invariant IInv, one lemma per action.     *)
(***************************************************************************)
EXTENDS CycleSearch, FiniteSetTheorems, FunctionTheorems, TLAPS

\* What the actions do to the stack, in terms of indices.
LEMMA PathTop ==
    ASSUME TypeOK, path # <<>>
    PROVE  /\ Len(path) \in Nat \ {0}
           /\ Top \in Nodes
           /\ path[Len(path)] = Top
  BY DEF TypeOK, Top

LEMMA Pushed ==
    ASSUME TypeOK, NEW n \in Nodes
    PROVE  /\ Append(path, n) \in Seq(Nodes)
           /\ Len(Append(path, n)) = Len(path) + 1
           /\ \A i \in 1..Len(path) : Append(path, n)[i] = path[i]
           /\ Append(path, n)[Len(path) + 1] = n
  BY DEF TypeOK

LEMMA Popped ==
    ASSUME TypeOK, path # <<>>
    PROVE  /\ SubSeq(path, 1, Len(path) - 1) \in Seq(Nodes)
           /\ Len(SubSeq(path, 1, Len(path) - 1)) = Len(path) - 1
           /\ \A i \in 1..(Len(path) - 1) : SubSeq(path, 1, Len(path) - 1)[i] = path[i]
  <1>1. Len(path) \in Nat \ {0} /\ path \in Seq(Nodes)
    BY DEF TypeOK
  <1> QED
    BY <1>1

\* No set of finished nodes of K gains a cycle when a node of K is finished
\* that they do not lead to.
LEMMA KnotGrows ==
    ASSUME edges \subseteq Arcs,
           NEW K, NEW F, NEW n \in K,
           K \subseteq Nodes, F \subseteq K,
           n \notin F,
           \A m \in F : Successors(m) \cap K \subseteq F,
           \A S \in SUBSET F : ~Knot(S)
    PROVE  \A S \in SUBSET (F \cup {n}) : ~Knot(S)
  <1> SUFFICES ASSUME NEW S \in SUBSET (F \cup {n}), Knot(S)
               PROVE  FALSE
    OBVIOUS
  <1>1. S \ {n} \in SUBSET F
    OBVIOUS
  <1>2. S \ {n} # {}
    <2>1. SUFFICES ASSUME S = {n} PROVE FALSE
      BY DEF Knot
    <2>2. <<n, n>> \in edges
      BY <2>1 DEF Knot
    <2> QED
      BY <2>2 DEF Arcs
  <1>3. \A k \in S \ {n} : \E m \in S \ {n} : <<k, m>> \in edges
    <2> SUFFICES ASSUME NEW k \in S \ {n}
                 PROVE  \E m \in S \ {n} : <<k, m>> \in edges
      OBVIOUS
    <2>1. PICK m \in S : <<k, m>> \in edges
      BY DEF Knot
    <2>2. m \in Successors(k) \cap K
      BY <2>1 DEF Successors
    <2>3. m # n
      BY <2>2
    <2> QED
      BY <2>1, <2>3
  <1>4. Knot(S \ {n})
    BY <1>2, <1>3 DEF Knot
  <1> QED
    BY <1>1, <1>4

\* Front after a step, in terms of the edges before it, which are the same.
LEMMA FrontIntro ==
    ASSUME edges' = edges, NEW K,
           \A i \in 1..Len(path') : path'[i] \in K =>
              \A m \in (Successors(path'[i]) \cap K) \ todo'[path'[i]] :
                 m \in Finished' \/ (i < Len(path') /\ m = path'[i + 1]),
           \A n \in Finished' \cap K : Successors(n) \cap K \subseteq Finished',
           \A S \in SUBSET (Finished' \cap K) : ~Knot(S)
    PROVE  Front(K)'
  BY DEF Front, Successors, Knot

\* FrontInv after a step that keeps what was reported.
LEMMA FrontKept ==
    ASSUME FrontInv, cycles \subseteq cycles',
           ASSUME NEW K \in SUBSET Nodes, Front(K), \A c \in cycles' : c[1] \notin K
           PROVE  Front(K)'
    PROVE  FrontInv'
  <1> SUFFICES ASSUME NEW K \in SUBSET Nodes, \A c \in cycles' : c[1] \notin K
               PROVE  Front(K)'
    BY DEF FrontInv
  <1>1. Front(K)
    BY DEF FrontInv
  <1> QED
    BY <1>1

LEMMA InitInv == Init => IInv
  <1> SUFFICES ASSUME Init PROVE IInv
    OBVIOUS
  <1> USE DEF Init
  <1>1. TypeOK
    BY DEF TypeOK
  <1>2. PathInv
    BY DEF PathInv, OnPath
  <1>3. FrontInv
    BY DEF FrontInv, Front, Finished, Knot
  <1>4. OnlyCycles
    BY DEF OnlyCycles
  <1> QED
    BY <1>1, <1>2, <1>3, <1>4 DEF IInv


\* Pushing a node no search has reached.  The todo of the others may lose the
\* pushed node, and only the frame it is pushed from does.
LEMMA EnterInv ==
    ASSUME IInv, NEW n \in Nodes, n \notin visited, Enter(n),
           path # <<>> => n \in Successors(Top),
           NEW t \in [Nodes -> SUBSET Nodes],
           todo' = [t EXCEPT ![n] = Successors(n)],
           \A k \in Nodes : /\ t[k] \subseteq todo[k]
                            /\ todo[k] \subseteq t[k] \cup {n}
                            /\ (path = <<>> \/ k # Top) => t[k] = todo[k]
    PROVE  IInv'
  <1> USE DEF IInv
  <1>1. /\ path' = Append(path, n) /\ path' \in Seq(Nodes) /\ Len(path') = Len(path) + 1
        /\ \A i \in 1..Len(path) : path'[i] = path[i]
        /\ path'[Len(path) + 1] = n
        /\ Len(path) \in Nat
    BY Pushed DEF Enter, TypeOK
  <1>2. /\ visited' = visited \cup {n} /\ recStack' = recStack \cup {n}
        /\ edges' = edges /\ cycles' = cycles
    BY DEF Enter
  <1>3. \A k \in Nodes : Successors(k)' = Successors(k) /\ Successors(k) \subseteq Nodes
    BY <1>2 DEF Successors
  <1>4. \A i \in 1..Len(path) : path[i] \in visited /\ path[i] \in Nodes
    BY DEF PathInv, OnPath, TypeOK
  <1>5. todo' \in [Nodes -> SUBSET Nodes] /\ todo'[n] = Successors(n)
        /\ \A k \in Nodes \ {n} : todo'[k] = t[k]
    BY <1>3
  <1>6. TypeOK'
    BY <1>1, <1>2, <1>5 DEF TypeOK
  <1>7. PathInv'
    <2>1. \A i, j \in 1..Len(path') : path'[i] = path'[j] => i = j
      BY <1>1, <1>4 DEF PathInv
    <2>2. \A i \in 1..(Len(path') - 1) : <<path'[i], path'[i + 1]>> \in edges'
      <3> SUFFICES ASSUME NEW i \in 1..Len(path) PROVE <<path'[i], path'[i + 1]>> \in edges
        BY <1>1, <1>2
      <3>1. CASE i < Len(path)
        BY <3>1, <1>1 DEF PathInv
      <3>2. CASE i = Len(path)
        <4>1. path # <<>> /\ path[i] = Top /\ Top \in Nodes
          BY <3>2, PathTop DEF Top
        <4> QED
          BY <4>1, <1>1, <3>2 DEF Successors
      <3>3. i < Len(path) \/ i = Len(path)
        BY <1>1
      <3> QED
        BY <3>1, <3>2, <3>3
    <2>3. recStack' = OnPath'
      BY <1>1, <1>2 DEF PathInv, OnPath
    <2>4. recStack' \subseteq visited'
      BY <1>2 DEF PathInv
    <2>5. \A k \in Nodes : todo'[k] \subseteq Successors(k)'
      BY <1>3, <1>5 DEF PathInv
    <2> QED
      BY <2>1, <2>2, <2>3, <2>4, <2>5 DEF PathInv
  <1>8. Finished' = Finished
    BY <1>2 DEF Finished
  <1>9. FrontInv'
    <2> SUFFICES ASSUME NEW K \in SUBSET Nodes, Front(K), \A c \in cycles' : c[1] \notin K
                 PROVE  Front(K)'
      BY <1>2, FrontKept
    <2>1. ASSUME NEW i \in 1..Len(path'), path'[i] \in K,
                 NEW m \in (Successors(path'[i]) \cap K) \ todo'[path'[i]]
          PROVE  m \in Finished' \/ (i < Len(path') /\ m = path'[i + 1])
      <3>1. CASE i = Len(path) + 1
        BY <2>1, <3>1, <1>1, <1>3, <1>5
      <3>2. CASE i \in 1..Len(path)
        <4>1. path'[i] = path[i] /\ path[i] \in Nodes /\ path[i] # n
          BY <3>2, <1>1, <1>4
        <4>2. path[i] \in K /\ m \in (Successors(path[i]) \cap K) \ t[path[i]]
          BY <2>1, <4>1, <1>3, <1>5
        <4>3. CASE m \notin todo[path[i]]
          <5>1. m \in Finished \/ (i < Len(path) /\ m = path[i + 1])
            BY <4>2, <4>3, <3>2 DEF Front
          <5> QED
            BY <5>1, <1>1, <1>8, <3>2
        <4>4. CASE m \in todo[path[i]]
          <5>1. path # <<>> /\ path[i] = Top /\ m = n
            BY <4>1, <4>2, <4>4, <3>2
          <5>2. i = Len(path)
            BY <5>1, <3>2, PathTop DEF PathInv
          <5> QED
            BY <5>1, <5>2, <1>1
        <4> QED
          BY <4>3, <4>4
      <3> QED
        BY <3>1, <3>2, <1>1
    <2>2. /\ \A k \in Finished' \cap K : Successors(k) \cap K \subseteq Finished'
          /\ \A S \in SUBSET (Finished' \cap K) : ~Knot(S)
      BY <1>8 DEF Front
    <2> QED
      BY <2>1, <2>2, <1>2, FrontIntro
  <1>10. OnlyCycles'
    BY <1>2 DEF OnlyCycles, IsCycle
  <1> QED
    BY <1>6, <1>7, <1>9, <1>10

LEMMA StartInv == ASSUME IInv, NEW n \in Nodes, Start(n) PROVE IInv'
  <1>1. \A k \in Nodes : todo[k] \subseteq todo[k] \cup {n}
    OBVIOUS
  <1>2. todo \in [Nodes -> SUBSET Nodes]
    BY DEF IInv, TypeOK
  <1> QED
    BY <1>1, <1>2, EnterInv DEF Start

\* Taking a neighbour from the top frame.
LEMMA Dropped ==
    ASSUME IInv, NEW m \in Nodes, Ahead(m)
    PROVE  /\ Drop(m) \in [Nodes -> SUBSET Nodes]
           /\ Drop(m)[Top] = todo[Top] \ {m}
           /\ \A k \in Nodes \ {Top} : Drop(m)[k] = todo[k]
           /\ m \in Successors(Top)
           /\ path # <<>> /\ Top \in Nodes
  <1>1. path # <<>> /\ Top \in Nodes
    BY PathTop DEF IInv, Ahead
  <1> QED
    BY <1>1 DEF IInv, Ahead, Drop, TypeOK, PathInv

LEMMA DescendInv == ASSUME IInv, NEW m \in Nodes, Descend(m) PROVE IInv'
  <1>1. Ahead(m) /\ m \notin visited /\ Enter(m)
        /\ todo' = [Drop(m) EXCEPT ![m] = Successors(m)]
    BY DEF Descend
  <1>2. /\ Drop(m) \in [Nodes -> SUBSET Nodes]
        /\ Drop(m)[Top] = todo[Top] \ {m}
        /\ \A k \in Nodes \ {Top} : Drop(m)[k] = todo[k]
        /\ m \in Successors(Top)
        /\ path # <<>> /\ Top \in Nodes
    BY <1>1, Dropped
  <1>3. \A k \in Nodes : /\ Drop(m)[k] \subseteq todo[k]
                         /\ todo[k] \subseteq Drop(m)[k] \cup {m}
                         /\ (path = <<>> \/ k # Top) => Drop(m)[k] = todo[k]
    BY <1>2
  <1> QED
    BY <1>1, <1>2, <1>3, EnterInv

\* A neighbour that is visited already: only todo and cycles change.
LEMMA RangeInv ==
    ASSUME IInv, NEW m \in Nodes, Ahead(m), todo' = Drop(m),
           UNCHANGED <<edges, visited, recStack, path>>
    PROVE  /\ PathInv'
           /\ todo' \in [Nodes -> SUBSET Nodes]
           /\ \A k \in Nodes : Successors(k)' = Successors(k)
  <1>1. \A k \in Nodes : Successors(k)' = Successors(k)
    BY DEF Successors
  <1>2. \A k \in Nodes : todo'[k] \subseteq todo[k]
    BY Dropped
  <1>3. todo' \in [Nodes -> SUBSET Nodes]
    BY Dropped
  <1>4. PathInv'
    BY <1>1, <1>2 DEF IInv, PathInv, OnPath
  <1> QED
    BY <1>1, <1>3, <1>4

\* All a frame has ranged over since is m.
LEMMA Ranged ==
    ASSUME IInv, NEW m \in Nodes, Ahead(m), todo' = Drop(m),
           NEW i \in 1..Len(path), NEW k, k \notin todo'[path[i]]
    PROVE  k \notin todo[path[i]] \/ (k = m /\ path[i] = Top)
  <1>1. path[i] \in Nodes
    BY DEF IInv, TypeOK
  <1> QED
    BY <1>1, Dropped

LEMMA SkipInv == ASSUME IInv, NEW m \in Nodes, Skip(m) PROVE IInv'
  <1>1. /\ Ahead(m) /\ m \in Finished /\ todo' = Drop(m)
        /\ UNCHANGED <<edges, visited, recStack, path, cycles>>
    BY DEF Skip, Finished
  <1>2. /\ PathInv'
        /\ todo' \in [Nodes -> SUBSET Nodes]
        /\ \A k \in Nodes : Successors(k)' = Successors(k)
    BY <1>1, RangeInv
  <1>3. TypeOK'
    BY <1>1, <1>2 DEF IInv, TypeOK
  <1>4. OnlyCycles'
    BY <1>1 DEF IInv, OnlyCycles, IsCycle
  <1>5. FrontInv'
    <2>1. Finished' = Finished
      BY <1>1 DEF Finished
    <2> SUFFICES ASSUME NEW K \in SUBSET Nodes, Front(K)
                 PROVE  Front(K)'
      BY <1>1, FrontKept DEF IInv
    <2>2. ASSUME NEW i \in 1..Len(path), path[i] \in K,
                 NEW k \in (Successors(path[i]) \cap K) \ todo'[path[i]]
          PROVE  k \in Finished \/ (i < Len(path) /\ k = path[i + 1])
      BY <1>1, <2>2, Ranged DEF Front
    <2> QED
      BY <1>1, <2>1, <2>2, FrontIntro DEF Front
  <1> QED
    BY <1>2, <1>3, <1>4, <1>5 DEF IInv

\* The piece of the path from m to its end is a cycle when the last node of
\* the path waits for m.
LEMMA CycleFound ==
    ASSUME IInv, NEW m \in Nodes, Ahead(m), m \in recStack
    PROVE  CycleTo(m) \in Seq(Nodes) /\ IsCycle(CycleTo(m)) /\ CycleTo(m)[1] = Top
  <1> DEFINE e == EntryIndex(m)
             k == Len(path) + 1 - e
  <1>1. path \in Seq(Nodes) /\ Len(path) \in Nat \ {0} /\ path[Len(path)] = Top
    BY PathTop DEF IInv, TypeOK, Ahead
  <1>2. e \in 1..Len(path) /\ path[e] = m
    BY DEF IInv, PathInv, OnPath, EntryIndex
  <1>3. <<Top, m>> \in edges /\ Top # m
    <2>1. <<Top, m>> \in edges
      BY Dropped DEF Successors
    <2> QED
      BY <2>1 DEF IInv, TypeOK, Arcs
  <1>4. k \in Nat /\ k > 1
    BY <1>1, <1>2, <1>3
  <1>5. CycleTo(m) = [j \in 1..k |-> path[Len(path) + 1 - j]]
    BY DEF CycleTo
  <1> HIDE DEF e, k
  <1>6. \A j \in 1..k : Len(path) + 1 - j \in e..Len(path)
    BY <1>1, <1>2 DEF k
  <1>7. CycleTo(m) \in Seq(Nodes) /\ Len(CycleTo(m)) = k
    <2>1. \A j \in 1..k : path[Len(path) + 1 - j] \in Nodes
      BY <1>1, <1>2, <1>6
    <2>2. CycleTo(m) \in [1..k -> Nodes]
      BY <2>1, <1>5
    <2> QED
      BY <2>2, <1>4
  <1>8. \A j \in 1..k : CycleTo(m)[j] = path[Len(path) + 1 - j]
    BY <1>5
  <1>9. \A i, j \in 1..k : CycleTo(m)[i] = CycleTo(m)[j] => i = j
    <2> SUFFICES ASSUME NEW i \in 1..k, NEW j \in 1..k, CycleTo(m)[i] = CycleTo(m)[j]
                 PROVE  i = j
      OBVIOUS
    <2>1. /\ Len(path) + 1 - i \in 1..Len(path) /\ Len(path) + 1 - j \in 1..Len(path)
          /\ path[Len(path) + 1 - i] = path[Len(path) + 1 - j]
      BY <1>1, <1>2, <1>6, <1>8
    <2>2. Len(path) + 1 - i = Len(path) + 1 - j
      BY <2>1 DEF IInv, PathInv
    <2> QED
      BY <2>2, <1>1, <1>4
  <1>10. \A i \in 1..(k - 1) : <<CycleTo(m)[i + 1], CycleTo(m)[i]>> \in edges
    <2> SUFFICES ASSUME NEW i \in 1..(k - 1)
                 PROVE  <<CycleTo(m)[i + 1], CycleTo(m)[i]>> \in edges
      OBVIOUS
    <2> DEFINE h == Len(path) - i
    <2>1. i \in 1..k /\ i + 1 \in 1..k /\ h \in 1..(Len(path) - 1)
          /\ h + 1 = Len(path) + 1 - i /\ h = Len(path) + 1 - (i + 1)
      BY <1>1, <1>2, <1>4 DEF k
    <2>2. <<path[h], path[h + 1]>> \in edges
      BY <2>1 DEF IInv, PathInv
    <2> QED
      BY <2>1, <2>2, <1>8
  <1>11. CycleTo(m)[1] = Top /\ CycleTo(m)[k] = m
    <2>1. Len(path) + 1 - 1 = Len(path) /\ Len(path) + 1 - k = e /\ 1 \in 1..k /\ k \in 1..k
      BY <1>1, <1>2, <1>4 DEF k
    <2> QED
      BY <2>1, <1>1, <1>2, <1>8
  <1> QED
    BY <1>3, <1>4, <1>7, <1>9, <1>10, <1>11 DEF IsCycle

LEMMA ReportInv == ASSUME IInv, NEW m \in Nodes, Report(m) PROVE IInv'
  <1>1. /\ Ahead(m) /\ m \in recStack /\ todo' = Drop(m)
        /\ cycles' = cycles \cup {CycleTo(m)}
        /\ UNCHANGED <<edges, visited, recStack, path>>
    BY DEF Report
  <1>2. PathInv' /\ todo' \in [Nodes -> SUBSET Nodes]
    BY <1>1, RangeInv
  <1>3. CycleTo(m) \in Seq(Nodes) /\ IsCycle(CycleTo(m))
    BY <1>1, CycleFound
  <1>4. TypeOK'
    BY <1>1, <1>2, <1>3 DEF IInv, TypeOK
  <1>5. OnlyCycles'
    BY <1>1, <1>3 DEF IInv, OnlyCycles, IsCycle
  <1>6. FrontInv'
    <2>1. Finished' = Finished
      BY <1>1 DEF Finished
    <2> SUFFICES ASSUME NEW K \in SUBSET Nodes, Front(K), \A c \in cycles' : c[1] \notin K
                 PROVE  Front(K)'
      BY <1>1, FrontKept DEF IInv
    <2>2. Top \notin K
      BY <1>1, CycleFound
    <2>3. ASSUME NEW i \in 1..Len(path), path[i] \in K,
                 NEW k \in (Successors(path[i]) \cap K) \ todo'[path[i]]
          PROVE  k \in Finished \/ (i < Len(path) /\ k = path[i + 1])
      BY <1>1, <2>2, <2>3, Ranged DEF Front
    <2> QED
      BY <1>1, <2>1, <2>3, FrontIntro DEF Front
  <1> QED
    BY <1>2, <1>4, <1>5, <1>6 DEF IInv

LEMMA ReturnInv == ASSUME IInv, Return PROVE IInv'
  <1>1. /\ path # <<>> /\ todo[Top] = {}
        /\ path' = SubSeq(path, 1, Len(path) - 1)
        /\ recStack' = recStack \ {Top}
        /\ UNCHANGED <<edges, visited, todo, cycles>>
    BY DEF Return
  <1>2. /\ path' \in Seq(Nodes) /\ Len(path') = Len(path) - 1
        /\ \A i \in 1..Len(path') : path'[i] = path[i]
        /\ Len(path) \in Nat \ {0} /\ path[Len(path)] = Top /\ Top \in Nodes
    BY <1>1, Popped, PathTop DEF IInv
  <1>4. \A i \in 1..Len(path') : path[i] # Top /\ path[i] \in Nodes
    BY <1>2 DEF IInv, PathInv, TypeOK
  <1>5. TypeOK'
    BY <1>1, <1>2 DEF IInv, TypeOK
  <1>6. PathInv'
    <2>1. recStack' = OnPath'
      <3>1. \A i \in 1..Len(path) : path[i] = Top \/ i \in 1..Len(path')
        BY <1>2
      <3> QED
        BY <3>1, <1>1, <1>2, <1>4 DEF IInv, PathInv, OnPath
    <2>2. \A i, j \in 1..Len(path') : path'[i] = path'[j] => i = j
      BY <1>2 DEF IInv, PathInv
    <2>3. \A i \in 1..(Len(path') - 1) : <<path'[i], path'[i + 1]>> \in edges'
      BY <1>1, <1>2 DEF IInv, PathInv
    <2>4. recStack' \subseteq visited'
      BY <1>1 DEF IInv, PathInv
    <2>5. \A k \in Nodes : todo'[k] \subseteq Successors(k)'
      BY <1>1 DEF IInv, PathInv, Successors
    <2> QED
      BY <2>1, <2>2, <2>3, <2>4, <2>5 DEF PathInv
  <1>7. Finished' = Finished \cup {Top} /\ Top \notin Finished
    <2>1. Top \in recStack /\ Top \in visited
      BY <1>2 DEF IInv, PathInv, OnPath
    <2> QED
      BY <2>1, <1>1 DEF Finished
  <1>8. FrontInv'
    <2> SUFFICES ASSUME NEW K \in SUBSET Nodes, Front(K)
                 PROVE  Front(K)'
      BY <1>1, FrontKept DEF IInv
    <2>1. Top \in K => Successors(Top) \cap K \subseteq Finished
      BY <1>1, <1>2 DEF Front
    <2>2. /\ \A k \in Finished \cap K : Successors(k) \cap K \subseteq Finished
          /\ \A S \in SUBSET (Finished \cap K) : ~Knot(S)
      BY DEF Front
    <2>3. \A k \in Finished' \cap K : Successors(k) \cap K \subseteq Finished'
      BY <2>1, <2>2, <1>7
    <2>4. \A S \in SUBSET (Finished' \cap K) : ~Knot(S)
      <3>1. edges \subseteq Arcs
        BY DEF IInv, TypeOK
      <3>2. CASE Top \in K
        <4>1. Finished' \cap K = (Finished \cap K) \cup {Top}
          BY <1>7, <3>2
        <4> QED
          BY <3>1, <3>2, <4>1, <2>2, <1>7, KnotGrows
      <3>3. CASE Top \notin K
        BY <3>3, <1>7, <2>2
      <3> QED
        BY <3>2, <3>3
    <2>5. ASSUME NEW i \in 1..Len(path'), path'[i] \in K,
                 NEW m \in (Successors(path'[i]) \cap K) \ todo'[path'[i]]
          PROVE  m \in Finished' \/ (i < Len(path') /\ m = path'[i + 1])
      <3>1. path'[i] = path[i] /\ path[i] \in Nodes /\ i \in 1..Len(path) /\ i < Len(path)
        BY <1>2, <1>4
      <3>2. m \in Finished \/ m = path[i + 1]
        BY <2>5, <3>1, <1>1 DEF Front
      <3>3. CASE i + 1 = Len(path)
        BY <3>2, <3>3, <1>2, <1>7
      <3>4. CASE i + 1 < Len(path)
        BY <3>1, <3>2, <3>4, <1>2, <1>7
      <3> QED
        BY <3>1, <3>3, <3>4, <1>2
    <2> QED
      BY <1>1, <2>3, <2>4, <2>5, FrontIntro
  <1>9. OnlyCycles'
    BY <1>1 DEF IInv, OnlyCycles, IsCycle
  <1> QED
    BY <1>5, <1>6, <1>8, <1>9 DEF IInv

LEMMA StutterInv == ASSUME IInv, UNCHANGED vars PROVE IInv'
  <1>1. UNCHANGED <<edges, visited, recStack, path, todo, cycles>>
    BY DEF vars
  <1>2. TypeOK'
    BY <1>1 DEF IInv, TypeOK
  <1>3. PathInv'
    BY <1>1 DEF IInv, PathInv, OnPath, Successors
  <1>4. Finished' = Finished
    BY <1>1 DEF Finished
  <1>5. FrontInv'
    BY <1>1, <1>4, FrontKept, FrontIntro DEF IInv, Front
  <1>6. OnlyCycles'
    BY <1>1 DEF IInv, OnlyCycles, IsCycle
  <1> QED
    BY <1>2, <1>3, <1>5, <1>6 DEF IInv

THEOREM Inductive == Spec => []IInv
  <1>1. Init => IInv
    BY InitInv
  <1>2. IInv /\ [Next]_vars => IInv'
    BY StartInv, DescendInv, ReportInv, SkipInv, ReturnInv, StutterInv DEF Next
  <1> QED
    BY <1>1, <1>2, PTL DEF Spec

\* Whatever DetectCycles returns is a cycle of the wait-for graph.
THEOREM Soundness == Spec => []OnlyCycles
  <1>1. IInv => OnlyCycles
    BY DEF IInv
  <1> QED
    BY <1>1, Inductive, PTL

\* A set in which everyone waits for a member of it has had a cycle reported
\* from one of its nodes.
LEMMA KnotReported ==
    ASSUME IInv, Done, NEW K \in SUBSET Nodes, Knot(K)
    PROVE  \E c \in cycles : c[1] \in K
  <1>1. Finished = Nodes
    BY DEF IInv, PathInv, OnPath, Done, Finished
  <1> QED
    BY <1>1 DEF IInv, FrontInv, Front

\* When DetectCycles returns nothing the wait-for graph has no cycle.
THEOREM Completeness == Spec => []NoCycleMissed
  <1>1. IInv => NoCycleMissed
    BY KnotReported DEF NoCycleMissed
  <1> QED
    BY <1>1, Inductive, PTL

----------------------------------------------------------------------------
(* Reachability, the least fixed point of following the edges. *)

LEMMA ReachesClosed ==
    ASSUME TypeOK, NEW n \in Nodes
    PROVE  Reaches(n) \subseteq Nodes /\ Successors(n) \subseteq Reaches(n) /\ Closed(Reaches(n))
  <1>1. \A k \in Nodes : Successors(k) \subseteq Nodes
    BY DEF Successors
  <1> QED
    BY <1>1 DEF Reaches, Closed

\* What m reaches it reaches through one of its successors.
LEMMA ReachesByStep ==
    ASSUME TypeOK, NEW m \in Nodes, NEW n \in Reaches(m)
    PROVE  \E k \in Successors(m) : k = n \/ n \in Reaches(k)
  <1> DEFINE S == {x \in Nodes : \E k \in Successors(m) : k = x \/ x \in Reaches(k)}
  <1>1. \A k \in Nodes : Successors(k) \subseteq Nodes
    BY DEF Successors
  <1>2. Successors(m) \subseteq S
    BY <1>1
  <1>3. Closed(S)
    <2> SUFFICES ASSUME NEW x \in S, NEW y \in Successors(x)
                 PROVE  y \in S
      BY DEF Closed
    <2>1. PICK k \in Successors(m) : k = x \/ x \in Reaches(k)
      OBVIOUS
    <2>2. k \in Nodes /\ y \in Nodes
      BY <1>1
    <2>3. y \in Reaches(k)
      BY <2>1, <2>2, ReachesClosed DEF Closed
    <2> QED
      BY <2>2, <2>3
  <1>4. n \in S
    <2>1. S \in SUBSET Nodes
      OBVIOUS
    <2> HIDE DEF S
    <2> QED
      BY <1>2, <1>3, <2>1 DEF Reaches
  <1> QED
    BY <1>4

\* The component of a node on a cycle: those it reaches and is reached from.
LEMMA ComponentIsKnot ==
    ASSUME TypeOK, NEW n \in Nodes, n \in Reaches(n)
    PROVE  Knot({m \in Reaches(n) : n \in Reaches(m)})
  <1> DEFINE K == {m \in Reaches(n) : n \in Reaches(m)}
  <1>1. \A m \in K : \E k \in K : <<m, k>> \in edges
    <2> SUFFICES ASSUME NEW m \in K PROVE \E k \in K : <<m, k>> \in edges
      OBVIOUS
    <2>1. m \in Nodes
      BY ReachesClosed
    <2>2. PICK k \in Successors(m) : k = n \/ n \in Reaches(k)
      BY <2>1, ReachesByStep
    <2>3. k \in Reaches(n)
      BY <2>2, ReachesClosed DEF Closed
    <2>4. n \in Reaches(k)
      BY <2>2
    <2> QED
      BY <2>2, <2>3, <2>4 DEF Successors
  <1> QED
    BY <1>1 DEF Knot

\* One pass of DetectCycles meets every deadlock: each component with a cycle
\* has a cycle reported from one of its transactions.
THEOREM AllReported == Spec => []EveryDeadlockReported
  <1>1. IInv => EveryDeadlockReported
    <2> SUFFICES ASSUME IInv, Done, NEW n \in Nodes, n \in Reaches(n)
                 PROVE  \E c \in cycles : c[1] \in Reaches(n) /\ n \in Reaches(c[1])
      BY DEF EveryDeadlockReported
    <2>1. {m \in Reaches(n) : n \in Reaches(m)} \in SUBSET Nodes
      BY ReachesClosed DEF IInv
    <2>2. Knot({m \in Reaches(n) : n \in Reaches(m)})
      BY ComponentIsKnot DEF IInv
    <2> QED
      BY <2>1, <2>2, KnotReported
  <1> QED
    BY <1>1, Inductive, PTL

----------------------------------------------------------------------------
(* The length of the search. *)

\* A step that takes nothing up again, and ranges over an edge, begins a call
\* or ends one, leaves less to do.
LEMMA LessWork ==
    ASSUME IInv, edges' = edges, ToRange' \subseteq ToRange,
           \/ /\ visited' = visited /\ recStack' = recStack
              /\ ToRange' # ToRange
           \/ \E n \in Nodes \ visited :
                 visited' = visited \cup {n} /\ recStack' = recStack \cup {n}
           \/ \E n \in recStack : visited' = visited /\ recStack' = recStack \ {n}
    PROVE  WorkLeft' \in Nat /\ WorkLeft' < WorkLeft
  <1> DEFINE V == Nodes \ visited
  <1>1. IsFiniteSet(ToRange) /\ IsFiniteSet(V) /\ IsFiniteSet(recStack)
    <2>1. IsFiniteSet(Nodes \X Nodes)
      BY NodesAssumption, FS_Product
    <2>2. ToRange \in SUBSET (Nodes \X Nodes) /\ V \in SUBSET Nodes /\ recStack \in SUBSET Nodes
      BY DEF IInv, TypeOK, Arcs, ToRange
    <2> HIDE DEF V
    <2> QED
      BY <2>1, <2>2, NodesAssumption, FS_Subset
  <1>2. /\ IsFiniteSet(ToRange') /\ Cardinality(ToRange') <= Cardinality(ToRange)
        /\ Cardinality(ToRange') = Cardinality(ToRange) => ToRange' = ToRange
    BY <1>1, FS_Subset
  <1>3. /\ Cardinality(ToRange) \in Nat /\ Cardinality(ToRange') \in Nat
        /\ Cardinality(V) \in Nat /\ Cardinality(recStack) \in Nat
    BY <1>1, <1>2, FS_CardinalityType
  <1>4. /\ WorkLeft = Cardinality(ToRange) + 2 * Cardinality(V) + Cardinality(recStack)
        /\ WorkLeft' = Cardinality(ToRange') + 2 * Cardinality(V') + Cardinality(recStack')
    BY DEF WorkLeft
  <1>5. CASE visited' = visited /\ recStack' = recStack /\ ToRange' # ToRange
    <2>1. Cardinality(V') = Cardinality(V) /\ Cardinality(recStack') = Cardinality(recStack)
      BY <1>5
    <2> HIDE DEF V
    <2> QED
      BY <1>2, <1>3, <1>4, <1>5, <2>1
  <1>6. ASSUME NEW n \in Nodes \ visited,
               visited' = visited \cup {n}, recStack' = recStack \cup {n}
        PROVE  WorkLeft' \in Nat /\ WorkLeft' < WorkLeft
    <2>1. V' = V \ {n} /\ n \in V
      BY <1>6
    <2>2. n \notin recStack
      BY DEF IInv, PathInv
    <2> HIDE DEF V
    <2>3. Cardinality(V') = Cardinality(V) - 1
      BY <1>1, <2>1, FS_RemoveElement
    <2>4. Cardinality(recStack') = Cardinality(recStack) + 1
      BY <1>1, <1>6, <2>2, FS_AddElement
    <2>5. Cardinality(V) # 0
      BY <1>1, <2>1, FS_EmptySet
    <2> QED
      BY <1>2, <1>3, <1>4, <2>3, <2>4, <2>5
  <1>7. ASSUME NEW n \in recStack, visited' = visited, recStack' = recStack \ {n}
        PROVE  WorkLeft' \in Nat /\ WorkLeft' < WorkLeft
    <2>1. V' = V
      BY <1>7
    <2> HIDE DEF V
    <2>2. Cardinality(recStack') = Cardinality(recStack) - 1
      BY <1>1, <1>7, FS_RemoveElement
    <2>3. Cardinality(recStack) # 0
      BY <1>1, FS_EmptySet
    <2> QED
      BY <1>2, <1>3, <1>4, <2>1, <2>2, <2>3
  <1> QED
    BY <1>5, <1>6, <1>7

\* Ranging over a neighbour uses up its edge.
LEMMA EdgeUsed ==
    ASSUME IInv, NEW m \in Nodes, Ahead(m), todo' = Drop(m),
           UNCHANGED <<edges, visited>>
    PROVE  ToRange' \subseteq ToRange /\ ToRange' # ToRange
  <1>1. /\ Top \in Nodes /\ Top \in visited /\ m \in todo[Top] /\ m \in Successors(Top)
        /\ m \notin todo'[Top]
        /\ \A k \in Nodes : todo'[k] \subseteq todo[k]
    BY Dropped, PathTop DEF IInv, PathInv, OnPath, Ahead
  <1>2. <<Top, m>> \in ToRange /\ <<Top, m>> \notin ToRange'
    BY <1>1 DEF ToRange, Successors
  <1>3. \A e \in edges : e[1] \in Nodes
    BY DEF IInv, TypeOK, Arcs
  <1> QED
    BY <1>1, <1>2, <1>3 DEF ToRange

\* Beginning the search of a node takes up its own edges only.
LEMMA EdgesTaken ==
    ASSUME IInv, NEW n \in Nodes \ visited, visited' = visited \cup {n}, edges' = edges,
           \A k \in Nodes \ {n} : todo'[k] \subseteq todo[k]
    PROVE  ToRange' \subseteq ToRange
  <1>1. \A e \in edges : e[1] \in Nodes
    BY DEF IInv, TypeOK, Arcs
  <1> QED
    BY <1>1 DEF ToRange

\* Every step of DetectCycles uses up work of which there is, when it begins,
\* twice the number of transactions plus the number of edges.
THEOREM WorkShrinks == Spec => LinearTime
  <1>1. IInv /\ Next => WorkLeft' \in Nat /\ WorkLeft' < WorkLeft
    <2> SUFFICES ASSUME IInv, Next PROVE WorkLeft' \in Nat /\ WorkLeft' < WorkLeft
      OBVIOUS
    <2>1. ASSUME NEW n \in Nodes, Start(n) PROVE WorkLeft' \in Nat /\ WorkLeft' < WorkLeft
      <3>1. ToRange' \subseteq ToRange
        BY <2>1, EdgesTaken DEF Start, Enter, IInv, TypeOK
      <3> QED
        BY <2>1, <3>1, LessWork DEF Start, Enter
    <2>2. ASSUME NEW n \in Nodes, Descend(n) PROVE WorkLeft' \in Nat /\ WorkLeft' < WorkLeft
      <3>1. \A k \in Nodes \ {n} : todo'[k] \subseteq todo[k]
        BY <2>2 DEF Descend, Drop, IInv, TypeOK
      <3>2. ToRange' \subseteq ToRange
        BY <2>2, <3>1, EdgesTaken DEF Descend, Enter
      <3> QED
        BY <2>2, <3>2, LessWork DEF Descend, Enter
    <2>3. ASSUME NEW n \in Nodes, Report(n) \/ Skip(n)
          PROVE  WorkLeft' \in Nat /\ WorkLeft' < WorkLeft
      <3>1. Ahead(n) /\ todo' = Drop(n) /\ UNCHANGED <<edges, visited, recStack>>
        BY <2>3 DEF Report, Skip
      <3> QED
        BY <3>1, EdgeUsed, LessWork
    <2>4. CASE Return
      <3>1. Top \in recStack
        BY <2>4, PathTop DEF Return, IInv, PathInv, OnPath
      <3>2. /\ recStack' = recStack \ {Top} /\ visited' = visited
            /\ edges' = edges /\ todo' = todo
        BY <2>4 DEF Return
      <3>3. ToRange' \subseteq ToRange
        BY <3>2 DEF ToRange
      <3> QED
        BY <3>1, <3>2, <3>3, LessWork
    <2> QED
      BY <2>1, <2>2, <2>3, <2>4 DEF Next
  <1>2. IInv /\ [Next]_vars => [WorkLeft' \in Nat /\ WorkLeft' < WorkLeft]_vars
    BY <1>1
  <1> QED
    BY <1>2, Inductive, PTL DEF LinearTime, Spec

----------------------------------------------------------------------------
(* What the detector makes of the result. *)

\* A set has as many elements as a list that names each of them once.
LEMMA Counted ==
    ASSUME NEW n \in Nat, NEW C, NEW f \in [1..n -> C],
           \A i, j \in 1..n : f[i] = f[j] => i = j,
           \A x \in C : \E i \in 1..n : f[i] = x
    PROVE  IsFiniteSet(C) /\ Cardinality(C) = n
  <1>1. f \in Bijection(1..n, C)
    BY Fun_IsBij
  <1>2. ExistsBijection(1..n, C)
    BY <1>1 DEF ExistsBijection
  <1> QED
    BY <1>2, FS_NatBijection, FS_CountingElements

\* Read backwards, a reported cycle leads around its transactions.
LEMMA ReportedIsCycle ==
    ASSUME NEW c \in Seq(Nodes), IsCycle(c)
    PROVE  Members(c) \in CyclesOf(edges, Nodes)
  <1> DEFINE n == Len(c)
             C == Members(c)
             s == [i \in 1..n |-> c[n + 1 - i]]
             succ(i) == (i % n) + 1
  <1>1. n \in Nat /\ n > 1 /\ \A i \in 1..n : c[i] \in Nodes
    BY DEF IsCycle
  <1>2. Cardinality(C) = n
    <2>1. c \in [1..n -> C]
      BY DEF Members
    <2>2. \A i, j \in 1..n : c[i] = c[j] => i = j
      BY DEF IsCycle
    <2>3. \A x \in C : \E i \in 1..n : c[i] = x
      BY DEF Members
    <2> HIDE DEF n, C
    <2> QED
      BY <1>1, <2>1, <2>2, <2>3, Counted
  <1>3. C \in (SUBSET Nodes) \ {{}}
    BY <1>1 DEF Members
  <1>4. \A i \in 1..n : n + 1 - i \in 1..n /\ s[i] = c[n + 1 - i]
    BY <1>1
  <1>5. s \in [1..n -> C]
    BY <1>4 DEF Members
  <1>6. C = {s[i] : i \in 1..n}
    <2>1. \A k \in 1..n : n + 1 - k \in 1..n /\ s[n + 1 - k] = c[k]
      BY <1>1, <1>4
    <2>2. \A x \in C : \E i \in 1..n : x = s[i]
      BY <2>1 DEF Members
    <2> QED
      BY <1>5, <2>2
  <1>7. \A i \in 1..n : <<s[i], s[succ(i)]>> \in edges
    <2> SUFFICES ASSUME NEW i \in 1..n PROVE <<s[i], s[succ(i)]>> \in edges
      OBVIOUS
    <2>1. CASE i = n
      <3>1. succ(i) = 1
        BY <1>1, <2>1
      <3>2. s[i] = c[1] /\ s[1] = c[n]
        BY <1>1, <1>4, <2>1
      <3> QED
        BY <3>1, <3>2 DEF IsCycle
    <2>2. CASE i # n
      <3>1. succ(i) = i + 1 /\ i + 1 \in 1..n
        BY <1>1, <2>2
      <3>2. n - i \in 1..(n - 1) /\ s[i] = c[(n - i) + 1] /\ s[i + 1] = c[n - i]
        BY <1>1, <1>4, <2>2, <3>1
      <3> QED
        BY <3>1, <3>2 DEF IsCycle
    <2> QED
      BY <2>1, <2>2
  <1> HIDE DEF n, C, s
  <1>8. IsCycleOf(edges, C)
    BY <1>2, <1>5, <1>6, <1>7 DEF IsCycleOf
  <1> QED
    BY <1>3, <1>8 DEF CyclesOf, C

\* On a cycle everyone waits for a member of it.
LEMMA CycleIsKnot ==
    ASSUME NEW C \in CyclesOf(edges, Nodes)
    PROVE  Knot(C)
  <1> DEFINE n == Cardinality(C)
  <1>1. C \in SUBSET Nodes /\ C # {}
    BY DEF CyclesOf
  <1>2. PICK s \in [1..n -> C] : /\ C = {s[i] : i \in 1..n}
                                 /\ \A i \in 1..n : <<s[i], s[(i % n) + 1]>> \in edges
    BY DEF CyclesOf, IsCycleOf
  <1>3. n \in Nat
    BY <1>1, NodesAssumption, FS_Subset, FS_CardinalityType
  <1> HIDE DEF n
  <1>4. \A i \in 1..n : (i % n) + 1 \in 1..n
    BY <1>3
  <1>5. \A x \in C : \E y \in C : <<x, y>> \in edges
    <2> SUFFICES ASSUME NEW i \in 1..n PROVE \E y \in C : <<s[i], y>> \in edges
      BY <1>2
    <2> QED
      BY <1>2, <1>4
  <1> QED
    BY <1>1, <1>5 DEF Knot

\* DetectCycles implements the search step of DeadlockDetector: whatever the
\* order of the iteration, its result is one of SearchResults.
THEOREM SearchImplemented == Spec => []AnswersDetector
  <1>1. IInv => AnswersDetector
    <2> DEFINE R == {Members(c) : c \in cycles}
    <2> SUFFICES ASSUME IInv, Done PROVE R \in SearchResults(edges, Nodes)
      BY DEF AnswersDetector
    <2>1. R \subseteq CyclesOf(edges, Nodes)
      BY ReportedIsCycle DEF IInv, TypeOK, OnlyCycles
    <2>2. CyclesOf(edges, Nodes) # {} => R # {}
      <3> SUFFICES ASSUME NEW C \in CyclesOf(edges, Nodes) PROVE R # {}
        OBVIOUS
      <3>1. C \in SUBSET Nodes
        BY DEF CyclesOf
      <3>2. \E c \in cycles : c[1] \in C
        BY <3>1, CycleIsKnot, KnotReported
      <3> QED
        BY <3>2
    <2> HIDE DEF R
    <2> QED
      BY <2>1, <2>2 DEF SearchResults
  <1> QED
    BY <1>1, Inductive, PTL
=============================================================================
