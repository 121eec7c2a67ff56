--------------------------- MODULE EvidenceProofs ---------------------------
(***************************************************************************)
(* What the evidence service guarantees for any calls and types, and any   *)
(* number of ticks and deaths: its chains hold the evidence of returned    *)
(* calls once and in the order of the calls, the map finds it by its ID,   *)
(* and a chain begins once.                                                *)
(***************************************************************************)
EXTENDS EvidenceChain, TLAPS

\* An evidence has begun once its call has read a parent.
Begun == {q \in Calls : pc[q] # "new"}
Kept == {q \in Calls : pc[q] \in {"stored", "done"}}

\* The map holds, under the ID of kept evidence, kept evidence of that ID.
MapInv ==
    \A q \in Kept : /\ evidence[id[q]] \in Kept
                    /\ id[evidence[id[q]]] = id[q]

\* Calls that had returned are, for ever, returned.
PriorInv == \A r \in Calls : \A q \in prior[r] : pc[q] \in {"done", "gone"}

\* BeginsOnce, with a rival that keeps its ID.
BeginInv ==
    \A q, r \in Calls :
        q \in prior[r] /\ Type[q] = Type[r] /\ parent[r] = None
            => \E s \in Begun \ {q} : id[s] = id[q]

IInv == TypeOK /\ Chained /\ MapInv /\ PriorInv /\ BeginInv /\ OrderKept

-----------------------------------------------------------------------------
(* Types *)

LEMMA AppendType ==
    ASSUME NEW S, NEW q \in Seq(S), NEW e \in S
    PROVE  /\ Append(q, e) \in Seq(S) /\ Len(q) \in Nat /\ Len(Append(q, e)) = Len(q) + 1
           /\ Append(q, e)[Len(q) + 1] = e
           /\ Append(q, e) # <<>>
           /\ \A i \in 1 .. Len(q) : Append(q, e)[i] = q[i] /\ q[i] \in S
  OBVIOUS

LEMMA EmptyType == ASSUME NEW S PROVE <<>> \in Seq(S) /\ Len(<<>>) = 0
  OBVIOUS

\* The parts of a sequence that a longer one has.
LEMMA AppendCases ==
    ASSUME NEW S, NEW q \in Seq(S), NEW e \in S, NEW i \in 1 .. Len(Append(q, e))
    PROVE  \/ i \in 1 .. Len(q) /\ Append(q, e)[i] = q[i]
           \/ i = Len(q) + 1 /\ Append(q, e)[i] = e
  BY AppendType

LEMMA InitType == ASSUME Init PROVE TypeOK
  BY EvidenceAssumption, EmptyType DEF Init, TypeOK, NoStore, Places

LEMMA ParentOf ==
    ASSUME TypeOK, NEW r \in Calls, NEW e, LatestChainHash(r, e)
    PROVE  e \in Calls \cup {None} /\ (e = None => SameType(r) = {})
  BY EvidenceAssumption DEF LatestChainHash, SameType

LEMMA TypeStep == ASSUME TypeOK, [Next]_vars PROVE TypeOK'
<1>1. ASSUME NEW r \in Calls, Make(r) PROVE TypeOK'
  <2>1. PICK e \in Calls \cup {None} : parent' = [parent EXCEPT ![r] = e]
    BY <1>1 DEF Make
  <2>2. parent' \in [Calls -> Calls \cup {None}]
    BY <2>1 DEF TypeOK
  <2>3. prior' \in [Calls -> SUBSET Calls]
    BY <1>1 DEF Make, TypeOK
  <2>4. id' \in [Calls -> 0 .. MaxClock] /\ pc' \in [Calls -> Places]
    BY <1>1 DEF Make, Goto, TypeOK, Places
  <2> QED
    BY <1>1, <2>2, <2>3, <2>4 DEF Make, TypeOK, store
<1>2. ASSUME NEW r \in Calls, Store(r) PROVE TypeOK'
  <2>1. pc' \in [Calls -> Places]
    BY <1>2 DEF Store, Goto, TypeOK, Places
  <2>2. evidence' \in [0 .. MaxClock -> Calls \cup {None}]
    BY <1>2 DEF Store, TypeOK
  <2> QED
    BY <1>2, <2>1, <2>2 DEF Store, TypeOK, mine
<1>3. ASSUME NEW r \in Calls, AddToChain(r) PROVE TypeOK'
  <2>1. pc' \in [Calls -> Places]
    BY <1>3 DEF AddToChain, Came, Goto, TypeOK, Places
  <2>2. Type[r] \in Types
    BY EvidenceAssumption
  <2>3. Append(entries[Type[r]], r) \in Seq(Calls)
    BY <2>2, AppendType DEF TypeOK
  <2>4. entries' \in [Types -> Seq(Calls)]
    BY <1>3, <2>2, <2>3 DEF AddToChain, TypeOK
  <2>5. root' \in [Types -> Calls \cup {None, Stamp}]
    BY <1>3 DEF AddToChain, TypeOK
  <2>6. late' \subseteq Calls
    BY <1>3 DEF AddToChain, Came, TypeOK
  <2> QED
    BY <1>3, <2>1, <2>4, <2>5, <2>6 DEF AddToChain, TypeOK, mine
<1>4. ASSUME NEW t \in Types, SealChain(t) PROVE TypeOK'
  BY <1>4 DEF SealChain, TypeOK, mine
<1>5. CASE Tick
  <2>1. clock' \in 0 .. MaxClock
    BY <1>5, EvidenceAssumption DEF Tick, TypeOK
  <2> QED
    BY <1>5, <2>1 DEF Tick, TypeOK, mine, store
<1>6. CASE Die
  <2>1. deaths' \in 0 .. MaxDeaths
    BY <1>6, EvidenceAssumption DEF Die, TypeOK
  <2>2. pc' \in [Calls -> Places]
    BY <1>6 DEF Die, TypeOK, Places
  <2>3. /\ evidence' \in [0 .. MaxClock -> Calls \cup {None}]
        /\ root' \in [Types -> Calls \cup {None, Stamp}]
        /\ entries' \in [Types -> Seq(Calls)]
        /\ sealed' \subseteq Types
    BY <1>6, EmptyType DEF Die, NoStore
  <2> QED
    BY <1>6, <2>1, <2>2, <2>3 DEF Die, TypeOK, mine
<1>7. CASE UNCHANGED vars
  BY <1>7 DEF vars, mine, store, TypeOK
<1> QED
  BY <1>1, <1>2, <1>3, <1>4, <1>5, <1>6, <1>7 DEF Next, GenerateEvidence

-----------------------------------------------------------------------------
(* Chains: what is in them, and in which order. *)

\* AddToChain changes one chain, at its end.
LEMMA Lengthened ==
    ASSUME TypeOK, NEW r \in Calls, AddToChain(r)
    PROVE  /\ \A t \in Types \ {Type[r]} : entries'[t] = entries[t] /\ root'[t] = root[t]
           /\ entries'[Type[r]] = Append(entries[Type[r]], r)
           /\ root'[Type[r]] = r
           /\ Type[r] \in Types /\ entries[Type[r]] \in Seq(Calls)
           /\ pc[r] = "stored" /\ pc'[r] = "done"
           /\ \A q \in Calls \ {r} : pc'[q] = pc[q]
           /\ late \subseteq late' /\ late' \subseteq late \cup {r}
  BY EvidenceAssumption DEF AddToChain, Came, Goto, TypeOK

\* The steps that leave the chains and the returned calls alone.
Quiet == /\ entries' = entries /\ late' = late
         /\ \A q \in Calls : pc'[q] = "done" <=> pc[q] = "done"

LEMMA ChainedQuiet == ASSUME TypeOK, Chained, Quiet PROVE Chained'
<1> \A t \in Types : \A i \in 1 .. Len(entries[t]) : entries[t][i] \in Calls
  BY DEF TypeOK
<1> QED
  BY DEF Chained, Quiet, InChain

LEMMA QuietSteps ==
    ASSUME TypeOK, NEW r \in Calls, Make(r) \/ Store(r) \/ Tick \/ (\E t \in Types : SealChain(t))
                                     \/ UNCHANGED vars
    PROVE  Quiet
  BY DEF Quiet, TypeOK, Make, Store, Tick, SealChain, Goto, vars, store

LEMMA ChainedAdd ==
    ASSUME TypeOK, Chained, NEW r \in Calls, AddToChain(r)
    PROVE  Chained'
<1> DEFINE T == Type[r]
<1> DEFINE c == entries[T]
<1>0. /\ \A t \in Types \ {T} : entries'[t] = entries[t]
      /\ entries'[T] = Append(c, r)
      /\ T \in Types /\ c \in Seq(Calls)
      /\ pc[r] = "stored" /\ pc'[r] = "done"
      /\ \A q \in Calls \ {r} : pc'[q] = pc[q]
      /\ late \subseteq late'
  BY Lengthened
<1>1. \A t \in Types : \A i \in 1 .. Len(entries[t]) :
         /\ entries[t][i] \in Calls
         /\ entries[t][i] # r /\ pc'[entries[t][i]] = "done" /\ Type[entries[t][i]] = t
         /\ \A j \in 1 .. Len(entries[t]) : entries[t][i] = entries[t][j] => i = j
  BY <1>0 DEF Chained, TypeOK
<1>2. ASSUME NEW q \in Calls, pc'[q] = "done", q \notin late' PROVE InChain(q)'
  <2>1. CASE q = r
    <3>1. Len(c) + 1 \in 1 .. Len(Append(c, r)) /\ Append(c, r)[Len(c) + 1] = r
      BY <1>0, AppendType
    <3> QED
      BY <2>1, <3>1, <1>0 DEF InChain
  <2>2. CASE q # r
    <3>1. pc[q] = "done" /\ q \notin late
      BY <1>0, <1>2, <2>2
    <3>2. Type[q] \in Types
      BY EvidenceAssumption
    <3>3. PICK i \in 1 .. Len(entries[Type[q]]) : entries[Type[q]][i] = q
      BY <3>1 DEF Chained, InChain
    <3>4. CASE Type[q] = T
      <4>1. i \in 1 .. Len(Append(c, r)) /\ Append(c, r)[i] = q
        BY <3>3, <3>4, <1>0, AppendType
      <4> QED
        BY <4>1, <3>4, <1>0 DEF InChain
    <3>5. CASE Type[q] # T
      BY <3>2, <3>3, <3>5, <1>0 DEF InChain
    <3> QED
      BY <3>4, <3>5
  <2> QED
    BY <2>1, <2>2
<1>3. ASSUME NEW t \in Types, NEW i \in 1 .. Len(entries'[t])
      PROVE  /\ pc'[entries'[t][i]] = "done" /\ Type[entries'[t][i]] = t
             /\ \A j \in 1 .. Len(entries'[t]) : entries'[t][i] = entries'[t][j] => i = j
  <2>1. CASE t # T
    BY <2>1, <1>0, <1>1, <1>3
  <2>2. CASE t = T
    <3>1. \A k \in 1 .. Len(Append(c, r)) :
             \/ k \in 1 .. Len(c) /\ Append(c, r)[k] = c[k]
             \/ k = Len(c) + 1 /\ Append(c, r)[k] = r
      BY <1>0, AppendCases
    <3> HIDE DEF c
    <3>2. \A k \in 1 .. Len(c) :
             /\ c[k] # r /\ pc'[c[k]] = "done" /\ Type[c[k]] = t
             /\ \A j \in 1 .. Len(c) : c[k] = c[j] => k = j
      BY <1>1, <2>2, <1>0 DEF c
    <3>3. i \in 1 .. Len(Append(c, r)) /\ entries'[t] = Append(c, r)
      BY <1>0, <1>3, <2>2
    <3> QED
      BY <3>1, <3>2, <3>3, <1>0, <2>2
  <2> QED
    BY <2>1, <2>2
<1> QED
  BY <1>2, <1>3 DEF Chained

LEMMA ChainedStep == ASSUME TypeOK, Chained, [Next]_vars PROVE Chained'
<1>1. ASSUME NEW r \in Calls, Make(r) \/ Store(r) PROVE Chained'
  BY <1>1, QuietSteps, ChainedQuiet
<1>2. ASSUME NEW r \in Calls, AddToChain(r) PROVE Chained'
  BY <1>2, ChainedAdd
<1>3. CASE \E t \in Types : SealChain(t)
  <2> Quiet
    BY <1>3 DEF Quiet, SealChain
  <2> QED
    BY ChainedQuiet
<1>4. CASE Tick \/ UNCHANGED vars
  <2> Quiet
    BY <1>4 DEF Quiet, Tick, vars, store
  <2> QED
    BY ChainedQuiet
<1>5. CASE Die
  <2>1. \A q \in Calls : pc'[q] # "done"
    BY <1>5 DEF Die, TypeOK, UnderWay
  <2>2. \A t \in Types : entries'[t] = <<>>
    BY <1>5 DEF Die, NoStore
  <2> QED
    BY <2>1, <2>2, EmptyType DEF Chained
<1> QED
  BY <1>1, <1>2, <1>3, <1>4, <1>5 DEF Next, GenerateEvidence

-----------------------------------------------------------------------------
(* The map, and what had returned. *)

LEMMA MapStep == ASSUME TypeOK, MapInv, [Next]_vars PROVE MapInv'
<1>1. ASSUME NEW r \in Calls, Make(r) PROVE MapInv'
  <2>1. /\ pc[r] = "new" /\ evidence' = evidence
        /\ \A q \in Calls \ {r} : id'[q] = id[q] /\ pc'[q] = pc[q]
        /\ pc'[r] = "made"
    BY <1>1 DEF Make, Goto, store, TypeOK
  <2>2. Kept' = Kept /\ r \notin Kept
    BY <2>1 DEF Kept
  <2> QED
    BY <2>1, <2>2 DEF MapInv, Kept
<1>2. ASSUME NEW r \in Calls, Store(r) PROVE MapInv'
  <2>1. /\ id' = id /\ pc[r] = "made" /\ pc'[r] = "stored"
        /\ \A q \in Calls \ {r} : pc'[q] = pc[q]
        /\ id \in [Calls -> 0 .. MaxClock]
        /\ \A i \in 0 .. MaxClock : evidence'[i] = IF i = id[r] THEN r ELSE evidence[i]
    BY <1>2 DEF Store, Goto, mine, TypeOK
  <2>2. Kept' = Kept \cup {r}
    BY <2>1 DEF Kept
  <2>3. \A q \in Kept' : id[q] \in 0 .. MaxClock
    BY <2>1 DEF Kept
  <2> QED
    BY <2>1, <2>2, <2>3 DEF MapInv
<1>3. ASSUME NEW r \in Calls, AddToChain(r) PROVE MapInv'
  <2>1. Kept' = Kept
    BY <1>3, Lengthened DEF Kept
  <2> QED
    BY <1>3, <2>1 DEF MapInv, AddToChain, mine
<1>4. CASE \E t \in Types : SealChain(t)
  BY <1>4 DEF MapInv, Kept, SealChain, mine
<1>5. CASE Tick \/ UNCHANGED vars
  BY <1>5 DEF MapInv, Kept, Tick, vars, mine, store
<1>6. CASE Die
  <2>1. Kept' = {}
    BY <1>6 DEF Die, TypeOK, Kept, UnderWay
  <2> QED
    BY <2>1 DEF MapInv
<1> QED
  BY <1>1, <1>2, <1>3, <1>4, <1>5, <1>6 DEF Next, GenerateEvidence

LEMMA PriorStep == ASSUME TypeOK, PriorInv, [Next]_vars PROVE PriorInv'
<1> DEFINE Over == {q \in Calls : pc[q] \in {"done", "gone"}}
<1>0. \A r \in Calls : prior[r] \subseteq Calls
  BY DEF TypeOK
<1>1. ASSUME NEW r \in Calls, Make(r) PROVE PriorInv'
  <2>1. /\ pc[r] = "new"
        /\ \A q \in Calls \ {r} : pc'[q] = pc[q] /\ prior'[q] = prior[q]
        /\ prior'[r] = {q \in Calls : pc[q] = "done"}
    BY <1>1 DEF Make, Goto, TypeOK
  <2> QED
    BY <1>0, <2>1 DEF PriorInv
<1>2. ASSUME NEW r \in Calls, Store(r) \/ AddToChain(r) PROVE PriorInv'
  <2>1. /\ prior' = prior /\ pc[r] \in {"made", "stored"}
        /\ \A q \in Calls \ {r} : pc'[q] = pc[q]
    BY <1>2 DEF Store, AddToChain, Came, Goto, mine, TypeOK
  <2> QED
    BY <1>0, <2>1 DEF PriorInv
<1>3. CASE (\E t \in Types : SealChain(t)) \/ Tick \/ UNCHANGED vars
  BY <1>3 DEF PriorInv, SealChain, Tick, vars, mine
<1>4. CASE Die
  <2>1. \A q \in Calls : pc[q] \in {"done", "gone"} => pc'[q] \in {"done", "gone"}
    BY <1>4 DEF Die, UnderWay
  <2> QED
    BY <1>0, <1>4, <2>1 DEF PriorInv, Die, mine
<1> QED
  BY <1>1, <1>2, <1>3, <1>4 DEF Next, GenerateEvidence

\* What a step does to IDs and parents: only Make gives them.
LEMMA BeginStep ==
    ASSUME TypeOK, MapInv, PriorInv, BeginInv, [Next]_vars
    PROVE  BeginInv'
<1>1. ASSUME NEW x \in Calls, Make(x) PROVE BeginInv'
  <2>1. /\ pc[x] = "new" /\ pc'[x] = "made"
        /\ \A q \in Calls \ {x} : /\ pc'[q] = pc[q] /\ prior'[q] = prior[q]
                                  /\ id'[q] = id[q] /\ parent'[q] = parent[q]
        /\ prior'[x] = {q \in Calls : pc[q] = "done"}
    BY <1>1 DEF Make, Goto, TypeOK
  <2>2. \A s \in Begun : s # x /\ s \in Begun' /\ id'[s] = id[s]
    BY <2>1 DEF Begun
  <2>3. ASSUME NEW q \in Calls, NEW r \in Calls,
               (q \in prior[r])', Type[q] = Type[r], parent'[r] = None
        PROVE  \E s \in Begun' \ {q} : id'[s] = id'[q]
    <3>1. CASE r # x
      <4>1. q \in prior[r] /\ parent[r] = None
        BY <2>1, <2>3, <3>1
      <4>2. q # x
        BY <2>1, <4>1 DEF PriorInv
      <4>3. PICK s \in Begun \ {q} : id[s] = id[q]
        BY <2>3, <4>1 DEF BeginInv
      <4> QED
        BY <2>1, <2>2, <4>2, <4>3
    <3>2. CASE r = x
      <4>1. pc[q] = "done" /\ q \in Kept /\ q # x
        BY <2>1, <2>3, <3>2 DEF Kept
      <4>2. PICK e \in Calls \cup {None} : LatestChainHash(x, e) /\ parent' = [parent EXCEPT ![x] = e]
        BY <1>1 DEF Make
      <4>3. e = None
        BY <2>3, <3>2, <4>2 DEF TypeOK
      <4>4. SameType(x) = {}
        BY <4>2, <4>3, ParentOf
      <4>5. id[q] \in 0 .. MaxClock
        BY DEF TypeOK
      <4>6. evidence[id[q]] \in Kept /\ id[evidence[id[q]]] = id[q]
        BY <4>1 DEF MapInv
      <4>7. evidence[id[q]] # q
        BY <2>3, <3>2, <4>4, <4>5 DEF SameType
      <4>8. evidence[id[q]] \in Begun
        BY <4>6 DEF Kept, Begun
      <4> QED
        BY <2>1, <2>2, <4>1, <4>6, <4>7, <4>8
    <3> QED
      BY <3>1, <3>2
  <2> QED
    BY <2>3 DEF BeginInv
<1>2. ASSUME NEW x \in Calls, Store(x) \/ AddToChain(x) PROVE BeginInv'
  <2>1. id' = id /\ parent' = parent /\ prior' = prior
    BY <1>2 DEF Store, AddToChain, mine
  <2>2. Begun' = Begun
    BY <1>2 DEF Store, AddToChain, Came, Goto, TypeOK, Begun
  <2> QED
    BY <2>1, <2>2 DEF BeginInv
<1>3. CASE (\E t \in Types : SealChain(t)) \/ Tick \/ UNCHANGED vars
  BY <1>3 DEF BeginInv, Begun, SealChain, Tick, vars, mine
<1>4. CASE Die
  <2>1. id' = id /\ parent' = parent /\ prior' = prior
    BY <1>4 DEF Die, mine
  <2>2. Begun' = Begun
    BY <1>4 DEF Die, Begun, UnderWay
  <2> QED
    BY <2>1, <2>2 DEF BeginInv
<1> QED
  BY <1>1, <1>2, <1>3, <1>4 DEF Next, GenerateEvidence

-----------------------------------------------------------------------------
(* The order of a chain. *)

LEMMA OrderStep ==
    ASSUME TypeOK, Chained, PriorInv, OrderKept, [Next]_vars
    PROVE  OrderKept'
<1>0. \A t \in Types : \A i \in 1 .. Len(entries[t]) :
         entries[t][i] \in Calls /\ pc[entries[t][i]] = "done"
  BY DEF TypeOK, Chained
<1>1. ASSUME NEW r \in Calls, Make(r) PROVE OrderKept'
  <2>1. /\ entries' = entries /\ pc[r] = "new"
        /\ \A q \in Calls \ {r} : prior'[q] = prior[q]
    BY <1>1 DEF Make, store, TypeOK
  <2> QED
    BY <1>0, <2>1 DEF OrderKept
<1>2. ASSUME NEW r \in Calls, AddToChain(r) PROVE OrderKept'
  <2> DEFINE T == Type[r]
  <2> DEFINE c == entries[T]
  <2>0. /\ \A t \in Types \ {T} : entries'[t] = entries[t]
        /\ entries'[T] = Append(c, r)
        /\ T \in Types /\ c \in Seq(Calls)
        /\ pc[r] = "stored" /\ prior' = prior
    BY <1>2, Lengthened DEF AddToChain, mine
  <2>1. \A q \in Calls : r \notin prior[q]
    BY <2>0 DEF PriorInv
  <2>2. ASSUME NEW t \in Types, NEW i \in 1 .. Len(entries'[t]), NEW j \in 1 .. Len(entries'[t]),
               entries'[t][i] \in prior[entries'[t][j]]
        PROVE  i < j
    <3>1. CASE t # T
      BY <3>1, <2>0, <2>2 DEF OrderKept
    <3>2. CASE t = T
      <4>1. \A k \in 1 .. Len(Append(c, r)) :
               \/ k \in 1 .. Len(c) /\ Append(c, r)[k] = c[k]
               \/ k = Len(c) + 1 /\ Append(c, r)[k] = r
        BY <2>0, AppendCases
      <4>2. Len(c) \in Nat /\ \A k \in 1 .. Len(c) : c[k] \in Calls
        BY <2>0, AppendType
      <4>3. \A k, l \in 1 .. Len(c) : c[k] \in prior[c[l]] => k < l
        BY <2>0 DEF OrderKept
      <4> HIDE DEF c
      <4>4. i \in 1 .. Len(Append(c, r)) /\ j \in 1 .. Len(Append(c, r)) /\ entries'[t] = Append(c, r)
        BY <2>0, <2>2, <3>2
      <4>5. i \in 1 .. Len(c)
        BY <4>1, <4>2, <4>4, <2>1, <2>2
      <4> QED
        BY <4>1, <4>2, <4>3, <4>4, <4>5, <2>2
    <3> QED
      BY <3>1, <3>2
  <2> QED
    BY <2>0, <2>2 DEF OrderKept
<1>3. CASE (\E r \in Calls : Store(r)) \/ (\E t \in Types : SealChain(t)) \/ Tick \/ UNCHANGED vars
  <2> entries' = entries /\ prior' = prior
    BY <1>3 DEF Store, SealChain, Tick, vars, mine, store
  <2> QED
    BY DEF OrderKept
<1>4. CASE Die
  BY <1>4, EmptyType DEF Die, NoStore, OrderKept
<1> QED
  BY <1>1, <1>2, <1>3, <1>4 DEF Next, GenerateEvidence

-----------------------------------------------------------------------------
(* The theorems *)

LEMMA InitInv == ASSUME Init PROVE IInv
<1>1. Chained /\ OrderKept
  BY EmptyType DEF Init, NoStore, Chained, OrderKept
<1>2. MapInv /\ PriorInv /\ BeginInv
  BY DEF Init, MapInv, Kept, PriorInv, BeginInv
<1> QED
  BY <1>1, <1>2, InitType DEF IInv

LEMMA Inductive == Spec => []IInv
<1>1. Init => IInv
  BY InitInv
<1>2. IInv /\ [Next]_vars => IInv'
  BY TypeStep, ChainedStep, MapStep, PriorStep, BeginStep, OrderStep DEF IInv
<1> QED
  BY <1>1, <1>2, PTL DEF Spec

\* Every reachable state of the service is well typed.
THEOREM EvidenceTypeCorrect == Spec => []TypeOK
<1>1. IInv => TypeOK
  BY DEF IInv
<1> QED
  BY <1>1, Inductive, PTL

\* A returned call that came before the seal is in its chain, and whatever is
\* in a chain is there once and returned (GenerateEvidence, addToChain).
THEOREM ChainedOnce == Spec => []Chained
<1>1. IInv => Chained
  BY DEF IInv
<1> QED
  BY <1>1, Inductive, PTL

\* The ID of a returned call's evidence finds it, or evidence made in the
\* same nanosecond.
THEOREM FoundById == Spec => []EntryFindsEvidence
<1>1. ASSUME IInv PROVE EntryFindsEvidence
  <2> SUFFICES ASSUME NEW r \in Calls, pc[r] = "done", evidence[id[r]] # r
               PROVE  \E q \in Calls \ {r} : id[q] = id[r] /\ evidence[id[r]] = q
    BY DEF EntryFindsEvidence
  <2>1. evidence[id[r]] \in Kept /\ id[evidence[id[r]]] = id[r]
    BY <1>1 DEF IInv, MapInv, Kept
  <2> QED
    BY <2>1 DEF Kept
<1> QED
  BY <1>1, Inductive, PTL

\* A chain begins a second time only where two IDs collided.
THEOREM OneBeginning == Spec => []BeginsOnce
<1>1. IInv => BeginsOnce
  BY DEF IInv, BeginInv, BeginsOnce, Begun
<1> QED
  BY <1>1, Inductive, PTL

\* The chain keeps the order of calls that did not overlap.
THEOREM EntriesInOrder == Spec => []OrderKept
<1>1. IInv => OrderKept
  BY DEF IInv
<1> QED
  BY <1>1, Inductive, PTL

\* What GenerateEvidence returned is kept under its ID and, if it came before
\* the seal, in its chain.
THEOREM NothingReturnedIsLost == Spec => []ReturnedIsKept
<1>1. Chained /\ EntryFindsEvidence => ReturnedIsKept
  BY DEF ReturnedIsKept
<1> QED
  BY <1>1, ChainedOnce, FoundById, PTL
=============================================================================
