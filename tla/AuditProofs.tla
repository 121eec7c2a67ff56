---------------------------- MODULE AuditProofs -----------------------------
(***************************************************************************)
(* What the audit log guarantees for any number of events, workers and     *)
(* callers, any capacity of the buffer and any number of faults and        *)
(* crashes: numbers without gaps, order kept, no event lost without an     *)
(* error, and nothing left behind by Close.                                *)
(***************************************************************************)
EXTENDS AuditChain, FiniteSetTheorems, TLAPS

\* Events whose link, and whose index too, is fixed.
Linked == stored \cup {job[p] : p \in {q \in Loggers : pc[q] \in {"index", "insert"}}}
Numbered == stored \cup {job[p] : p \in {q \in Loggers : pc[q] = "insert"}}

\* The link of e is to a last one of the events stored when it was read.
Back(e) ==
    /\ before[e] \subseteq stored
    /\ link[e] = None => e \in blind \/ before[e] = {}
    /\ link[e] # None => /\ link[e] \in before[e]
                         /\ \A f \in before[e] : index[f] <= index[link[e]]

\* The index of e is above theirs, and every smaller one is taken.
Ahead(e) ==
    /\ \A f \in before[e] : index[f] < index[e]
    /\ \A i \in 0 .. index[e] - 1 : \E f \in stored : index[f] = i

ChainInv ==
    /\ \A e \in Linked : Back(e)
    /\ \A e \in Numbered : Ahead(e)

IInv == TypeOK /\ OneHolder /\ ChainInv /\ Accounted /\ ClosedIsDrained

Held(e) == e \in stored \cup dropped
           \/ (\E i \in 1 .. Len(buffer) : buffer[i] = e)
           \/ (\E p \in Loggers : job[p] = e)

-----------------------------------------------------------------------------
(* Types *)

LEMMA TailType ==
    ASSUME NEW S, NEW q \in Seq(S), q # <<>>
    PROVE  /\ Head(q) \in S /\ Tail(q) \in Seq(S)
           /\ Head(q) = q[1] /\ 1 \in 1 .. Len(q)
           /\ Len(q) \in Nat /\ Len(Tail(q)) = Len(q) - 1
           /\ \A i \in 1 .. Len(Tail(q)) : i + 1 \in 1 .. Len(q) /\ Tail(q)[i] = q[i + 1]
           /\ \A i \in 1 .. Len(q) : i = 1 \/ (i - 1 \in 1 .. Len(Tail(q)) /\ Tail(q)[i - 1] = q[i])
  OBVIOUS

LEMMA AppendType ==
    ASSUME NEW S, NEW q \in Seq(S), NEW e \in S
    PROVE  /\ Append(q, e) \in Seq(S) /\ Len(q) \in Nat /\ Len(Append(q, e)) = Len(q) + 1
           /\ Append(q, e)[Len(q) + 1] = e
           /\ \A i \in 1 .. Len(q) : Append(q, e)[i] = q[i]
  OBVIOUS

LEMMA EmptyType == ASSUME NEW S PROVE <<>> \in Seq(S) /\ Len(<<>>) = 0
  OBVIOUS

Budget == [crash : Nat, fault : Nat]

LEMMA FaultType == ASSUME budget \in Budget, Fault PROVE budget' \in Budget
  BY DEF Fault, Budget

\* The parts of TypeOK about LogEvent's callers.
RunType ==
    /\ pc \in [Loggers -> Places]
    /\ job \in [Loggers -> Events \cup {None}]
    /\ \A p \in Loggers : pc[p] = "idle" <=> job[p] = None

LEMMA JobType ==
    ASSUME TypeOK, NEW p \in Loggers, pc[p] # "idle"
    PROVE  job[p] \in Events /\ job[p] # None
  BY AuditAssumption DEF TypeOK

LEMMA StartType ==
    ASSUME TypeOK, NEW p \in Loggers, NEW e \in Events, Start(p, e)
    PROVE  RunType'
  BY AuditAssumption DEF TypeOK, RunType, Start, Places

LEMMA GotoType ==
    ASSUME TypeOK, NEW p \in Loggers, pc[p] # "idle", NEW place \in Places \ {"idle"}, Goto(p, place)
    PROVE  RunType' /\ UNCHANGED bufferMu
  BY AuditAssumption DEF TypeOK, RunType, Goto, Places

LEMMA ReturnType ==
    ASSUME TypeOK, NEW p \in Loggers, Return(p)
    PROVE  RunType' /\ bufferMu' \in Callers \cup {Closer, None}
  BY AuditAssumption DEF TypeOK, RunType, Return, Places

LEMMA FailType ==
    ASSUME TypeOK, NEW p \in Loggers, pc[p] # "idle", Fail(p)
    PROVE  RunType' /\ bufferMu' \in Callers \cup {Closer, None} /\ dropped' \subseteq Events
  <1>1. job[p] \in Events
    BY JobType
  <1>2. dropped \subseteq Events
    BY DEF TypeOK
  <1> QED
    BY <1>1, <1>2, ReturnType DEF Fail

LEMMA TypeInit == Init => TypeOK
  <1> SUFFICES ASSUME Init PROVE TypeOK
    OBVIOUS
  <1>1. buffer \in Seq(Events) /\ Len(buffer) <= Buffer
    BY EmptyType, AuditAssumption DEF Init
  <1>2. /\ pc \in [Loggers -> Places]
        /\ job \in [Loggers -> Events \cup {None}]
        /\ \A p \in Loggers : pc[p] = "idle" <=> job[p] = None
    BY DEF Init, Places
  <1>3. budget \in [crash : Nat, fault : Nat]
    BY AuditAssumption DEF Init
  <1>4. /\ link \in [Events -> Events \cup {None}]
        /\ index \in [Events -> Nat]
        /\ before \in [Events -> SUBSET Events]
    BY DEF Init
  <1> QED
    BY <1>1, <1>2, <1>3, <1>4 DEF Init, TypeOK

LEMMA TypeStep == TypeOK /\ [Next]_vars => TypeOK'
  <1> SUFFICES ASSUME TypeOK, [Next]_vars PROVE TypeOK'
    OBVIOUS
  <1> USE DEF past, chain, run
  <1>1. ASSUME NEW e \in Events, Enqueue(e) PROVE TypeOK'
    <2>1. buffer' \in Seq(Events) /\ Len(buffer') <= Buffer
      BY <1>1, AppendType, AuditAssumption DEF Enqueue, TypeOK
    <2> QED
      BY <1>1, <2>1 DEF Enqueue, HandedIn, TypeOK
  <1>2. ASSUME NEW c \in Callers, NEW e \in Events, Call(c, e) PROVE TypeOK'
    <2>1. RunType'
      BY <1>2, StartType DEF Call, Loggers
    <2> QED
      BY <1>2, <2>1 DEF Call, HandedIn, TypeOK, RunType
  <1>3. ASSUME NEW c \in Callers, NEW e \in Events, LogInline(c, e) PROVE TypeOK'
    <2>1. RunType'
      BY <1>3, StartType DEF LogInline, Loggers
    <2> QED
      BY <1>3, <2>1 DEF LogInline, HandedIn, TypeOK, RunType
  <1>4. ASSUME NEW w \in Workers, Take(w) PROVE TypeOK'
    <2>1. /\ Head(buffer) \in Events /\ Tail(buffer) \in Seq(Events)
          /\ Len(Tail(buffer)) <= Buffer
      BY <1>4, TailType, AuditAssumption DEF Take, TypeOK
    <2>2. RunType'
      BY <1>4, <2>1, StartType DEF Take, Loggers
    <2> QED
      BY <1>4, <2>1, <2>2 DEF Take, TypeOK, RunType
  <1>5. ASSUME NEW p \in Loggers, LogEvent(p) PROVE TypeOK'
    <2>1. CASE Refuse(p)
      BY <2>1, FailType DEF Refuse, TypeOK, RunType
    <2>2. CASE ReadLast(p)
      <3>1. job[p] \in Events /\ RunType' /\ UNCHANGED bufferMu
        BY <2>2, JobType, GotoType DEF ReadLast, Places
      <3>2. before' \in [Events -> SUBSET Events]
        BY <2>2 DEF ReadLast, TypeOK
      <3>3. link' \in [Events -> Events \cup {None}] /\ blind' \subseteq Events
        BY <2>2, <3>1 DEF ReadLast, TypeOK
      <3>4. budget' \in [crash : Nat, fault : Nat]
        BY <2>2, FaultType DEF ReadLast, NoFault, TypeOK, Budget
      <3> QED
        BY <2>2, <3>1, <3>2, <3>3, <3>4 DEF ReadLast, TypeOK, RunType
    <2>3. CASE ReadIndex(p)
      <3>1. /\ RunType' /\ bufferMu' \in Callers \cup {Closer, None}
            /\ dropped' \subseteq Events
        BY <2>3, GotoType, FailType DEF ReadIndex, Places, TypeOK
      <3>2. index' \in [Events -> Nat]
        <4>1. CASE UNCHANGED index
          BY <4>1 DEF TypeOK
        <4>2. ASSUME NEW i \in 0 .. Cardinality(Events) + 1,
                     index' = [index EXCEPT ![job[p]] = i]
              PROVE  index' \in [Events -> Nat]
          <5>1. Cardinality(Events) + 1 \in Int
            BY FS_CardinalityType, AuditAssumption
          <5>2. i \in Nat
            BY <5>1
          <5> QED
            BY <4>2, <5>2 DEF TypeOK
        <4> QED
          BY <2>3, <4>1, <4>2 DEF ReadIndex
      <3>3. budget' \in [crash : Nat, fault : Nat]
        BY <2>3, FaultType DEF ReadIndex, NoFault, TypeOK, Budget
      <3> QED
        BY <2>3, <3>1, <3>2, <3>3 DEF ReadIndex, TypeOK, RunType
    <2>4. CASE Insert(p)
      <3>1. /\ RunType' /\ bufferMu' \in Callers \cup {Closer, None}
            /\ dropped' \subseteq Events
        BY <2>4, ReturnType, FailType DEF Insert, TypeOK
      <3>2. stored' \subseteq Events
        BY <2>4, JobType DEF Insert, TypeOK
      <3>3. budget' \in [crash : Nat, fault : Nat]
        BY <2>4, FaultType DEF Insert, NoFault, TypeOK, Budget
      <3> QED
        BY <2>4, <3>1, <3>2, <3>3 DEF Insert, TypeOK, RunType
    <2> QED
      BY <1>5, <2>1, <2>2, <2>3, <2>4 DEF LogEvent
  <1>6. CASE Close
    BY <1>6 DEF Close, TypeOK
  <1>7. CASE CloseReturns
    BY <1>7 DEF CloseReturns, TypeOK
  <1>8. CASE Crash
    <2>1. RunType'
      BY <1>8 DEF Crash, RunType, Places
    <2>2. \A p \in Loggers : pc[p] # "idle" => job[p] \in Events
      BY JobType
    <2>3. stored' \subseteq Events
      BY <1>8, <2>2 DEF Crash, TypeOK
    <2>4. dropped' \subseteq Events
      <3>1. \A i \in 1 .. Len(buffer) : buffer[i] \in Events
        BY DEF TypeOK
      <3> QED
        BY <1>8, <2>2, <3>1 DEF Crash, TypeOK
    <2>5. buffer' \in Seq(Events) /\ Len(buffer') <= Buffer
      BY <1>8, EmptyType, AuditAssumption DEF Crash
    <2>6. budget' \in [crash : Nat, fault : Nat]
      BY <1>8 DEF Crash, TypeOK
    <2> QED
      BY <1>8, <2>1, <2>3, <2>4, <2>5, <2>6 DEF Crash, TypeOK, RunType
  <1>9. CASE UNCHANGED vars
    BY <1>9 DEF vars, TypeOK
  <1> QED
    BY <1>1, <1>2, <1>3, <1>4, <1>5, <1>6, <1>7, <1>8, <1>9 DEF Next, HandIn

-----------------------------------------------------------------------------
(* One holder *)

\* What the steps of LogEvent have in common: other goroutines, the buffer
\* and the clients are left alone, and only the event in hand is stored.
Alone(p) ==
    /\ UNCHANGED <<todo, buffer, closed>>
    /\ \A q \in Loggers \ {p} : pc'[q] = pc[q] /\ job'[q] = job[q]
    /\ \/ job'[p] = job[p] /\ stored' = stored /\ UNCHANGED <<bufferMu, dropped>>
       \/ /\ pc'[p] = "idle" /\ job'[p] = None /\ dropped \subseteq dropped'
          /\ bufferMu' \in {bufferMu, None}
          /\ bufferMu' # bufferMu => bufferMu = p
          /\ stored \subseteq stored' /\ stored' \subseteq stored \cup {job[p]}
          /\ job[p] \in stored' \cup dropped'

LEMMA ReturnAlone ==
    ASSUME TypeOK, NEW p \in Loggers, Return(p)
    PROVE  /\ \A q \in Loggers \ {p} : pc'[q] = pc[q] /\ job'[q] = job[q]
           /\ pc'[p] = "idle" /\ job'[p] = None
           /\ bufferMu' \in {bufferMu, None} /\ (bufferMu' # bufferMu => bufferMu = p)
  BY DEF TypeOK, Return

LEMMA GotoAlone ==
    ASSUME TypeOK, NEW p \in Loggers, NEW place, Goto(p, place)
    PROVE  /\ \A q \in Loggers \ {p} : pc'[q] = pc[q] /\ job'[q] = job[q]
           /\ pc'[p] = place /\ job'[p] = job[p] /\ UNCHANGED bufferMu
  BY DEF TypeOK, Goto

LEMMA LogEventAlone ==
    ASSUME TypeOK, NEW p \in Loggers, LogEvent(p)
    PROVE  Alone(p) /\ pc[p] # "idle"
  <1>1. CASE Refuse(p)
    BY <1>1, ReturnAlone DEF Refuse, Fail, Alone, chain
  <1>2. CASE ReadLast(p)
    BY <1>2, GotoAlone DEF ReadLast, Alone
  <1>3. CASE ReadIndex(p)
    <2>1. CASE Goto(p, "insert") /\ UNCHANGED dropped
      BY <1>3, <2>1, GotoAlone DEF ReadIndex, Alone
    <2>2. CASE Fail(p)
      BY <1>3, <2>2, ReturnAlone DEF ReadIndex, Alone, Fail
    <2> QED
      BY <1>3, <2>1, <2>2 DEF ReadIndex
  <1>4. CASE Insert(p)
    <2>1. \A q \in Loggers \ {p} : pc'[q] = pc[q] /\ job'[q] = job[q]
      BY <1>4, ReturnAlone DEF Insert, Fail
    <2>2. /\ pc'[p] = "idle" /\ job'[p] = None
          /\ bufferMu' \in {bufferMu, None} /\ (bufferMu' # bufferMu => bufferMu = p)
      BY <1>4, ReturnAlone DEF Insert, Fail
    <2>3. /\ dropped \subseteq dropped'
          /\ stored \subseteq stored' /\ stored' \subseteq stored \cup {job[p]}
          /\ job[p] \in stored' \cup dropped'
      BY <1>4 DEF Insert, Fail
    <2> QED
      BY <1>4, <2>1, <2>2, <2>3 DEF Insert, Alone
  <1> QED
    BY <1>1, <1>2, <1>3, <1>4 DEF LogEvent, Refuse, ReadLast, ReadIndex, Insert

\* A goroutine that starts takes an event nobody else has.
LEMMA StartAlone ==
    ASSUME TypeOK, NEW p \in Loggers, NEW e, Start(p, e)
    PROVE  /\ \A q \in Loggers \ {p} : pc'[q] = pc[q] /\ job'[q] = job[q]
           /\ pc'[p] = "last" /\ job'[p] = e
  BY DEF TypeOK, Start

LEMMA HolderStep ==
    ASSUME TypeOK, OneHolder, [Next]_vars
    PROVE  OneHolder'
  <1> USE DEF past, chain, run
  <1>0. None \notin Events /\ todo \subseteq Events /\ stored \subseteq Events
    BY AuditAssumption DEF TypeOK
  <1>1. ASSUME NEW e \in Events, Enqueue(e) PROVE OneHolder'
    <2>1. e \in todo /\ todo' = todo \ {e} /\ UNCHANGED <<job, stored>>
      BY <1>1 DEF Enqueue, HandedIn
    <2>2. /\ Len(buffer) \in Nat /\ Len(buffer') = Len(buffer) + 1
          /\ buffer'[Len(buffer) + 1] = e
          /\ \A i \in 1 .. Len(buffer) : buffer'[i] = buffer[i]
      BY <1>1, AppendType DEF Enqueue, TypeOK
    <2>3. e \notin stored
      BY <1>1, <2>1 DEF Enqueue, OneHolder
    <2>4. \A i \in 1 .. Len(buffer') : i \in 1 .. Len(buffer) \/ i = Len(buffer) + 1
      BY <2>2
    <2>5. \A i \in 1 .. Len(buffer) : buffer[i] # e
      BY <2>1 DEF OneHolder
    <2>6. \A i, j \in 1 .. Len(buffer') : buffer'[i] = buffer'[j] => i = j
      BY <2>2, <2>4, <2>5 DEF OneHolder
    <2>7. \A i \in 1 .. Len(buffer') : buffer'[i] \notin todo' \cup stored'
      BY <2>1, <2>2, <2>3, <2>4 DEF OneHolder
    <2>8. \A i \in 1 .. Len(buffer') : \A p \in Loggers : job'[p] # buffer'[i]
      BY <2>1, <2>2, <2>4 DEF OneHolder
    <2>9. /\ todo' \cap stored' = {}
          /\ \A p, q \in Loggers : job'[p] = job'[q] => p = q \/ job'[p] = None
          /\ \A p \in Loggers : job'[p] \notin todo' \cup stored'
      BY <2>1 DEF OneHolder
    <2> QED
      BY <2>6, <2>7, <2>8, <2>9 DEF OneHolder
  <1>2. ASSUME NEW p \in Callers, NEW e \in Events, Call(p, e) \/ LogInline(p, e) PROVE OneHolder'
    <2>1. /\ e \in todo /\ todo' = todo \ {e} /\ UNCHANGED <<stored, buffer>>
          /\ p \in Loggers /\ Start(p, e)
      BY <1>2 DEF Call, LogInline, HandedIn, Loggers
    <2>2. (\A q \in Loggers \ {p} : job'[q] = job[q]) /\ job'[p] = e
      BY <2>1, StartAlone
    <2> QED
      BY <2>1, <2>2 DEF OneHolder
  <1>3. ASSUME NEW w \in Workers, Take(w) PROVE OneHolder'
    <2> DEFINE e == Head(buffer)
    <2>1. /\ UNCHANGED <<todo, stored>> /\ w \in Loggers /\ Start(w, e)
          /\ buffer # <<>> /\ buffer' = Tail(buffer)
      BY <1>3 DEF Take, Loggers
    <2>2. (\A q \in Loggers \ {w} : job'[q] = job[q]) /\ job'[w] = e
      BY <2>1, StartAlone
    <2>3. /\ e = buffer[1] /\ 1 \in 1 .. Len(buffer)
          /\ \A i \in 1 .. Len(buffer') : i + 1 \in 1 .. Len(buffer) /\ buffer'[i] = buffer[i + 1]
      BY <2>1, TailType DEF TypeOK
    <2> HIDE DEF e
    <2>4. \A i \in 1 .. Len(buffer') : buffer'[i] \notin todo' \cup stored' \cup {e}
      BY <2>1, <2>3 DEF OneHolder
    <2>5. \A i \in 1 .. Len(buffer') : \A p \in Loggers : job'[p] # buffer'[i]
      BY <2>2, <2>3, <2>4 DEF OneHolder
    <2>6. \A i, j \in 1 .. Len(buffer') : buffer'[i] = buffer'[j] => i = j
      BY <2>3 DEF OneHolder
    <2>7. /\ \A p, q \in Loggers : job'[p] = job'[q] => p = q \/ job'[p] = None
          /\ \A p \in Loggers : job'[p] \notin todo' \cup stored'
      BY <2>1, <2>2, <2>3 DEF OneHolder
    <2>8. todo' \cap stored' = {}
      BY <2>1 DEF OneHolder
    <2> QED
      BY <2>4, <2>5, <2>6, <2>7, <2>8 DEF OneHolder
  <1>4. ASSUME NEW p \in Loggers, LogEvent(p) PROVE OneHolder'
    <2>1. Alone(p) /\ pc[p] # "idle"
      BY <1>4, LogEventAlone
    <2>2. CASE job'[p] = job[p] /\ stored' = stored
      BY <2>1, <2>2 DEF Alone, OneHolder
    <2>3. CASE job'[p] = None /\ stored' \subseteq stored \cup {job[p]}
      <3>1. job[p] # None /\ UNCHANGED <<todo, buffer>>
        BY <2>1, JobType DEF Alone
      <3>2. \A q \in Loggers : q = p \/ (job'[q] = job[q] /\ (job[q] # job[p]))
        BY <2>1, <3>1 DEF Alone, OneHolder
      <3>3. None \notin todo' \cup stored'
        BY <1>0, <2>1, <2>3, <3>1, JobType
      <3>4. todo' \cap stored' = {}
        BY <2>3, <3>1 DEF OneHolder
      <3>5. \A q \in Loggers : job'[q] \notin todo' \cup stored'
        BY <2>3, <3>1, <3>2, <3>3 DEF OneHolder
      <3>6. \A q, r \in Loggers : job'[q] = job'[r] => q = r \/ job'[q] = None
        BY <2>3, <3>2 DEF OneHolder
      <3>7. \A i \in 1 .. Len(buffer') :
               /\ buffer'[i] \notin todo' \cup stored'
               /\ \A j \in 1 .. Len(buffer') : buffer'[i] = buffer'[j] => i = j
        BY <2>3, <3>1 DEF OneHolder
      <3>8. \A i \in 1 .. Len(buffer') : \A q \in Loggers : job'[q] # buffer'[i]
        <4>1. \A i \in 1 .. Len(buffer) : buffer[i] # None
          BY AuditAssumption DEF TypeOK
        <4> QED
          BY <2>3, <3>1, <3>2, <4>1 DEF OneHolder
      <3> QED
        BY <3>4, <3>5, <3>6, <3>7, <3>8 DEF OneHolder
    <2> QED
      BY <2>1, <2>2, <2>3 DEF Alone
  <1>5. CASE Close \/ CloseReturns \/ UNCHANGED vars
    BY <1>5 DEF Close, CloseReturns, vars, OneHolder
  <1>6. CASE Crash
    <2>1. /\ UNCHANGED todo /\ buffer' = <<>> /\ \A p \in Loggers : job'[p] = None
      BY <1>6 DEF Crash
    <2>2. stored' \subseteq stored \cup {job[p] : p \in {q \in Loggers : pc[q] = "insert"}}
      BY <1>6 DEF Crash
    <2>3. None \notin stored'
      BY <1>0, <2>2, JobType
    <2>4. todo' \cap stored' = {}
      BY <2>1, <2>2 DEF OneHolder
    <2>5. Len(buffer') = 0
      BY <2>1, EmptyType
    <2> QED
      BY <1>0, <2>1, <2>3, <2>4, <2>5 DEF OneHolder
  <1> QED
    BY <1>1, <1>2, <1>3, <1>4, <1>5, <1>6 DEF Next, HandIn

-----------------------------------------------------------------------------
(* Accounted, and Close *)

LEMMA AccountedStep ==
    ASSUME TypeOK, Accounted, [Next]_vars
    PROVE  Accounted'
  <1> USE DEF past, chain, run
  <1>0. Accounted <=> \A e \in Events \ todo : Held(e)
    BY DEF Accounted, Held
  <1>1. Accounted' <=> \A e \in Events \ todo' : Held(e)'
    BY DEF Accounted, Held
  <1>2. ASSUME NEW e \in Events, Enqueue(e) PROVE Accounted'
    <2>1. /\ Len(buffer) \in Nat /\ Len(buffer') = Len(buffer) + 1
          /\ buffer'[Len(buffer) + 1] = e
          /\ \A i \in 1 .. Len(buffer) : buffer'[i] = buffer[i]
      BY <1>2, AppendType DEF Enqueue, TypeOK
    <2>2. todo' = todo \ {e} /\ UNCHANGED <<job, stored, dropped>>
      BY <1>2 DEF Enqueue, HandedIn
    <2>3. Held(e)'
      <3>1. Len(buffer) + 1 \in 1 .. Len(buffer')
        BY <2>1
      <3> QED
        BY <2>1, <3>1 DEF Held
    <2>4. \A f \in Events : Held(f) => Held(f)'
      <3>1. \A i \in 1 .. Len(buffer) : i \in 1 .. Len(buffer')
        BY <2>1
      <3> QED
        BY <2>1, <2>2, <3>1 DEF Held
    <2> QED
      BY <1>0, <1>1, <2>2, <2>3, <2>4
  <1>3. ASSUME NEW p \in Callers, NEW e \in Events, Call(p, e) \/ LogInline(p, e) PROVE Accounted'
    <2>1. /\ todo' = todo \ {e} /\ UNCHANGED <<stored, buffer, dropped>>
          /\ p \in Loggers /\ pc[p] = "idle" /\ Start(p, e)
      BY <1>3 DEF Call, LogInline, HandedIn, Loggers
    <2>2. (\A q \in Loggers \ {p} : job'[q] = job[q]) /\ job'[p] = e
      BY <2>1, StartAlone
    <2>3. job[p] = None /\ None \notin Events
      BY <2>1, AuditAssumption DEF TypeOK
    <2>4. \A f \in Events : Held(f) => Held(f)'
      BY <2>1, <2>2, <2>3 DEF Held
    <2> QED
      BY <1>0, <1>1, <2>1, <2>2, <2>4 DEF Held
  <1>4. ASSUME NEW w \in Workers, Take(w) PROVE Accounted'
    <2>1. /\ UNCHANGED <<todo, stored, dropped>> /\ w \in Loggers /\ Start(w, Head(buffer))
          /\ buffer # <<>> /\ buffer' = Tail(buffer) /\ pc[w] = "idle"
      BY <1>4 DEF Take, Loggers
    <2>2. (\A q \in Loggers \ {w} : job'[q] = job[q]) /\ job'[w] = buffer[1]
      BY <2>1, StartAlone, TailType DEF TypeOK
    <2>3. \A i \in 1 .. Len(buffer) :
             i = 1 \/ (i - 1 \in 1 .. Len(buffer') /\ buffer'[i - 1] = buffer[i])
      BY <2>1, TailType DEF TypeOK
    <2>4. job[w] = None /\ None \notin Events
      BY <2>1, AuditAssumption DEF TypeOK
    <2>5. \A f \in Events : Held(f) => Held(f)'
      BY <2>1, <2>2, <2>3, <2>4 DEF Held
    <2> QED
      BY <1>0, <1>1, <2>1, <2>5
  <1>5. ASSUME NEW p \in Loggers, LogEvent(p) PROVE Accounted'
    <2>1. Alone(p)
      BY <1>5, LogEventAlone
    <2>2. \A f \in Events : Held(f) => Held(f)'
      BY <2>1 DEF Held, Alone
    <2> QED
      BY <1>0, <1>1, <2>1, <2>2 DEF Alone
  <1>6. CASE Close \/ CloseReturns \/ UNCHANGED vars
    BY <1>6 DEF Close, CloseReturns, vars, Accounted
  <1>7. CASE Crash
    <2>1. UNCHANGED todo /\ stored \subseteq stored' /\ dropped \subseteq dropped'
      BY <1>7 DEF Crash
    <2>2. \A i \in 1 .. Len(buffer) : buffer[i] \in dropped'
      BY <1>7 DEF Crash
    <2>3. \A p \in Loggers : job[p] \in Events => job[p] \in dropped'
      BY <1>7, AuditAssumption DEF Crash, TypeOK
    <2>4. \A f \in Events : Held(f) => Held(f)'
      BY <2>1, <2>2, <2>3 DEF Held
    <2> QED
      BY <1>0, <1>1, <2>1, <2>4
  <1> QED
    BY <1>2, <1>3, <1>4, <1>5, <1>6, <1>7 DEF Next, HandIn

LEMMA DrainedStep ==
    ASSUME TypeOK, ClosedIsDrained, [Next]_vars
    PROVE  ClosedIsDrained'
  <1> USE DEF past, chain, run
  <1>0. /\ \A c \in Callers : c # Closer /\ c \notin Workers
        /\ \A p \in Loggers : p # Closer
        /\ None # Closer
    BY AuditAssumption DEF Loggers
  <1>1. ASSUME NEW e \in Events, Enqueue(e) PROVE ClosedIsDrained'
    BY <1>1 DEF Enqueue, ClosedIsDrained
  <1>2. ASSUME NEW p \in Callers, NEW e \in Events, Call(p, e) \/ LogInline(p, e) PROVE ClosedIsDrained'
    <2>1. /\ UNCHANGED <<closed, buffer>> /\ p \in Loggers /\ Start(p, e)
          /\ bufferMu' # Closer => bufferMu # Closer
      BY <1>2, <1>0 DEF Call, LogInline, Loggers
    <2>2. \A w \in Workers : pc'[w] = pc[w]
      BY <2>1, StartAlone, <1>0 DEF Loggers
    <2> QED
      BY <2>1, <2>2 DEF ClosedIsDrained, Drained
  <1>3. ASSUME NEW w \in Workers, Take(w) PROVE ClosedIsDrained'
    BY <1>3 DEF Take, ClosedIsDrained, Drained
  <1>4. ASSUME NEW p \in Loggers, LogEvent(p) PROVE ClosedIsDrained'
    <2>1. Alone(p) /\ pc[p] # "idle"
      BY <1>4, LogEventAlone
    <2>2. UNCHANGED <<closed, buffer>> /\ (bufferMu' # Closer => bufferMu # Closer)
      BY <2>1, <1>0 DEF Alone
    <2>3. (\A w \in Workers : pc[w] = "idle") => \A w \in Workers : pc'[w] = pc[w]
      BY <2>1 DEF Alone, Loggers
    <2> QED
      BY <2>2, <2>3 DEF ClosedIsDrained, Drained
  <1>5. CASE Close \/ CloseReturns \/ UNCHANGED vars
    BY <1>5 DEF Close, CloseReturns, vars, ClosedIsDrained, Drained
  <1>6. CASE Crash
    BY <1>6 DEF Crash, ClosedIsDrained
  <1> QED
    BY <1>1, <1>2, <1>3, <1>4, <1>5, <1>6 DEF Next, HandIn

-----------------------------------------------------------------------------
(* The chain *)

\* What holds of an event goes on to hold as the table grows, as long as
\* the fields of the event and of the rows are left alone.
Grows ==
    /\ stored \subseteq stored' /\ blind \subseteq blind'
    /\ \A e \in stored : index'[e] = index[e]

LEMMA BackKept ==
    ASSUME Grows, NEW e, Back(e), link'[e] = link[e], before'[e] = before[e]
    PROVE  Back(e)'
  <1>1. \A f \in before[e] : f \in stored' /\ index'[f] = index[f]
    BY DEF Back, Grows
  <1>2. link'[e] # None => link'[e] \in before[e] /\ index'[link'[e]] = index[link[e]]
    BY <1>1 DEF Back
  <1> QED
    BY <1>1, <1>2 DEF Back, Grows

LEMMA AheadKept ==
    ASSUME Grows, NEW e, Ahead(e), before[e] \subseteq stored,
           index'[e] = index[e], before'[e] = before[e]
    PROVE  Ahead(e)'
  <1>1. \A f \in before[e] : index'[f] = index[f]
    BY DEF Grows
  <1>2. \A i \in 0 .. index[e] - 1 : \E f \in stored' : index'[f] = i
    BY DEF Ahead, Grows
  <1> QED
    BY <1>1, <1>2 DEF Ahead

\* A step that writes no field of an event and moves no event forward.
LEMMA ChainKept ==
    ASSUME ChainInv, Grows, UNCHANGED <<link, index, before>>,
           Linked' \subseteq Linked, Numbered' \subseteq Numbered
    PROVE  ChainInv'
  <1>1. \A e \in Linked' : Back(e)'
    BY BackKept DEF ChainInv
  <1>2. Numbered \subseteq Linked
    BY DEF Numbered, Linked
  <1>3. ASSUME NEW e \in Numbered' PROVE Ahead(e)'
    <2>1. e \in Numbered /\ Back(e) /\ Ahead(e)
      BY <1>2 DEF ChainInv
    <2> QED
      BY <2>1, AheadKept DEF Back
  <1> QED
    BY <1>1, <1>3 DEF ChainInv

\* The event in hand before its link is read, and before its index is.
LEMMA InHand ==
    ASSUME TypeOK, OneHolder, NEW p \in Loggers, pc[p] # "idle"
    PROVE  /\ job[p] \in Events /\ job[p] \notin stored
           /\ \A q \in Loggers \ {p} : job[q] # job[p]
  BY JobType DEF OneHolder

LEMMA ReadLastChain ==
    ASSUME TypeOK, OneHolder, ChainInv, NEW p \in Loggers, ReadLast(p)
    PROVE  ChainInv'
  <1>0. PICK e \in Events : e = job[p]
    BY InHand DEF ReadLast
  <1>1. /\ e \in Events /\ e \notin stored /\ pc[p] = "last"
        /\ \A q \in Loggers \ {p} : job[q] # e
    BY <1>0, InHand DEF ReadLast
  <1>2. /\ \A q \in Loggers \ {p} : pc'[q] = pc[q] /\ job'[q] = job[q]
        /\ pc'[p] = "index" /\ job'[p] = e
    BY <1>0, GotoAlone DEF ReadLast
  <1>3. UNCHANGED <<index, stored>> /\ blind \subseteq blind'
    BY DEF ReadLast
  <1>4. before'[e] = stored /\ \A f \in Events \ {e} : before'[f] = before[f] /\ link'[f] = link[f]
    BY <1>0, <1>1 DEF ReadLast, TypeOK
  <1>5. e \notin Linked /\ Linked' \subseteq Linked \cup {e}
    BY <1>0, <1>1, <1>2, <1>3 DEF Linked
  <1>6. Numbered' \subseteq Numbered /\ Numbered \subseteq Linked
    BY <1>1, <1>2, <1>3 DEF Numbered, Linked
  <1>7. Linked \subseteq Events
    BY JobType DEF Linked, TypeOK
  <1>8. Back(e)'
    <2>1. CASE e \in blind' /\ link'[e] = None
      BY <2>1, <1>3, <1>4 DEF Back
    <2>2. CASE \E h \in Events \cup {None} : GetLastHash(h) /\ link' = [link EXCEPT ![e] = h]
      <3>1. PICK h \in Events \cup {None} : GetLastHash(h) /\ link' = [link EXCEPT ![e] = h]
        BY <2>2
      <3>2. link'[e] = h
        BY <3>1, <1>1 DEF TypeOK
      <3>3. CASE stored = {}
        BY <3>1, <3>2, <3>3, <1>3, <1>4 DEF GetLastHash, Back
      <3>4. CASE stored # {}
        <4>1. h \in stored /\ \A f \in stored : index[f] <= index[h]
          BY <3>1, <3>4 DEF GetLastHash, Last
        <4>2. h # None
          BY <4>1, AuditAssumption DEF TypeOK
        <4> QED
          BY <3>2, <4>1, <4>2, <1>3, <1>4 DEF Back
      <3> QED
        BY <3>3, <3>4
    <2> QED
      BY <2>1, <2>2, <1>0, <1>1 DEF ReadLast, TypeOK
  <1>9. Grows
    BY <1>3 DEF Grows
  <1>10. ASSUME NEW f \in Linked' PROVE Back(f)'
    BY <1>4, <1>5, <1>7, <1>8, <1>9, BackKept DEF ChainInv
  <1>11. ASSUME NEW f \in Numbered' PROVE Ahead(f)'
    <2>1. f \in Numbered /\ f \in Linked /\ f \in Events \ {e}
      BY <1>5, <1>6, <1>7
    <2>2. index'[f] = index[f] /\ before'[f] = before[f] /\ Ahead(f) /\ before[f] \subseteq stored
      BY <2>1, <1>3, <1>4 DEF ChainInv, Back
    <2> QED
      BY <2>2, <1>9, AheadKept
  <1> QED
    BY <1>10, <1>11 DEF ChainInv

LEMMA ReadIndexChain ==
    ASSUME TypeOK, OneHolder, ChainInv, NEW p \in Loggers, ReadIndex(p)
    PROVE  ChainInv'
  <1>0. PICK e \in Events : e = job[p]
    BY InHand DEF ReadIndex
  <1>1. /\ e \in Events /\ e \notin stored /\ pc[p] = "index"
        /\ \A q \in Loggers \ {p} : job[q] # e
    BY <1>0, InHand DEF ReadIndex
  <1>2. UNCHANGED <<link, stored, before, blind>>
    BY DEF ReadIndex, past
  <1>3. CASE Fail(p) /\ UNCHANGED index
    <2>1. (\A q \in Loggers \ {p} : pc'[q] = pc[q] /\ job'[q] = job[q]) /\ pc'[p] = "idle"
      BY <1>3, ReturnAlone DEF Fail
    <2>2. Linked' \subseteq Linked /\ Numbered' \subseteq Numbered
      BY <1>2, <2>1 DEF Linked, Numbered
    <2> QED
      BY <1>2, <1>3, <2>2, ChainKept DEF Grows
  <1>4. ASSUME NEW i \in 0 .. Cardinality(Events) + 1, GetNextChainIndex(i),
               index' = [index EXCEPT ![e] = i], Goto(p, "insert")
        PROVE  ChainInv'
    <2>1. (\A q \in Loggers \ {p} : pc'[q] = pc[q] /\ job'[q] = job[q])
          /\ pc'[p] = "insert" /\ job'[p] = e
      BY <1>0, <1>4, GotoAlone
    <2>2. Linked' = Linked /\ Numbered' \subseteq Numbered \cup {e} /\ e \in Linked
          /\ Numbered \subseteq Linked /\ e \notin Numbered
      BY <1>0, <1>1, <1>2, <2>1 DEF Linked, Numbered
    <2>3. index'[e] = i /\ \A f \in Events \ {e} : index'[f] = index[f]
      BY <1>1, <1>4 DEF TypeOK
    <2>4. Grows
      BY <1>1, <1>2, <2>3 DEF Grows, TypeOK
    <2>5. Back(e) /\ before[e] \subseteq stored
      BY <2>2 DEF ChainInv, Back
    <2>6. Ahead(e)'
      <3>1. CASE stored = {}
        <4>1. i = 0 /\ before'[e] = {}
          BY <1>2, <1>4, <2>5, <3>1 DEF GetNextChainIndex
        <4> QED
          BY <2>3, <4>1 DEF Ahead
      <3>2. CASE stored # {}
        <4>1. PICK l \in Last : i = index[l] + 1
          BY <1>4, <3>2 DEF GetNextChainIndex
        <4>2. l \in stored /\ index[l] \in Nat /\ l # e /\ \A f \in stored : index[f] <= index[l]
          BY <4>1, <1>1 DEF Last, TypeOK
        <4>3. \A f \in stored : f \in Events \ {e} /\ index'[f] = index[f] /\ index[f] \in Nat
          BY <2>3, <1>1 DEF TypeOK
        <4>4. \A f \in before'[e] : index'[f] < index'[e]
          BY <1>2, <2>3, <2>5, <4>1, <4>2, <4>3
        <4>5. Ahead(l)
          BY <4>2 DEF ChainInv, Numbered
        <4>6. ASSUME NEW j \in 0 .. index'[e] - 1 PROVE \E f \in stored' : index'[f] = j
          <5>1. j \in 0 .. index[l] - 1 \/ j = index[l]
            BY <2>3, <4>1, <4>2
          <5>2. \E f \in stored : index[f] = j
            BY <5>1, <4>2, <4>5 DEF Ahead
          <5> QED
            BY <5>2, <4>3, <1>2
        <4> QED
          BY <4>4, <4>6 DEF Ahead
      <3> QED
        BY <3>1, <3>2
    <2>7. \A f \in Linked' : Back(f)'
      BY <2>2, <2>4, <1>2, BackKept DEF ChainInv
    <2>8. ASSUME NEW f \in Numbered' PROVE Ahead(f)'
      <3>1. CASE f = e
        BY <3>1, <2>6
      <3>2. CASE f # e
        <4>1. f \in Numbered /\ f \in Linked
          BY <3>2, <2>2
        <4>2. f \in Events
          BY <4>1, JobType DEF Numbered, TypeOK
        <4>3. index'[f] = index[f] /\ before'[f] = before[f] /\ Ahead(f) /\ before[f] \subseteq stored
          BY <4>1, <4>2, <3>2, <2>3, <1>2 DEF ChainInv, Back
        <4> QED
          BY <4>3, <2>4, AheadKept
      <3> QED
        BY <3>1, <3>2
    <2> QED
      BY <2>7, <2>8 DEF ChainInv
  <1> QED
    BY <1>0, <1>3, <1>4 DEF ReadIndex

LEMMA ChainStep ==
    ASSUME TypeOK, OneHolder, ChainInv, [Next]_vars
    PROVE  ChainInv'
  <1> USE DEF past, chain, run
  <1>1. ASSUME NEW p \in Loggers, NEW e, Start(p, e), UNCHANGED <<chain, past>>
        PROVE  ChainInv'
    <2>1. (\A q \in Loggers \ {p} : pc'[q] = pc[q] /\ job'[q] = job[q]) /\ pc'[p] = "last"
      BY <1>1, StartAlone
    <2>2. Linked' \subseteq Linked /\ Numbered' \subseteq Numbered
      BY <1>1, <2>1 DEF Linked, Numbered
    <2> QED
      BY <1>1, <2>2, ChainKept DEF Grows
  <1>2. ASSUME UNCHANGED <<run, chain, past>> PROVE ChainInv'
    BY <1>2, ChainKept DEF Grows, Linked, Numbered
  <1>3. ASSUME NEW p \in Loggers, LogEvent(p) PROVE ChainInv'
    <2>1. CASE Refuse(p)
      <3>1. (\A q \in Loggers \ {p} : pc'[q] = pc[q] /\ job'[q] = job[q]) /\ pc'[p] = "idle"
            /\ UNCHANGED <<chain, past>>
        BY <2>1, ReturnAlone DEF Refuse, Fail
      <3>2. Linked' \subseteq Linked /\ Numbered' \subseteq Numbered
        BY <3>1 DEF Linked, Numbered
      <3> QED
        BY <3>1, <3>2, ChainKept DEF Grows
    <2>2. CASE ReadLast(p)
      BY <2>2, ReadLastChain
    <2>3. CASE ReadIndex(p)
      BY <2>3, ReadIndexChain
    <2>4. CASE Insert(p)
      <3>1. (\A q \in Loggers \ {p} : pc'[q] = pc[q] /\ job'[q] = job[q]) /\ pc'[p] = "idle"
        BY <2>4, ReturnAlone DEF Insert, Fail
      <3>2. /\ pc[p] = "insert" /\ UNCHANGED <<link, index, past>>
            /\ stored \subseteq stored' /\ stored' \subseteq stored \cup {job[p]}
        BY <2>4 DEF Insert
      <3>3. Linked' \subseteq Linked /\ Numbered' \subseteq Numbered
        BY <3>1, <3>2 DEF Linked, Numbered
      <3> QED
        BY <3>2, <3>3, ChainKept DEF Grows
    <2> QED
      BY <1>3, <2>1, <2>2, <2>3, <2>4 DEF LogEvent
  <1>4. CASE Crash
    <2>1. /\ \A p \in Loggers : pc'[p] = "idle"
          /\ UNCHANGED <<link, index, past>> /\ stored \subseteq stored'
          /\ stored' \subseteq stored \cup {job[p] : p \in {q \in Loggers : pc[q] = "insert"}}
      BY <1>4 DEF Crash
    <2>2. Linked' \subseteq Linked /\ Numbered' \subseteq Numbered
      BY <2>1 DEF Linked, Numbered
    <2> QED
      BY <2>1, <2>2, ChainKept DEF Grows
  <1>5. ASSUME NEW e \in Events, Enqueue(e) PROVE ChainInv'
    BY <1>2, <1>5 DEF Enqueue
  <1>6. ASSUME NEW p \in Callers, NEW e \in Events, Call(p, e) \/ LogInline(p, e) PROVE ChainInv'
    BY <1>1, <1>6 DEF Call, LogInline, Loggers
  <1>7. ASSUME NEW w \in Workers, Take(w) PROVE ChainInv'
    BY <1>1, <1>7 DEF Take, Loggers
  <1>8. CASE Close \/ CloseReturns \/ UNCHANGED vars
    BY <1>2, <1>8 DEF Close, CloseReturns, vars
  <1> QED
    BY <1>3, <1>4, <1>5, <1>6, <1>7, <1>8 DEF Next, HandIn

-----------------------------------------------------------------------------
(* Theorems *)

LEMMA IInvInit == Init => IInv
  <1> SUFFICES ASSUME Init PROVE IInv
    OBVIOUS
  <1>1. /\ todo = Events /\ stored = {} /\ Len(buffer) = 0 /\ ~closed
        /\ \A p \in Loggers : job[p] = None /\ pc[p] = "idle"
    BY EmptyType DEF Init
  <1>2. OneHolder
    BY <1>1, AuditAssumption DEF OneHolder
  <1>3. ChainInv
    BY <1>1 DEF ChainInv, Linked, Numbered
  <1> QED
    BY <1>1, <1>2, <1>3, TypeInit DEF IInv, Accounted, ClosedIsDrained

LEMMA IInvStep == IInv /\ [Next]_vars => IInv'
  BY TypeStep, HolderStep, ChainStep, AccountedStep, DrainedStep DEF IInv

LEMMA IInvAlways == Spec => []IInv
  BY IInvInit, IInvStep, PTL DEF Spec

\* Every reachable state is well typed: a goroutine outside LogEvent has no
\* event, one inside has one, and only callers and Close hold bufferMu.
THEOREM AuditTypeCorrect == Spec => []TypeOK
  BY IInvAlways, PTL DEF IInv

\* No event is in two hands at once, nor in hand once it is stored.
THEOREM HeldOnce == Spec => []OneHolder
  BY IInvAlways, PTL DEF IInv

\* Chain indexes leave no number out, whoever writes at the same time and
\* whatever fails.
THEOREM NoGaps == Spec => []GapFree
  <1>1. IInv => GapFree
    BY DEF IInv, ChainInv, Numbered, Ahead, GapFree
  <1> QED
    BY <1>1, IInvAlways, PTL

\* Events stored before an event's LogEvent began come before it in the
\* chain, and its link is to a last one of them.
THEOREM InOrder == Spec => []OrderKept
  <1>1. IInv => OrderKept
    <2> SUFFICES ASSUME IInv, NEW e \in stored
                 PROVE  /\ \A f \in before[e] : index[f] < index[e]
                        /\ link[e] = None => e \in blind \/ before[e] = {}
                        /\ link[e] # None =>
                               /\ link[e] \in before[e]
                               /\ \A f \in before[e] : index[f] <= index[link[e]]
      BY DEF OrderKept
    <2>1. Back(e) /\ Ahead(e)
      BY DEF IInv, ChainInv, Linked, Numbered
    <2> QED
      BY <2>1 DEF Back, Ahead
  <1> QED
    BY <1>1, IInvAlways, PTL

\* No event handed in disappears without an error or a crash.
THEOREM NoEventLost == Spec => []Accounted
  BY IInvAlways, PTL DEF IInv

\* Close leaves nothing behind in the buffer or the workers.
THEOREM CloseDrains == Spec => []ClosedIsDrained
  BY IInvAlways, PTL DEF IInv

-----------------------------------------------------------------------------
(* What is owed *)

\* LogEvent goes on by one place, or returns.
LEMMA LogEventForward ==
    ASSUME TypeOK, NEW p \in Loggers, LogEvent(p)
    PROVE  /\ UNCHANGED <<todo, buffer, closed>>
           /\ \A q \in Loggers \ {p} : pc'[q] = pc[q] /\ job'[q] = job[q]
           /\ \/ pc'[p] = "idle" /\ job'[p] = None
              \/ pc[p] = "last" /\ pc'[p] = "index" /\ job'[p] = job[p]
              \/ pc[p] = "index" /\ pc'[p] = "insert" /\ job'[p] = job[p]
  <1>1. CASE Refuse(p)
    BY <1>1, ReturnAlone DEF Refuse, Fail
  <1>2. CASE ReadLast(p)
    BY <1>2, GotoAlone DEF ReadLast
  <1>3. CASE ReadIndex(p)
    <2>1. CASE Goto(p, "insert")
      BY <1>3, <2>1, GotoAlone DEF ReadIndex
    <2>2. CASE Fail(p)
      BY <1>3, <2>2, ReturnAlone DEF ReadIndex, Fail
    <2> QED
      BY <1>3, <2>1, <2>2 DEF ReadIndex
  <1>4. CASE Insert(p)
    BY <1>4, ReturnAlone DEF Insert, Fail
  <1> QED
    BY <1>1, <1>2, <1>3, <1>4 DEF LogEvent

\* Each step of LogEvent is one less that is owed, by whoever made it.
LEMMA LogEventOwes ==
    ASSUME TypeOK, OneHolder, NEW p \in Loggers, LogEvent(p), NEW P, P \subseteq Loggers
    PROVE  /\ Owed(P)' \subseteq Owed(P)
           /\ p \in P => Owed(P)' # Owed(P)
  <1> DEFINE n == StepsLeft[pc[p]]
             e == job[p]
  <1>0. None \notin Events
    BY AuditAssumption
  <1>1. /\ buffer' = buffer
        /\ \A q \in Loggers \ {p} : pc'[q] = pc[q] /\ job'[q] = job[q]
        /\ \/ job'[p] = None
           \/ job'[p] = e /\ StepsLeft[pc'[p]] < n
    BY LogEventForward DEF StepsLeft
  <1>2. n \in 1 .. 4 /\ e \in Events /\ \A q \in Loggers : StepsLeft[pc[q]] \in 0 .. 3
    <2>1. pc[p] # "idle" /\ \A q \in Loggers : pc[q] \in Places
      BY LogEventAlone DEF TypeOK
    <2> QED
      BY <2>1, JobType DEF StepsLeft, Places
  <1> HIDE DEF n, e
  <1>3. Owed(P)' \subseteq Owed(P)
    <2> SUFFICES ASSUME NEW x \in Events \X (1 .. 4), NEW q \in P,
                        job'[q] = x[1], x[2] <= StepsLeft[pc'[q]]
                 PROVE  job[q] = x[1] /\ x[2] <= StepsLeft[pc[q]]
      BY <1>1 DEF Owed
    <2>1. CASE q # p
      BY <1>1, <2>1
    <2>2. CASE q = p
      <3>1. job'[p] = e /\ StepsLeft[pc'[p]] < n
        BY <1>0, <1>1, <2>2
      <3>2. StepsLeft[pc'[p]] \in Int
        BY <1>1, <1>2, LogEventForward DEF StepsLeft
      <3> QED
        BY <1>2, <2>2, <3>1, <3>2 DEF n, e
    <2> QED
      BY <2>1, <2>2
  <1>4. ASSUME p \in P PROVE <<e, n>> \in Owed(P) /\ <<e, n>> \notin Owed(P)'
    <2>1. <<e, n>> \in Owed(P)
      BY <1>2, <1>4 DEF Owed, n, e
    <2>2. \A i \in 1 .. Len(buffer') : buffer'[i] # e
      BY <1>1, <1>2 DEF OneHolder, e
    <2>3. \A q \in P : ~(job'[q] = e /\ n <= StepsLeft[pc'[q]])
      <3> SUFFICES ASSUME NEW q \in P, job'[q] = e, n <= StepsLeft[pc'[q]] PROVE FALSE
        OBVIOUS
      <3>1. CASE q # p
        BY <1>0, <1>1, <1>2, <3>1 DEF OneHolder, e
      <3>2. CASE q = p
        <4>1. StepsLeft[pc'[p]] \in Int
          BY <1>0, <1>2, <3>2, LogEventForward DEF StepsLeft
        <4> QED
          BY <1>0, <1>1, <1>2, <3>2, <4>1
      <3> QED
        BY <3>1, <3>2
    <2> QED
      BY <2>1, <2>2, <2>3 DEF Owed
  <1> QED
    BY <1>3, <1>4

\* So is the step by which a worker takes an event.
LEMMA TakeOwes ==
    ASSUME TypeOK, OneHolder, NEW w \in Workers, Take(w), NEW P, P \subseteq Loggers, w \in P
    PROVE  Owed(P)' \subseteq Owed(P) /\ Owed(P)' # Owed(P)
  <1> DEFINE e == Head(buffer)
  <1>1. /\ e \in Events /\ e = buffer[1] /\ 1 \in 1 .. Len(buffer)
        /\ \A i \in 1 .. Len(buffer') : i + 1 \in 1 .. Len(buffer) /\ buffer'[i] = buffer[i + 1]
    BY TailType DEF Take, TypeOK
  <1>2. /\ \A q \in Loggers \ {w} : pc'[q] = pc[q] /\ job'[q] = job[q]
        /\ pc'[w] = "last" /\ job'[w] = e
    BY StartAlone DEF Take, Loggers
  <1> HIDE DEF e
  <1>3. Owed(P)' \subseteq Owed(P)
    <2> SUFFICES ASSUME NEW x \in Owed(P)' PROVE x \in Owed(P)
      OBVIOUS
    <2>1. CASE \E i \in 1 .. Len(buffer') : buffer'[i] = x[1]
      BY <1>1, <2>1 DEF Owed
    <2>2. ASSUME NEW q \in P, job'[q] = x[1], x[2] <= StepsLeft[pc'[q]] PROVE x \in Owed(P)
      BY <1>1, <1>2, <2>2 DEF Owed
    <2> QED
      BY <2>1, <2>2 DEF Owed
  <1>4. <<e, 4>> \in Owed(P)
    BY <1>1 DEF Owed
  <1>5. <<e, 4>> \notin Owed(P)'
    <2>1. \A i \in 1 .. Len(buffer') : buffer'[i] # e
      <3> SUFFICES ASSUME NEW i \in 1 .. Len(buffer'), buffer[i + 1] = buffer[1] PROVE FALSE
        BY <1>1
      <3>1. i + 1 = 1
        BY <1>1 DEF OneHolder
      <3> QED
        BY <3>1
    <2>2. \A q \in P : job'[q] = e => q = w
      BY <1>1, <1>2 DEF OneHolder
    <2>3. StepsLeft["last"] = 3
      BY DEF StepsLeft
    <2> QED
      BY <1>2, <2>1, <2>2, <2>3 DEF Owed
  <1> QED
    BY <1>3, <1>4, <1>5

\* The other steps leave what is owed alone, or are a death.
LEMMA OthersOwe ==
    ASSUME TypeOK, NEW P, P \subseteq Loggers,
           Close \/ CloseReturns \/ Crash \/ UNCHANGED vars
    PROVE  Owed(P)' \subseteq Owed(P)
  <1>1. CASE Crash
    <2>1. Len(buffer') = 0 /\ \A q \in P : job'[q] = None
      BY <1>1, EmptyType DEF Crash
    <2>2. None \notin Events
      BY AuditAssumption
    <2> QED
      BY <2>1, <2>2 DEF Owed
  <1>2. CASE ~Crash
    BY <1>2 DEF Close, CloseReturns, vars, run, Owed
  <1> QED
    BY <1>1, <1>2

\* An event in the buffer or in work is nearer its end with every step that is
\* made for it, and never taken up again.
THEOREM WorkShrinks == Spec => OwedShrinks
  <1>1. IInv /\ [Next]_vars =>
          [todo' = todo =>
              /\ Owed(Loggers)' \subseteq Owed(Loggers)
              /\ (\E p \in Loggers : LogEvent(p) \/ (p \in Workers /\ Take(p))) =>
                    Owed(Loggers)' # Owed(Loggers)]_vars
    <2> SUFFICES ASSUME IInv, [Next]_vars, todo' = todo
                 PROVE  /\ Owed(Loggers)' \subseteq Owed(Loggers)
                        /\ (\E p \in Loggers : LogEvent(p) \/ (p \in Workers /\ Take(p))) =>
                              Owed(Loggers)' # Owed(Loggers)
      OBVIOUS
    <2>1. CASE \E p \in Loggers : LogEvent(p)
      BY <2>1, LogEventOwes DEF IInv
    <2>2. CASE \E w \in Workers : Take(w)
      BY <2>2, TakeOwes DEF IInv, Loggers
    <2>3. CASE ~(\E p \in Loggers : LogEvent(p)) /\ ~(\E w \in Workers : Take(w))
      <3>1. ~HandIn
        BY DEF HandIn, Enqueue, Call, LogInline, HandedIn
      <3>2. Close \/ CloseReturns \/ Crash \/ UNCHANGED vars
        BY <2>3, <3>1 DEF Next
      <3> QED
        BY <2>3, <3>2, OthersOwe DEF IInv
    <2> QED
      BY <2>1, <2>2, <2>3
  <1> QED
    BY <1>1, IInvAlways, PTL DEF Spec, OwedShrinks

\* While Close waits the workers come nearer to their end, whatever clients
\* still hand in.
THEOREM DrainGoesOn == Spec => DrainShrinks
  <1>1. IInv /\ [Next]_vars =>
          [closed /\ closed' =>
              /\ Owed(Workers)' \subseteq Owed(Workers)
              /\ (\E w \in Workers : LogEvent(w) \/ Take(w)) =>
                    Owed(Workers)' # Owed(Workers)]_vars
    <2> SUFFICES ASSUME IInv, [Next]_vars, closed
                 PROVE  /\ Owed(Workers)' \subseteq Owed(Workers)
                        /\ (\E w \in Workers : LogEvent(w) \/ Take(w)) =>
                              Owed(Workers)' # Owed(Workers)
      OBVIOUS
    <2>0. Workers \subseteq Loggers
      BY DEF Loggers
    <2>1. ASSUME NEW p \in Loggers, LogEvent(p)
          PROVE  /\ Owed(Workers)' \subseteq Owed(Workers)
                 /\ p \in Workers => Owed(Workers)' # Owed(Workers)
      BY <2>0, <2>1, LogEventOwes DEF IInv
    <2>2. ASSUME NEW w \in Workers, Take(w)
          PROVE  Owed(Workers)' \subseteq Owed(Workers) /\ Owed(Workers)' # Owed(Workers)
      BY <2>0, <2>2, TakeOwes DEF IInv
    <2>3. CASE HandIn
      <3>1. PICK c \in Callers, e \in Events : buffer' = buffer /\ Start(c, e)
        BY <2>3 DEF HandIn, Enqueue, Call, LogInline
      <3>2. \A w \in Workers : pc'[w] = pc[w] /\ job'[w] = job[w]
        BY <2>0, <3>1, StartAlone, AuditAssumption DEF IInv, Loggers
      <3> QED
        BY <2>1, <2>2, <3>1, <3>2, <2>0 DEF Owed
    <2>4. CASE Close \/ CloseReturns \/ Crash \/ UNCHANGED vars
      BY <2>0, <2>1, <2>2, <2>4, OthersOwe DEF IInv
    <2> QED
      BY <2>0, <2>1, <2>2, <2>3, <2>4 DEF Next
  <1> QED
    BY <1>1, IInvAlways, PTL DEF Spec, DrainShrinks
=============================================================================
