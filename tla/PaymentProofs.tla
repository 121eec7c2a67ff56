--------------------------- MODULE PaymentProofs ----------------------------
(***************************************************************************)
(* What PaymentAdapter guarantees for every topic, every number of         *)
(* workers, every capacity of the queue and any number of crashes, faults  *)
(* and expired records: no payment is lost without a trace, none is        *)
(* forwarded twice but through the gap between Check and MarkProcessing,   *)
(* and what the records and the archive say of a payment is true.          *)
(***************************************************************************)
EXTENDS PaymentAdapter, TLAPS

\* Which payload takes which way through processMessage, and what a worker
\* that is about to record its verdict has done for it.
WorkInv ==
    /\ \A p \in Payloads : output[p] > 0 => p \notin Bad
    /\ \A w \in Workers :
           /\ pc[w] \in {"dlq", "fail"} => Payload(w) \in Bad
           /\ pc[w] \in {"produce", "complete"} => Payload(w) \notin Bad
           /\ pc[w] = "complete" => output[Payload(w)] > 0
           /\ pc[w] = "fail" => dlq[Payload(w)] > 0 \/ Payload(w) \in cut

Claims(w, p) == pc[w] \in {"mark", "produce", "complete"} /\ Payload(w) = p

\* A payload that was checked by one worker at a time, and whose record did
\* not expire, belongs to one worker; from MarkProcessing on its record turns
\* the others away; and whoever will produce it is the first to do so.
Owned(p) ==
    /\ \A v, w \in Workers : Claims(v, p) /\ Claims(w, p) => v = w
    /\ \A w \in Workers : Claims(w, p) /\ pc[w] # "mark" =>
           record[p] \in {"PROCESSING", "COMPLETED"}
    /\ output[p] > 0 => record[p] \in {"PROCESSING", "COMPLETED"}
    /\ \A w \in Workers : Claims(w, p) /\ pc[w] # "complete" => output[p] = 0

OwnerInv == \A p \in Payloads \ unguarded : Owned(p)

Done(p) == p \in Bad \cup filed \cup cut \/ output[p] > 0

\* Each message of the file in hand is done or still to be read.
FileInv ==
    reading # Nil =>
        \A i \in DOMAIN Contents[reading] :
            \/ Done(Contents[reading][i])
            \/ \E j \in DOMAIN left : left[j] = Contents[reading][i]

IInv ==
    /\ TypeOK /\ WorkInv /\ VerdictBacked /\ OwnerInv /\ OutputOnce
    /\ StuckOnlyIfCut /\ NoSilentLoss /\ FileInv /\ ArchivedIsDone

-----------------------------------------------------------------------------
(* Types *)

LEMMA AppendType ==
    ASSUME NEW S, NEW q \in Seq(S), NEW e \in S
    PROVE  Append(q, e) \in Seq(S) /\ Len(Append(q, e)) = Len(q) + 1
  OBVIOUS

LEMMA TailType ==
    ASSUME NEW S, NEW q \in Seq(S), q # <<>>
    PROVE  /\ Head(q) \in S
           /\ Tail(q) \in Seq(S)
           /\ Len(q) \in Nat \ {0}
           /\ Len(Tail(q)) = Len(q) - 1
  OBVIOUS

LEMMA OneMore ==
    ASSUME NEW f \in [Payloads -> Nat], NEW p
    PROVE  [f EXCEPT ![p] = @ + 1] \in [Payloads -> Nat]
  <1>1. \A q \in Payloads : f[q] + 1 \in Nat
    OBVIOUS
  <1> QED
    BY <1>1, Zenon

LEMMA OneMoreAt ==
    ASSUME NEW f \in [Payloads -> Nat], NEW p \in Payloads, NEW q \in Payloads
    PROVE  LET g == [f EXCEPT ![p] = @ + 1]
           IN  g[q] = IF p = q THEN f[q] + 1 ELSE f[q]
  OBVIOUS

Budget == [crash : Nat, fault : Nat, expiry : Nat]

LEMMA SpendType ==
    ASSUME budget \in Budget, NEW kind \in {"crash", "fault", "expiry"}, Spend(kind)
    PROVE  budget' \in Budget
  BY DEF Spend, Budget

LEMMA FaultType ==
    ASSUME budget \in Budget, Fault \/ RedisFault
    PROVE  budget' \in Budget
  BY SpendType DEF Fault, RedisFault

\* A job that is under way has a payload.
LEMMA PayloadType ==
    ASSUME TypeOK, NEW w \in Workers, pc[w] # "idle"
    PROVE  job[w] \in Offsets /\ Payload(w) \in Payloads
  BY PaymentAssumption DEF TypeOK, Payload, Offsets

LEMMA TypeInit == Init => TypeOK
  <1> SUFFICES ASSUME Init PROVE TypeOK
    OBVIOUS
  <1>1. /\ <<>> \in Seq(Offsets) /\ <<>> \in Seq(Payloads) /\ Len(<<>>) = 0
        /\ Len(Topic) \in Nat /\ QueueSize \in Nat /\ MaxTries \in Nat \ {0}
    BY PaymentAssumption
  <1>2. budget \in [crash : Nat, fault : Nat, expiry : Nat]
    BY PaymentAssumption DEF Init
  <1>3. queue \in Seq(Offsets) /\ Len(queue) <= QueueSize /\ left \in Seq(Payloads)
    BY <1>1 DEF Init
  <1>4. /\ record \in [Payloads -> Statuses]
        /\ output \in [Payloads -> Nat] /\ dlq \in [Payloads -> Nat]
    BY DEF Init, Statuses
  <1>5. /\ job \in [Workers -> 0 .. Len(Topic)]
        /\ pc \in [Workers -> {"idle"} \cup Before \cup After]
        /\ \A w \in Workers : pc[w] = "idle"
    BY <1>1 DEF Init
  <1>6. marked \in 0 .. Len(Topic) /\ committed \in 0 .. marked /\ tries \in 0 .. MaxTries - 1
    BY <1>1 DEF Init
  <1> QED
    BY <1>2, <1>3, <1>4, <1>5, <1>6 DEF Init, TypeOK

\* The parts of TypeOK that belong to the pool.
PoolType ==
    /\ pc \in [Workers -> {"idle"} \cup Before \cup After]
    /\ job \in [Workers -> 0 .. Len(Topic)]
    /\ \A w \in Workers : pc[w] # "idle" => job[w] \in Offsets

LEMMA GotoType ==
    ASSUME TypeOK, NEW w \in Workers, pc[w] # "idle",
           NEW label \in Before \cup After, Goto(w, label)
    PROVE  PoolType'
  BY DEF TypeOK, PoolType, Goto

LEMMA FinishType ==
    ASSUME TypeOK, NEW w \in Workers, Finish(w)
    PROVE  PoolType'
  BY PaymentAssumption DEF TypeOK, PoolType, Finish

LEMMA AbandonType ==
    ASSUME TypeOK, NEW w \in Workers, pc[w] # "idle", Abandon(w)
    PROVE  PoolType' /\ cut' \subseteq Payloads
  <1>1. PoolType'
    BY FinishType DEF Abandon
  <1>2. cut \subseteq Payloads
    BY DEF TypeOK
  <1> QED
    BY <1>1, <1>2, PayloadType DEF Abandon

LEMMA RecordType ==
    ASSUME TypeOK, NEW p, NEW s \in Statuses, SetRecord(p, s)
    PROVE  record' \in [Payloads -> Statuses]
  BY DEF TypeOK, SetRecord

LEMMA ConsumeType ==
    ASSUME TypeOK, Consume \/ AutoCommit \/ Cancel \/ Leave \/ Crash
    PROVE  TypeOK'
  <1> USE DEF TypeOK
  <1>a. Len(Topic) \in Nat /\ QueueSize \in Nat \ {0} /\ MaxTries \in Nat \ {0}
    BY PaymentAssumption
  <1>b. budget \in Budget
    BY DEF Budget
  <1>1. CASE Submit
    <2>1. marked' = marked + 1 /\ marked' \in Offsets
      BY <1>1, <1>a DEF Submit, Handled, HasMessage, Offsets
    <2>2. queue' \in Seq(Offsets) /\ Len(queue') <= QueueSize
      <3>1. queue' = Append(queue, marked') /\ Len(queue) < QueueSize
        BY <1>1, <2>1 DEF Submit
      <3>2. queue \in Seq(Offsets) /\ Len(queue) \in Nat
        OBVIOUS
      <3>3. queue' \in Seq(Offsets) /\ Len(queue') = Len(queue) + 1
        BY ONLY <2>1, <3>1, <3>2, AppendType
      <3> QED
        BY <1>a, <3>1, <3>2, <3>3
    <2>3. committed' \in 0 .. marked' /\ tries' \in 0 .. MaxTries - 1 /\ session' = session
      BY <1>1, <1>a, <2>1 DEF Submit, Handled
    <2>4. marked' \in 0 .. Len(Topic)
      BY <1>a, <2>1 DEF Offsets
    <2> QED
      BY <1>1, <2>2, <2>3, <2>4 DEF Submit, Handled, topics, batch
  <1>2. CASE SubmitFull
    BY <1>2, <1>a DEF SubmitFull, pool, topics, batch
  <1>3. CASE GiveUp
    BY <1>3, <1>a DEF GiveUp, Handled, HasMessage, topics, batch, Offsets
  <1>4. CASE AutoCommit
    BY <1>4 DEF AutoCommit, pool, topics, batch
  <1>5. CASE Cancel
    <2>1. budget' \in Budget
      BY <1>5, <1>b, SpendType DEF Cancel
    <2> QED
      BY <1>5, <2>1 DEF Cancel, pool, topics, batch, Budget
  <1>6. CASE EndSession
    BY <1>6 DEF EndSession, pool, topics, batch
  <1>7. ASSUME Restart, budget' \in Budget PROVE TypeOK'
    <2>1. CutByCrash \subseteq Payloads
      <3>1. \A o \in Offsets : Topic[o] \in Payloads
        BY PaymentAssumption DEF Offsets
      <3>2. \A w \in Workers : pc[w] \in Before \cup After => Payload(w) \in Payloads
        BY PayloadType DEF Before, After
      <3> QED
        BY <3>1, <3>2 DEF CutByCrash
    <2>2. <<>> \in Seq(Offsets) /\ <<>> \in Seq(Payloads) /\ Len(<<>>) = 0
      OBVIOUS
    <2>3. PoolType'
      BY <1>7, <1>a DEF Restart, PoolType
    <2>4. /\ queue' \in Seq(Offsets) /\ Len(queue') <= QueueSize
          /\ left' \in Seq(Payloads) /\ left' = <<>> /\ ~marking'
      BY <1>7, <1>a, <2>2 DEF Restart
    <2>5. /\ marked' \in 0 .. Len(Topic) /\ committed' \in 0 .. marked'
          /\ tries' \in 0 .. MaxTries - 1 /\ session' = "running"
      BY <1>7, <1>a DEF Restart
    <2>6. cut' \subseteq Payloads /\ reading' = Nil
      BY <1>7, <2>1 DEF Restart
    <2>7. budget' \in [crash : Nat, fault : Nat, expiry : Nat]
      BY <1>7 DEF Budget
    <2> QED
      BY <1>7, <2>3, <2>4, <2>5, <2>6, <2>7 DEF Restart, topics, PoolType
  <1>8. CASE Crash
    BY <1>8, <1>7, <1>b, SpendType DEF Crash
  <1>9. CASE Exit
    BY <1>9, <1>7, <1>b DEF Exit
  <1> QED
    BY <1>1, <1>2, <1>3, <1>4, <1>5, <1>6, <1>8, <1>9 DEF Consume, Leave

LEMMA StepType ==
    ASSUME TypeOK, NEW w \in Workers, Step(w)
    PROVE  TypeOK'
  <1> USE DEF TypeOK
  <1>a. budget \in Budget
    BY DEF Budget
  <1>b. {"check", "mark", "produce", "complete", "dlq", "fail"} = Before \cup After
    BY DEF Before, After
  \* It is enough to look at the parts of the pool and at what the step wrote.
  <1>c. ASSUME PoolType', record' \in [Payloads -> Statuses],
               output' \in [Payloads -> Nat], dlq' \in [Payloads -> Nat],
               queue' \in Seq(Offsets), Len(queue') <= QueueSize,
               cut' \subseteq Payloads, unguarded' \subseteq Payloads, budget' \in Budget,
               UNCHANGED <<kafka, batch, dropped>>
        PROVE  TypeOK'
    BY <1>c DEF PoolType, Budget, kafka, batch
  <1>1. CASE Take(w)
    <2>1. /\ Head(queue) \in Offsets /\ queue' \in Seq(Offsets)
          /\ Len(queue') <= QueueSize
      <3>1. queue \in Seq(Offsets) /\ queue # <<>> /\ queue' = Tail(queue)
        BY <1>1 DEF Take
      <3>2. /\ Head(queue) \in Offsets /\ Tail(queue) \in Seq(Offsets)
            /\ Len(queue) \in Nat /\ Len(Tail(queue)) = Len(queue) - 1
        BY ONLY <3>1, TailType
      <3> QED
        BY <3>1, <3>2, PaymentAssumption
    <2>2. PoolType'
      <3>0. Head(queue) \in 0 .. Len(Topic)
        BY <2>1, PaymentAssumption DEF Offsets
      <3>1. job' \in [Workers -> 0 .. Len(Topic)] /\ job'[w] \in Offsets
        BY <1>1, <2>1, <3>0 DEF Take
      <3>2. pc' \in [Workers -> {"idle"} \cup Before \cup After]
        BY <1>1 DEF Take, Before
      <3>3. \A v \in Workers \ {w} : pc'[v] = pc[v] /\ job'[v] = job[v]
        BY <1>1 DEF Take
      <3> QED
        BY <3>1, <3>2, <3>3 DEF PoolType
    <2> QED
      BY <1>1, <1>a, <1>c, <2>1, <2>2 DEF Take, topics
  <1>2. CASE Check(w)
    <2>1. PoolType'
      BY <1>2, <1>b, FinishType, GotoType DEF Check
    <2>2. unguarded' \subseteq Payloads
      <3>1. Payload(w) \in Payloads
        BY <1>2, PayloadType DEF Check
      <3>2. unguarded' \subseteq unguarded \cup {Payload(w)}
        BY <1>2 DEF Check
      <3> QED
        BY <3>1, <3>2
    <2> QED
      BY <1>2, <1>a, <1>c, <2>1, <2>2 DEF Check, topics
  <1>3. CASE CheckFails(w)
    BY <1>3, <1>a, <1>c, AbandonType, FaultType DEF CheckFails, topics
  <1>4. CASE MarkProcessing(w)
    <2>1. PoolType'
      BY <1>4, <1>b, GotoType DEF MarkProcessing
    <2>2. record' \in [Payloads -> Statuses]
      BY <1>4, RecordType DEF MarkProcessing, Statuses
    <2> QED
      BY <1>4, <1>a, <1>c, <2>1, <2>2 DEF MarkProcessing, topics
  <1>5. CASE Produce(w)
    <2>1. PoolType'
      BY <1>5, <1>b, GotoType DEF Produce
    <2>2. output' \in [Payloads -> Nat]
      BY <1>5, OneMore DEF Produce
    <2> QED
      BY <1>5, <1>a, <1>c, <2>1, <2>2 DEF Produce
  <1>6. CASE ProduceFails(w)
    <2>1. PoolType' /\ cut' \subseteq Payloads
      BY <1>6, AbandonType DEF ProduceFails
    <2>2. output' \in [Payloads -> Nat]
      <3>1. output' = output \/ output' = [output EXCEPT ![Payload(w)] = @ + 1]
        BY <1>6 DEF ProduceFails
      <3>2. output \in [Payloads -> Nat]
        OBVIOUS
      <3> QED
        BY ONLY <3>1, <3>2, OneMore
    <2>3. budget' \in Budget
      BY <1>6, <1>a, FaultType DEF ProduceFails
    <2> QED
      BY <1>6, <1>c, <2>1, <2>2, <2>3 DEF ProduceFails
  <1>7. CASE Panic(w)
    BY <1>7, <1>a, <1>c, AbandonType, FaultType DEF Panic, topics
  <1>8. CASE SendToDLQ(w)
    <2>1. PoolType'
      BY <1>8, <1>b, GotoType DEF SendToDLQ
    <2>2. dlq' \in [Payloads -> Nat]
      <3>1. dlq' = dlq \/ dlq' = [dlq EXCEPT ![Payload(w)] = @ + 1]
        BY <1>8 DEF SendToDLQ
      <3>2. dlq \in [Payloads -> Nat]
        OBVIOUS
      <3> QED
        BY ONLY <3>1, <3>2, OneMore
    <2>3. cut' \subseteq Payloads
      BY <1>8, PayloadType DEF SendToDLQ
    <2>4. budget' \in Budget
      BY <1>8, <1>a, FaultType DEF SendToDLQ
    <2> QED
      BY <1>8, <1>c, <2>1, <2>2, <2>3, <2>4 DEF SendToDLQ
  <1>9. CASE MarkDone(w)
    <2>1. PoolType'
      BY <1>9, FinishType DEF MarkDone
    <2>2. record' \in [Payloads -> Statuses]
      BY <1>9, RecordType DEF MarkDone, Verdict, Statuses
    <2> QED
      BY <1>9, <1>a, <1>c, <2>1, <2>2 DEF MarkDone, topics
  <1>10. CASE MarkFails(w)
    <2>1. PoolType' /\ cut' \subseteq Payloads
      BY <1>10, AbandonType DEF MarkFails
    <2>2. record' \in [Payloads -> Statuses]
      BY <1>10, RecordType DEF MarkFails, Verdict, Statuses
    <2>3. budget' \in Budget
      BY <1>10, <1>a, FaultType DEF MarkFails
    <2> QED
      BY <1>10, <1>c, <2>1, <2>2, <2>3 DEF MarkFails, topics
  <1> QED
    BY <1>1, <1>2, <1>3, <1>4, <1>5, <1>6, <1>7, <1>8, <1>9, <1>10 DEF Step

LEMMA BatchType ==
    ASSUME TypeOK, Batch \/ \E p \in Payloads : Expire(p)
    PROVE  TypeOK'
  <1> USE DEF TypeOK
  <1>a. budget \in Budget
    BY DEF Budget
  <1>b. left # <<>> => Head(left) \in Payloads /\ Tail(left) \in Seq(Payloads)
    <2>1. left \in Seq(Payloads)
      OBVIOUS
    <2> QED
      BY ONLY <2>1, TailType
  <1>c. ASSUME record' \in [Payloads -> Statuses], inbox' \subseteq Files, archived' \subseteq Files,
               reading' \in Files \cup {Nil}, left' \in Seq(Payloads),
               reading' = Nil => left' = <<>>,
               marking' \in BOOLEAN, marking' => left' # <<>>,
               filed' \subseteq Payloads, cut' \subseteq Payloads, unguarded' \subseteq Payloads,
               budget' \in Budget,
               UNCHANGED <<kafka, pool, topics, dropped>>
        PROVE  TypeOK'
    BY <1>c DEF Budget, kafka, pool, topics
  <1>1. ASSUME NEW f \in Files, OpenFile(f) PROVE TypeOK'
    <2>1. Contents[f] \in Seq(Payloads)
      BY PaymentAssumption
    <2>2. ~marking' /\ reading' # Nil
      BY <1>1, PaymentAssumption DEF OpenFile
    <2> QED
      BY <1>1, <1>a, <1>c, <2>1, <2>2 DEF OpenFile
  <1>2. ASSUME NEW f \in Files, RejectFile(f) PROVE TypeOK'
    BY <1>2, <1>a, <1>c, FaultType DEF RejectFile
  <1>3. CASE BatchCheck
    BY <1>3, <1>a, <1>b, <1>c DEF BatchCheck, NextMessage
  <1>4. CASE BatchMark
    <2>1. record' \in [Payloads -> Statuses]
      BY <1>4, RecordType DEF BatchMark, Statuses
    <2> QED
      BY <1>4, <1>a, <1>b, <1>c, <2>1 DEF BatchMark, NextMessage
  <1>5. CASE BatchRedisFails
    <2>1. record' \in [Payloads -> Statuses]
      BY <1>5, RecordType DEF BatchRedisFails, Statuses
    <2>2. budget' \in Budget
      BY <1>5, <1>a, FaultType DEF BatchRedisFails
    <2> QED
      BY <1>5, <1>b, <1>c, <2>1, <2>2 DEF BatchRedisFails, NextMessage
  <1>6. CASE Archive
    BY <1>6, <1>a, <1>c DEF Archive
  <1>7. CASE ArchiveFails
    BY <1>7, <1>a, <1>c, FaultType DEF ArchiveFails
  <1>8. ASSUME NEW p \in Payloads, Expire(p) PROVE TypeOK'
    <2>1. record' \in [Payloads -> Statuses]
      BY <1>8, RecordType DEF Expire, Statuses
    <2>2. budget' \in Budget
      BY <1>8, <1>a, SpendType DEF Expire
    <2> QED
      BY <1>8, <1>c, <2>1, <2>2 DEF Expire, batch
  <1> QED
    BY <1>1, <1>2, <1>3, <1>4, <1>5, <1>6, <1>7, <1>8 DEF Batch

LEMMA TypeStep == TypeOK /\ [Next]_vars => TypeOK'
  <1>1. TypeOK /\ UNCHANGED vars => TypeOK'
    BY DEF TypeOK, vars, kafka, pool, topics, batch
  <1> QED
    BY <1>1, ConsumeType, StepType, BatchType DEF Next

\* In every reachable state every variable has its type.
THEOREM TypeCorrect == Spec => []TypeOK
  BY TypeInit, TypeStep, PTL DEF Spec

-----------------------------------------------------------------------------
(* What a step changes, payload by payload and worker by worker *)

\* The other workers stay where they are.
Others(w) ==
    \A v \in Workers \ {w} :
        pc'[v] = pc[v] /\ job'[v] = job[v] /\ Payload(v)' = Payload(v)

LEMMA GotoAt ==
    ASSUME TypeOK, NEW w \in Workers, NEW label, Goto(w, label)
    PROVE  /\ pc'[w] = label /\ job'[w] = job[w] /\ Payload(w)' = Payload(w)
           /\ Others(w)
  BY DEF TypeOK, Goto, Others, Payload

LEMMA FinishAt ==
    ASSUME TypeOK, NEW w \in Workers, Finish(w)
    PROVE  pc'[w] = "idle" /\ Others(w)
  BY DEF TypeOK, Finish, Others, Payload

LEMMA RecordAt ==
    ASSUME TypeOK, NEW p \in Payloads, NEW s, SetRecord(p, s)
    PROVE  record'[p] = s /\ \A q \in Payloads \ {p} : record'[q] = record[q]
  BY DEF TypeOK, SetRecord

\* A counter per payload that grew by one at p.
LEMMA RaiseAt ==
    ASSUME NEW f \in [Payloads -> Nat], NEW g, NEW p \in Payloads,
           g = [f EXCEPT ![p] = @ + 1]
    PROVE  g[p] = f[p] + 1 /\ \A q \in Payloads \ {p} : g[q] = f[q]
  OBVIOUS

\* The ways a worker's step can go, told by their effect on its payload.
Skips(w) ==
    /\ pc[w] = "check" /\ pc'[w] = "idle"
    /\ record[Payload(w)] \in {"COMPLETED", "PROCESSING"}
    /\ UNCHANGED <<record, output, dlq, cut, unguarded>>
Claim(w) ==
    /\ pc[w] = "check" /\ pc'[w] = "mark"
    /\ record[Payload(w)] \in {"NOT_FOUND", "FAILED"}
    /\ \A v \in Workers : pc[v] = "mark" /\ Payload(v) = Payload(w) => Payload(w) \in unguarded'
    /\ unguarded \subseteq unguarded'
    /\ UNCHANGED <<record, output, dlq, cut>>
Marks(w) ==
    /\ pc[w] = "mark"
    /\ pc'[w] = IF Payload(w) \in Bad THEN "dlq" ELSE "produce"
    /\ record'[Payload(w)] = "PROCESSING"
    /\ \A q \in Payloads \ {Payload(w)} : record'[q] = record[q]
    /\ UNCHANGED <<output, dlq, cut, unguarded>>
Forwards(w) ==
    /\ pc[w] = "produce" /\ pc'[w] = "complete"
    /\ output'[Payload(w)] = output[Payload(w)] + 1
    /\ \A q \in Payloads \ {Payload(w)} : output'[q] = output[q]
    /\ UNCHANGED <<record, dlq, cut, unguarded>>
Isolates(w) ==
    /\ pc[w] = "dlq" /\ pc'[w] = "fail"
    /\ \A q \in Payloads : dlq'[q] >= dlq[q]
    /\ dlq'[Payload(w)] > 0 \/ Payload(w) \in cut'
    /\ cut \subseteq cut'
    /\ UNCHANGED <<record, output, unguarded>>
Records(w) ==
    /\ pc[w] \in {"complete", "fail"} /\ pc'[w] = "idle"
    /\ record'[Payload(w)] = Verdict(w)
    /\ \A q \in Payloads \ {Payload(w)} : record'[q] = record[q]
    /\ UNCHANGED <<output, dlq, cut, unguarded>>
\* An error: the payload is cut short, and what the step was about to do may
\* have been done.
Fails(w) ==
    /\ pc[w] \in Before \cup After /\ pc'[w] = "idle"
    /\ cut' = cut \cup {Payload(w)}
    /\ \A q \in Payloads \ {Payload(w)} : record'[q] = record[q] /\ output'[q] = output[q]
    /\ \/ record'[Payload(w)] = record[Payload(w)]
       \/ pc[w] = "mark" /\ record'[Payload(w)] = "PROCESSING"
       \/ pc[w] \in {"complete", "fail"} /\ record'[Payload(w)] = Verdict(w)
    /\ \/ output'[Payload(w)] = output[Payload(w)]
       \/ pc[w] = "produce" /\ output'[Payload(w)] = output[Payload(w)] + 1
    /\ UNCHANGED <<dlq, unguarded>>

Handles(w) ==
    /\ pc[w] # "idle"
    /\ Payload(w) \in Payloads
    /\ Others(w)
    /\ pc'[w] # "idle" => job'[w] = job[w] /\ Payload(w)' = Payload(w)
    /\ \/ Skips(w) \/ Claim(w) \/ Marks(w) \/ Forwards(w)
       \/ Isolates(w) \/ Records(w) \/ Fails(w)
    /\ UNCHANGED <<kafka, queue, batch, dropped>>

LEMMA StepEffect ==
    ASSUME TypeOK, NEW w \in Workers, Step(w)
    PROVE  Take(w) \/ Handles(w)
  <1>a. pc[w] # "idle" => Payload(w) \in Payloads
    BY PayloadType
  <1>b. /\ output \in [Payloads -> Nat] /\ dlq \in [Payloads -> Nat]
        /\ record \in [Payloads -> Statuses]
    BY DEF TypeOK
  <1>c. Abandon(w) => pc'[w] = "idle" /\ Others(w) /\ cut' = cut \cup {Payload(w)}
    BY FinishAt DEF Abandon
  <1>2. CASE Check(w)
    <2>1. CASE /\ record[Payload(w)] \in {"COMPLETED", "PROCESSING"}
               /\ Finish(w) /\ UNCHANGED unguarded
      <3>1. Skips(w)
        BY <1>2, <2>1, FinishAt DEF Check, Skips, topics
      <3> QED
        BY <1>2, <2>1, <3>1, <1>a, FinishAt DEF Check, Handles
    <2>2. CASE /\ record[Payload(w)] \in {"NOT_FOUND", "FAILED"}
               /\ Goto(w, "mark")
               /\ unguarded' = unguarded \cup
                    {Payload(v) : v \in {u \in Workers : pc[u] = "mark" /\ Payload(u) = Payload(w)}}
      <3>1. Claim(w)
        BY <1>2, <2>2, GotoAt DEF Check, Claim, topics
      <3> QED
        BY <1>2, <2>2, <3>1, <1>a, GotoAt DEF Check, Handles
    <2> QED
      BY <1>2, <2>1, <2>2 DEF Check
  <1>3. CASE CheckFails(w)
    BY <1>3, <1>a, <1>c DEF CheckFails, Handles, Fails, topics, Before
  <1>4. CASE MarkProcessing(w)
    BY <1>4, <1>a, GotoAt, RecordAt DEF MarkProcessing, Handles, Marks, topics
  <1>5. CASE Produce(w)
    BY <1>5, <1>a, <1>b, GotoAt, RaiseAt DEF Produce, Handles, Forwards
  <1>6. CASE ProduceFails(w)
    BY <1>6, <1>a, <1>b, <1>c, RaiseAt DEF ProduceFails, Handles, Fails, After
  <1>7. CASE Panic(w)
    BY <1>7, <1>a, <1>c DEF Panic, Handles, Fails, topics, After
  <1>8. CASE SendToDLQ(w)
    <2>1. pc'[w] = "fail" /\ job'[w] = job[w] /\ Payload(w)' = Payload(w) /\ Others(w)
      BY <1>8, GotoAt DEF SendToDLQ
    <2>2. /\ \A q \in Payloads : dlq'[q] >= dlq[q]
          /\ dlq'[Payload(w)] > 0 \/ Payload(w) \in cut'
      <3>1. CASE dlq' = dlq /\ Payload(w) \in cut'
        BY <3>1, <1>b
      <3>2. CASE dlq' = [dlq EXCEPT ![Payload(w)] = @ + 1]
        BY <3>2, <1>8, <1>a, <1>b, RaiseAt DEF SendToDLQ
      <3> QED
        BY <1>8, <3>1, <3>2 DEF SendToDLQ
    <2> QED
      BY <1>8, <1>a, <2>1, <2>2 DEF SendToDLQ, Handles, Isolates
  <1>9. CASE MarkDone(w)
    BY <1>9, <1>a, FinishAt, RecordAt DEF MarkDone, Handles, Records, topics
  <1>10. CASE MarkFails(w)
    <2>1. \/ record' = record
          \/ pc[w] = "mark" /\ SetRecord(Payload(w), "PROCESSING")
          \/ pc[w] \in {"complete", "fail"} /\ SetRecord(Payload(w), Verdict(w))
      BY <1>10 DEF MarkFails
    <2>2. /\ \A q \in Payloads \ {Payload(w)} : record'[q] = record[q]
          /\ \/ record'[Payload(w)] = record[Payload(w)]
             \/ pc[w] = "mark" /\ record'[Payload(w)] = "PROCESSING"
             \/ pc[w] \in {"complete", "fail"} /\ record'[Payload(w)] = Verdict(w)
      BY <1>10, <1>a, <2>1, RecordAt DEF MarkFails
    <2> QED
      BY <1>10, <1>a, <1>c, <2>2 DEF MarkFails, Handles, Fails, topics, Before, After
  <1> QED
    BY <1>2, <1>3, <1>4, <1>5, <1>6, <1>7, <1>8, <1>9, <1>10 DEF Step

\* The steps of everybody else.
Quiet == UNCHANGED <<job, pc, record, topics, batch, cut, unguarded>>
Reads ==
    /\ \A p \in Payloads : record'[p] = record[p] \/ (record'[p] = "COMPLETED" /\ p \in filed')
    /\ filed \subseteq filed' /\ cut \subseteq cut'
    /\ UNCHANGED <<kafka, pool, topics, dropped, unguarded>>
Expires ==
    \E p \in Payloads :
        /\ record'[p] = "NOT_FOUND"
        /\ \A q \in Payloads \ {p} : record'[q] = record[q]
        /\ unguarded' = unguarded \cup {p}
        /\ UNCHANGED <<kafka, pool, topics, batch, dropped, cut>>

LEMMA BatchEffect == TypeOK /\ Batch => Reads
  <1> SUFFICES ASSUME TypeOK, Batch PROVE Reads
    OBVIOUS
  <1>a. left # <<>> => Head(left) \in Payloads
    <2>1. left \in Seq(Payloads)
      BY DEF TypeOK
    <2> QED
      BY ONLY <2>1, TailType
  <1>b. left = <<>> => ~marking
    BY DEF TypeOK
  <1>1. ASSUME NEW f \in Files, OpenFile(f) \/ RejectFile(f) PROVE Reads
    BY <1>1 DEF OpenFile, RejectFile, Reads
  <1>2. CASE BatchCheck
    BY <1>2 DEF BatchCheck, Reads
  <1>3. CASE BatchMark
    BY <1>3, <1>a, <1>b, RecordAt DEF BatchMark, Reads
  <1>4. CASE BatchRedisFails
    BY <1>4, <1>a, RecordAt DEF BatchRedisFails, Reads
  <1>5. CASE Archive \/ ArchiveFails
    BY <1>5 DEF Archive, ArchiveFails, Reads
  <1> QED
    BY <1>1, <1>2, <1>3, <1>4, <1>5 DEF Batch

LEMMA NextEffect ==
    ASSUME TypeOK, [Next]_vars
    PROVE  \/ \E w \in Workers : Take(w) \/ Handles(w)
           \/ Reads \/ Expires \/ Restart \/ Quiet
  <1>1. CASE Consume
    BY <1>1 DEF Consume, Submit, SubmitFull, GiveUp, Handled, Quiet, pool
  <1>2. CASE AutoCommit \/ Cancel \/ EndSession
    BY <1>2 DEF AutoCommit, Cancel, EndSession, Quiet, pool
  <1>3. CASE Crash \/ Exit
    BY <1>3 DEF Crash, Exit
  <1>4. CASE \E w \in Workers : Step(w)
    BY <1>4, StepEffect
  <1>5. CASE Batch
    BY <1>5, BatchEffect
  <1>6. ASSUME NEW p \in Payloads, Expire(p) PROVE Expires
    BY <1>6, RecordAt DEF Expire, Expires
  <1>7. CASE UNCHANGED vars
    BY <1>7 DEF vars, pool, Quiet
  <1> QED
    BY <1>1, <1>2, <1>3, <1>4, <1>5, <1>6, <1>7 DEF Next, Leave

LEMMA TakeEffect ==
    ASSUME TypeOK, NEW w \in Workers, Take(w)
    PROVE  /\ pc[w] = "idle" /\ pc'[w] = "check" /\ Others(w)
           /\ UNCHANGED <<record, topics, batch, cut, unguarded>>
  BY DEF Take, TypeOK, Others, Payload

-----------------------------------------------------------------------------
(* Records tell the truth *)

LEMMA WorkStep == TypeOK /\ WorkInv /\ [Next]_vars => WorkInv'
  <1> SUFFICES ASSUME TypeOK, WorkInv, [Next]_vars PROVE WorkInv'
    OBVIOUS
  <1>a. \A q \in Payloads :
            output[q] \in Nat /\ dlq[q] \in Nat /\ output'[q] \in Nat /\ dlq'[q] \in Nat
    BY TypeStep DEF TypeOK
  <1>1. ASSUME NEW w \in Workers, Take(w) PROVE WorkInv'
    BY <1>1, TakeEffect DEF WorkInv, Others, topics
  <1>2. ASSUME NEW w \in Workers, Handles(w) PROVE WorkInv'
    <2> DEFINE p == Payload(w)
    <2>0. p \in Payloads
      BY <1>2 DEF Handles
    <2>1. \A q \in Payloads : output'[q] > 0 => q \notin Bad
      BY <1>2, <1>a, <2>0 DEF WorkInv, Handles, Skips, Claim, Marks, Forwards, Isolates, Records, Fails
    <2>2. /\ \A q \in Payloads : output'[q] >= output[q] /\ dlq'[q] >= dlq[q]
          /\ cut \subseteq cut'
      BY <1>2, <1>a, <2>0 DEF Handles, Skips, Claim, Marks, Forwards, Isolates, Records, Fails
    <2>3. ASSUME NEW v \in Workers \ {w}
          PROVE  /\ pc'[v] \in {"dlq", "fail"} => Payload(v)' \in Bad
                 /\ pc'[v] \in {"produce", "complete"} => Payload(v)' \notin Bad
                 /\ pc'[v] = "complete" => output'[Payload(v)'] > 0
                 /\ pc'[v] = "fail" => dlq'[Payload(v)'] > 0 \/ Payload(v)' \in cut'
      <3>1. pc'[v] = pc[v] /\ Payload(v)' = Payload(v)
        BY <1>2 DEF Handles, Others
      <3>2. pc[v] # "idle" => Payload(v) \in Payloads
        BY PayloadType
      <3> QED
        BY <1>a, <2>2, <3>1, <3>2 DEF WorkInv
    <2>4. /\ pc'[w] \in {"dlq", "fail"} => Payload(w)' \in Bad
          /\ pc'[w] \in {"produce", "complete"} => Payload(w)' \notin Bad
          /\ pc'[w] = "complete" => output'[Payload(w)'] > 0
          /\ pc'[w] = "fail" => dlq'[Payload(w)'] > 0 \/ Payload(w)' \in cut'
      BY <1>2, <1>a, <2>0 DEF WorkInv, Handles, Skips, Claim, Marks, Forwards, Isolates, Records, Fails
    <2> QED
      BY <2>1, <2>3, <2>4 DEF WorkInv
  <1>3. CASE Reads
    BY <1>3 DEF Reads, WorkInv, pool, topics, Payload
  <1>4. CASE Expires
    BY <1>4 DEF Expires, WorkInv, pool, topics, batch, Payload
  <1>5. CASE Restart
    BY <1>5 DEF Restart, WorkInv, topics, Payload
  <1>6. CASE Quiet
    BY <1>6 DEF Quiet, WorkInv, topics, Payload
  <1> QED
    BY <1>1, <1>2, <1>3, <1>4, <1>5, <1>6, NextEffect

LEMMA BackedStep == TypeOK /\ WorkInv /\ VerdictBacked /\ [Next]_vars => VerdictBacked'
  <1> SUFFICES ASSUME TypeOK, WorkInv, VerdictBacked, [Next]_vars PROVE VerdictBacked'
    OBVIOUS
  <1>a. \A q \in Payloads :
            output[q] \in Nat /\ dlq[q] \in Nat /\ output'[q] \in Nat /\ dlq'[q] \in Nat
    BY TypeStep DEF TypeOK
  <1>1. ASSUME NEW w \in Workers, Take(w) PROVE VerdictBacked'
    BY <1>1, TakeEffect DEF VerdictBacked, topics, batch
  <1>2. ASSUME NEW w \in Workers, Handles(w) PROVE VerdictBacked'
    <2>1. ASSUME NEW q \in Payloads
          PROVE  /\ record'[q] = "COMPLETED" => output'[q] > 0 \/ q \in filed'
                 /\ record'[q] = "FAILED" => dlq'[q] > 0 \/ q \in cut'
      <3>1. /\ output'[q] >= output[q] /\ dlq'[q] >= dlq[q] /\ filed' = filed
            /\ cut \subseteq cut'
        BY <1>2, <1>a DEF Handles, batch, Skips, Claim, Marks, Forwards, Isolates, Records, Fails
      <3>2. \/ record'[q] \in {record[q], "PROCESSING"}
            \/ q = Payload(w) /\ pc[w] \in {"complete", "fail"} /\ record'[q] = Verdict(w)
        BY <1>2 DEF Handles, Skips, Claim, Marks, Forwards, Isolates, Records, Fails
      <3> QED
        BY <1>a, <3>1, <3>2 DEF VerdictBacked, WorkInv, Verdict
    <2> QED
      BY <2>1 DEF VerdictBacked
  <1>3. CASE Reads
    BY <1>3 DEF Reads, VerdictBacked, topics
  <1>4. CASE Expires
    BY <1>4 DEF Expires, VerdictBacked, topics, batch
  <1>5. CASE Restart
    BY <1>5 DEF Restart, VerdictBacked, topics, batch
  <1>6. CASE Quiet
    BY <1>6 DEF Quiet, VerdictBacked, topics, batch
  <1> QED
    BY <1>1, <1>2, <1>3, <1>4, <1>5, <1>6, NextEffect

-----------------------------------------------------------------------------
(* One worker at a time *)

\* A worker that handles another payload, or a batch that completes this one,
\* changes nothing.
LEMMA OwnedKept ==
    ASSUME NEW p \in Payloads, Owned(p),
           \A w \in Workers : Claims(w, p)' => Claims(w, p) /\ pc'[w] = pc[w],
           output'[p] = output[p],
           record'[p] = record[p] \/ record'[p] \in {"PROCESSING", "COMPLETED"}
    PROVE  Owned(p)'
  BY DEF Owned

LEMMA OwnerAt ==
    ASSUME TypeOK, WorkInv, OwnerInv, OutputOnce, [Next]_vars,
           NEW p \in Payloads, p \notin unguarded'
    PROVE  Owned(p)' /\ output'[p] <= 1
  <1>a. unguarded \subseteq unguarded'
    <2>1. CASE \E w \in Workers : Take(w) \/ Handles(w)
      BY <2>1, TakeEffect DEF Handles, Skips, Claim, Marks, Forwards, Isolates, Records, Fails
    <2>2. CASE Reads \/ Expires \/ Restart \/ Quiet
      BY <2>2 DEF Reads, Expires, Restart, Quiet
    <2> QED
      BY <2>1, <2>2, NextEffect
  <1>b. Owned(p) /\ output[p] \in Nat /\ output[p] <= 1
    BY <1>a DEF OwnerInv, OutputOnce, TypeOK
  <1>1. ASSUME NEW w \in Workers, Take(w) PROVE Owned(p)' /\ output'[p] <= 1
    <2>1. \A v \in Workers : Claims(v, p)' => Claims(v, p) /\ pc'[v] = pc[v]
      BY <1>1, TakeEffect DEF Claims, Others
    <2> QED
      BY <1>1, <1>b, <2>1, TakeEffect, OwnedKept DEF topics
  <1>2. ASSUME NEW w \in Workers, Handles(w) PROVE Owned(p)' /\ output'[p] <= 1
    <2>a. \A v \in Workers \ {w} : (Claims(v, p)' <=> Claims(v, p)) /\ pc'[v] = pc[v]
      BY <1>2 DEF Handles, Others, Claims
    <2>b. pc'[w] # "idle" => Payload(w)' = Payload(w)
      BY <1>2 DEF Handles
    <2>1. CASE Payload(w) # p
      <3>1. ~Claims(w, p)'
        BY <2>1, <2>b DEF Claims
      <3>2. output'[p] = output[p] /\ record'[p] = record[p]
        BY <1>2, <2>1 DEF Handles, Skips, Claim, Marks, Forwards, Isolates, Records, Fails
      <3> QED
        BY <1>b, <2>a, <3>1, <3>2, OwnedKept
    <2>2. CASE Payload(w) = p /\ pc'[w] \in {"idle", "dlq", "fail"} /\ output'[p] = output[p]
      <3>1. ~Claims(w, p)'
        BY <2>2 DEF Claims
      <3>2. record'[p] = record[p] \/ record'[p] \in {"PROCESSING", "COMPLETED"} \/ pc[w] = "fail"
        BY <1>2, <2>2 DEF Handles, Skips, Claim, Marks, Forwards, Isolates, Records, Fails, Verdict
      <3>3. CASE pc[w] # "fail"
        BY <1>b, <2>2, <2>a, <3>1, <3>2, <3>3, OwnedKept
      <3>4. CASE pc[w] = "fail"
        <4>1. p \in Bad
          BY <2>2, <3>4 DEF WorkInv
        <4>2. output[p] = 0 /\ \A v \in Workers : Claims(v, p) => pc[v] = "mark"
          BY <4>1, <1>b DEF WorkInv, Claims
        <4> QED
          BY <1>b, <2>2, <2>a, <3>1, <4>2 DEF Owned
      <3> QED
        BY <3>3, <3>4
    <2>3. CASE Payload(w) = p /\ Claim(w)
      <3>1. \A v \in Workers : ~Claims(v, p)
        BY <1>b, <2>3 DEF Claim, Owned, Claims
      <3>2. output[p] = 0
        BY <1>b, <2>3 DEF Claim, Owned
      <3>3. output'[p] = 0 /\ pc'[w] = "mark"
        BY <2>3, <3>2 DEF Claim
      <3> QED
        BY <2>a, <3>1, <3>3 DEF Owned
    <2>4. CASE Payload(w) = p /\ Marks(w) /\ p \notin Bad
      <3>1. Claims(w, p) /\ pc[w] = "mark" /\ pc'[w] = "produce"
        BY <2>4 DEF Marks, Claims
      <3>2. output'[p] = output[p] /\ record'[p] = "PROCESSING"
        BY <2>4 DEF Marks
      <3> QED
        BY <1>b, <2>a, <3>1, <3>2 DEF Owned
    <2>5. CASE Payload(w) = p /\ pc[w] = "produce" /\ output'[p] = output[p] + 1
      <3>1. Claims(w, p) /\ output[p] = 0 /\ record[p] \in {"PROCESSING", "COMPLETED"}
        BY <1>b, <2>5 DEF Claims, Owned
      <3>2. record'[p] = record[p] /\ pc'[w] \in {"idle", "complete"}
        BY <1>2, <2>5 DEF Handles, Skips, Claim, Marks, Forwards, Isolates, Records, Fails
      <3>3. \A v \in Workers \ {w} : ~Claims(v, p)'
        BY <1>b, <2>a, <3>1 DEF Owned
      <3>4. Claims(w, p)' => pc'[w] = "complete"
        BY <3>2 DEF Claims
      <3> QED
        BY <2>5, <3>1, <3>2, <3>3, <3>4 DEF Owned
    <2> QED
      BY <1>2, <2>1, <2>2, <2>3, <2>4, <2>5
         DEF Handles, Skips, Claim, Marks, Forwards, Isolates, Records, Fails
  <1>3. CASE Reads
    <2>1. \A v \in Workers : Claims(v, p)' => Claims(v, p) /\ pc'[v] = pc[v]
      BY <1>3 DEF Reads, pool, Claims, Payload
    <2> QED
      BY <1>3, <1>b, <2>1, OwnedKept DEF Reads, topics
  <1>4. CASE Expires
    <2>1. \A v \in Workers : Claims(v, p)' => Claims(v, p) /\ pc'[v] = pc[v]
      BY <1>4 DEF Expires, pool, Claims, Payload
    <2>2. output'[p] = output[p] /\ record'[p] = record[p]
      BY <1>4 DEF Expires, topics
    <2> QED
      BY <1>b, <2>1, <2>2, OwnedKept
  <1>5. CASE Restart
    <2>1. \A v \in Workers : ~Claims(v, p)'
      BY <1>5 DEF Restart, Claims
    <2> QED
      BY <1>5, <1>b, <2>1, OwnedKept DEF Restart, topics
  <1>6. CASE Quiet
    <2>1. \A v \in Workers : Claims(v, p)' => Claims(v, p) /\ pc'[v] = pc[v]
      BY <1>6 DEF Quiet, Claims, Payload
    <2> QED
      BY <1>6, <1>b, <2>1, OwnedKept DEF Quiet, topics
  <1> QED
    BY <1>1, <1>2, <1>3, <1>4, <1>5, <1>6, NextEffect

LEMMA OwnerStep ==
    TypeOK /\ WorkInv /\ OwnerInv /\ OutputOnce /\ [Next]_vars => OwnerInv' /\ OutputOnce'
  <1> SUFFICES ASSUME TypeOK, WorkInv, OwnerInv, OutputOnce, [Next]_vars
               PROVE  OwnerInv' /\ OutputOnce'
    OBVIOUS
  <1>1. \A p \in Payloads \ unguarded' : Owned(p)' /\ output'[p] <= 1
    BY OwnerAt
  <1>2. \A p \in Payloads : output'[p] \in Nat
    BY TypeStep DEF TypeOK
  <1> QED
    BY <1>1, <1>2 DEF OwnerInv, OutputOnce

-----------------------------------------------------------------------------
(* Nothing is stuck or lost without a reason *)

LEMMA StuckStep == TypeOK /\ StuckOnlyIfCut /\ [Next]_vars => StuckOnlyIfCut'
  <1> SUFFICES ASSUME TypeOK, StuckOnlyIfCut, [Next]_vars,
                      NEW p \in Payloads, record'[p] = "PROCESSING"
               PROVE  InWork(p)' \/ p \in cut'
    BY DEF StuckOnlyIfCut
  <1> USE DEF After
  <1>a. record[p] = "PROCESSING" => InWork(p) \/ p \in cut
    BY DEF StuckOnlyIfCut
  <1>1. ASSUME NEW w \in Workers, Take(w) PROVE InWork(p)' \/ p \in cut'
    <2>1. \A v \in Workers : pc[v] \in After /\ Payload(v) = p => pc'[v] \in After /\ Payload(v)' = p
      BY <1>1, TakeEffect DEF Others
    <2> QED
      BY <1>1, <1>a, <2>1, TakeEffect DEF InWork
  <1>2. ASSUME NEW w \in Workers, Handles(w) PROVE InWork(p)' \/ p \in cut'
    <2>1. \A v \in Workers \ {w} : pc[v] \in After /\ Payload(v) = p => InWork(p)'
      BY <1>2 DEF Handles, Others, InWork
    <2>2. CASE Payload(w) = p
      <3>1. pc'[w] \in After => InWork(p)'
        BY <1>2, <2>2 DEF Handles, InWork
      <3>2. CASE Skips(w) \/ Claim(w)
        BY <1>a, <2>1, <3>2 DEF Skips, Claim, InWork
      <3>3. CASE Marks(w) \/ Forwards(w) \/ Isolates(w)
        BY <3>1, <3>3 DEF Marks, Forwards, Isolates
      <3>4. CASE Records(w) \/ Fails(w)
        BY <2>2, <3>4 DEF Records, Fails, Verdict
      <3> QED
        BY <1>2, <3>2, <3>3, <3>4 DEF Handles
    <2>3. CASE Payload(w) # p
      <3>1. record[p] = "PROCESSING" /\ cut \subseteq cut'
        BY <1>2, <2>3 DEF Handles, Skips, Claim, Marks, Forwards, Isolates, Records, Fails
      <3>2. InWork(p) => InWork(p)'
        BY <2>1, <2>3 DEF InWork
      <3> QED
        BY <1>a, <3>1, <3>2
    <2> QED
      BY <2>2, <2>3
  <1>3. CASE Reads
    BY <1>3, <1>a DEF Reads, pool, InWork, Payload
  <1>4. CASE Expires
    BY <1>4, <1>a DEF Expires, pool, InWork, Payload
  <1>5. CASE Restart
    BY <1>5, <1>a DEF Restart, CutByCrash, InWork
  <1>6. CASE Quiet
    BY <1>6, <1>a DEF Quiet, InWork, Payload
  <1> QED
    BY <1>1, <1>2, <1>3, <1>4, <1>5, <1>6, NextEffect

At(q, o) == \E i \in 1 .. Len(q) : q[i] = o

LEMMA AppendAt ==
    ASSUME NEW S, NEW q \in Seq(S), NEW e \in S, NEW o, At(q, o) \/ o = e
    PROVE  At(Append(q, e), o)
  <1>1. /\ Len(Append(q, e)) = Len(q) + 1 /\ Append(q, e)[Len(q) + 1] = e
        /\ \A i \in 1 .. Len(q) : Append(q, e)[i] = q[i]
        /\ Len(q) \in Nat
    OBVIOUS
  <1>2. ASSUME At(q, o) PROVE At(Append(q, e), o)
    BY <1>1, <1>2 DEF At
  <1>3. ASSUME o = e PROVE At(Append(q, e), o)
    BY <1>1, <1>3 DEF At
  <1> QED
    BY <1>2, <1>3

LEMMA TailAt ==
    ASSUME NEW S, NEW q \in Seq(S), q # <<>>, NEW o, At(q, o)
    PROVE  o = Head(q) \/ At(Tail(q), o)
  <1>1. PICK i \in 1 .. Len(q) : q[i] = o
    BY DEF At
  <1>2. /\ Len(q) \in Nat /\ Len(Tail(q)) = Len(q) - 1 /\ q[1] = Head(q)
        /\ \A j \in 1 .. Len(q) - 1 : Tail(q)[j] = q[j + 1]
    OBVIOUS
  <1>3. i # 1 => i - 1 \in 1 .. Len(q) - 1 /\ Tail(q)[i - 1] = o
    BY <1>1, <1>2
  <1> QED
    BY <1>1, <1>2, <1>3 DEF At

\* What NoSilentLoss says of one offset.
Kept(o) ==
    \/ At(queue, o)
    \/ \E w \in Workers : pc[w] # "idle" /\ job[w] = o
    \/ Resolved(Topic[o]) \/ InWork(Topic[o])
    \/ o \in dropped
    \/ Topic[o] \in cut

LEMMA KeptIs == NoSilentLoss <=> \A o \in 1 .. marked : Kept(o)
  BY DEF NoSilentLoss, Kept, At, Queued

\* What a payment has reached it does not leave again.
LEMMA ResolvedStays ==
    ASSUME TypeOK, [Next]_vars, NEW p \in Payloads
    PROVE  (Resolved(p) => Resolved(p)') /\ cut \subseteq cut'
  <1>a. output[p] \in Nat /\ dlq[p] \in Nat /\ output'[p] \in Nat /\ dlq'[p] \in Nat
    BY TypeStep DEF TypeOK
  <1>1. CASE \E w \in Workers : Take(w)
    BY <1>1, TakeEffect DEF Resolved, topics, batch
  <1>2. ASSUME NEW w \in Workers, Handles(w)
        PROVE  (Resolved(p) => Resolved(p)') /\ cut \subseteq cut'
    <2>1. /\ output'[p] >= output[p] /\ dlq'[p] >= dlq[p] /\ filed' = filed
          /\ cut \subseteq cut'
      BY <1>2, <1>a DEF Handles, batch, Skips, Claim, Marks, Forwards, Isolates, Records, Fails
    <2> QED
      BY <1>a, <2>1 DEF Resolved
  <1>3. CASE Reads
    BY <1>3 DEF Reads, Resolved, topics
  <1>4. CASE Expires \/ Restart \/ Quiet
    BY <1>4 DEF Expires, Restart, Quiet, Resolved, topics, batch
  <1> QED
    BY <1>1, <1>2, <1>3, <1>4, NextEffect

\* Nor does anybody but the worker itself end its work on a payment.
LEMMA HandledKept ==
    ASSUME TypeOK, WorkInv, VerdictBacked, StuckOnlyIfCut, [Next]_vars,
           NEW w \in Workers, Handles(w), NEW o \in Offsets, Kept(o)
    PROVE  Kept(o)'
  <1> DEFINE p == Topic[o]
  <1>a. p \in Payloads
    BY PaymentAssumption DEF Offsets
  <1>b. (Resolved(p) => Resolved(p)') /\ cut \subseteq cut'
    BY <1>a, ResolvedStays
  <1>c. UNCHANGED <<queue, dropped>>
    BY DEF Handles
  <1>d. \A v \in Workers \ {w} : pc'[v] = pc[v] /\ job'[v] = job[v] /\ Payload(v)' = Payload(v)
    BY DEF Handles, Others
  <1>e. \A v \in Workers \ {w} : pc[v] \in After /\ Payload(v) = p => InWork(p)'
    BY <1>d DEF InWork
  \* The step may end the worker's own interest in the payment.
  <1>1. ASSUME Payload(w) = p, pc'[w] = "idle"
        PROVE  Resolved(p)' \/ InWork(p)' \/ p \in cut'
    <2>1. CASE Skips(w)
      <3>1. record[p] = "COMPLETED" => Resolved(p)
        BY <1>a DEF VerdictBacked, Resolved
      <3>2. record[p] = "PROCESSING" => InWork(p) \/ p \in cut
        BY <1>a DEF StuckOnlyIfCut
      <3>3. InWork(p) => InWork(p)'
        BY <1>e, <2>1 DEF InWork, Skips, After
      <3> QED
        BY <1>1, <1>b, <2>1, <3>1, <3>2, <3>3 DEF Skips
    <2>2. CASE Records(w)
      <3>1. output[p] > 0 \/ dlq[p] > 0 \/ p \in cut
        BY <1>1, <2>2 DEF Records, WorkInv
      <3> QED
        BY <1>b, <3>1 DEF Resolved
    <2>3. CASE Fails(w)
      BY <1>1, <2>3 DEF Fails
    <2> QED
      BY <1>1, <2>1, <2>2, <2>3 DEF Handles, Claim, Marks, Forwards, Isolates
  <1>2. pc'[w] # "idle" => job'[w] = job[w] /\ Payload(w)' = Payload(w)
    BY DEF Handles
  <1>3. pc[w] \in After => pc'[w] \in After \cup {"idle"}
    BY DEF Handles, Skips, Claim, Marks, Forwards, Isolates, Records, Fails, After
  <1>4. CASE job[w] = o /\ pc[w] # "idle"
    BY <1>1, <1>2, <1>4 DEF Kept, Payload
  <1>5. ASSUME NEW v \in Workers \ {w}, job[v] = o, pc[v] # "idle" PROVE Kept(o)'
    BY <1>d, <1>5 DEF Kept
  <1>6. CASE InWork(p)
    <2>1. CASE pc[w] \in After /\ Payload(w) = p
      BY <1>1, <1>2, <1>3, <2>1 DEF Kept, InWork
    <2>2. CASE ~(pc[w] \in After /\ Payload(w) = p)
      BY <1>6, <1>e, <2>2 DEF Kept, InWork
    <2> QED
      BY <2>1, <2>2
  <1>7. CASE At(queue, o) \/ Resolved(p) \/ o \in dropped \/ p \in cut
    BY <1>7, <1>b, <1>c DEF Kept
  <1> QED
    BY <1>4, <1>5, <1>6, <1>7 DEF Kept

LEMMA LossStep ==
    TypeOK /\ WorkInv /\ VerdictBacked /\ StuckOnlyIfCut /\ NoSilentLoss /\ [Next]_vars
        => NoSilentLoss'
  <1> SUFFICES ASSUME TypeOK, WorkInv, VerdictBacked, StuckOnlyIfCut, NoSilentLoss,
                      [Next]_vars
               PROVE  \A o \in 1 .. marked' : Kept(o)'
    BY DEF NoSilentLoss, Kept, At, Queued
  <1>a. /\ marked \in Nat /\ committed \in Nat /\ committed <= marked
        /\ queue \in Seq(Offsets) /\ marked \in 0 .. Len(Topic) /\ Len(Topic) \in Nat
    BY PaymentAssumption DEF TypeOK
  <1>b. \A o \in 1 .. marked : Kept(o) /\ o \in Offsets /\ Topic[o] \in Payloads
    BY KeptIs, <1>a, PaymentAssumption DEF Offsets
  <1>1. CASE Submit
    <2>1. /\ queue' = Append(queue, marked + 1) /\ marked' = marked + 1
          /\ marked + 1 \in Offsets /\ UNCHANGED <<job, pc, topics, batch, dropped, cut>>
      BY <1>1, <1>a DEF Submit, Handled, HasMessage, Offsets
    <2>2. \A o : At(queue, o) \/ o = marked + 1 => At(queue', o)
      BY ONLY <1>a, <2>1, AppendAt
    <2>3. ASSUME NEW o \in 1 .. marked PROVE Kept(o)'
      BY <1>b, <2>1, <2>2 DEF Kept, At, topics, batch, Resolved, InWork, Payload
    <2>4. ASSUME NEW o \in Offsets, o = marked + 1 PROVE Kept(o)'
      BY <2>1, <2>2, <2>4 DEF Kept
    <2> QED
      BY <1>a, <2>1, <2>3, <2>4
  <1>2. CASE GiveUp
    <2>1. /\ marked' = marked + 1 /\ dropped' = dropped \cup {marked + 1}
          /\ UNCHANGED <<queue, job, pc, topics, batch, cut>>
      BY <1>2 DEF GiveUp, Handled
    <2>2. ASSUME NEW o \in 1 .. marked PROVE Kept(o)'
      BY <1>b, <2>1 DEF Kept, At, topics, batch, Resolved, InWork, Payload
    <2>3. ASSUME NEW o \in Nat, o = marked + 1 PROVE Kept(o)'
      BY <2>1, <2>3 DEF Kept
    <2> QED
      BY <1>a, <2>1, <2>2, <2>3
  <1>3. CASE SubmitFull \/ AutoCommit \/ Cancel \/ EndSession \/ UNCHANGED vars
    <2>1. UNCHANGED <<marked, queue, job, pc, topics, batch, dropped, cut>>
      BY <1>3 DEF SubmitFull, AutoCommit, Cancel, EndSession, vars, kafka, pool
    <2> QED
      BY <1>b, <2>1 DEF Kept, At, topics, batch, Resolved, InWork, Payload
  <1>4. ASSUME NEW w \in Workers, Take(w) PROVE \A o \in 1 .. marked' : Kept(o)'
    <2>1. /\ queue # <<>> /\ queue' = Tail(queue) /\ pc[w] = "idle"
          /\ pc'[w] = "check" /\ job'[w] = Head(queue) /\ Others(w)
          /\ UNCHANGED <<marked, topics, batch, dropped, cut>>
      BY <1>4, TakeEffect DEF Take, TypeOK, kafka
    <2>2. \A o : At(queue, o) => o = Head(queue) \/ At(queue', o)
      BY ONLY <1>a, <2>1, TailAt
    <2>3. \A p : InWork(p) => InWork(p)'
      BY <2>1 DEF InWork, Others, After
    <2>4. ASSUME NEW o \in 1 .. marked PROVE Kept(o)'
      <3>1. CASE At(queue, o)
        BY <2>1, <2>2, <3>1 DEF Kept
      <3>2. ASSUME NEW v \in Workers, pc[v] # "idle", job[v] = o PROVE Kept(o)'
        BY <2>1, <3>2 DEF Kept, Others
      <3>3. CASE Resolved(Topic[o]) \/ InWork(Topic[o]) \/ o \in dropped \/ Topic[o] \in cut
        BY <2>1, <2>3, <3>3 DEF Kept, Resolved, topics, batch
      <3> QED
        BY <1>b, <3>1, <3>2, <3>3 DEF Kept
    <2> QED
      BY <2>1, <2>4
  <1>5. ASSUME NEW w \in Workers, Handles(w) PROVE \A o \in 1 .. marked' : Kept(o)'
    <2>1. marked' = marked
      BY <1>5 DEF Handles, kafka
    <2> QED
      BY <1>5, <1>b, <2>1, HandledKept
  <1>6. CASE Reads \/ Expires
    <2>1. UNCHANGED <<marked, queue, job, pc, dropped>>
      BY <1>6 DEF Reads, Expires, kafka, pool
    <2>2. \A o \in 1 .. marked : (Resolved(Topic[o]) => Resolved(Topic[o])') /\ cut \subseteq cut'
      BY <1>b, ResolvedStays
    <2> QED
      BY <1>b, <2>1, <2>2 DEF Kept, At, InWork, Payload
  <1>7. CASE Restart
    <2>1. /\ marked' = committed /\ cut' = cut \cup CutByCrash
          /\ UNCHANGED <<topics, filed, dropped>>
      BY <1>7 DEF Restart
    <2>2. ASSUME NEW o \in 1 .. committed PROVE Kept(o)'
      <3>0. o \in Offsets /\ o <= committed /\ Kept(o)
        BY <1>a, <1>b
      <3>1. CASE At(queue, o)
        BY <2>1, <3>0, <3>1 DEF Kept, CutByCrash, Queued, At
      <3>2. ASSUME NEW v \in Workers, pc[v] # "idle", job[v] = o PROVE Kept(o)'
        <4>1. pc[v] \in Before \cup After
          BY <3>2 DEF TypeOK
        <4> QED
          BY <2>1, <3>0, <3>2, <4>1 DEF Kept, CutByCrash, Payload
      <3>3. CASE InWork(Topic[o])
        BY <2>1, <3>3 DEF Kept, CutByCrash, InWork
      <3>4. CASE Resolved(Topic[o]) \/ o \in dropped \/ Topic[o] \in cut
        BY <2>1, <3>4 DEF Kept, Resolved, topics
      <3> QED
        BY <3>0, <3>1, <3>2, <3>3, <3>4 DEF Kept
    <2> QED
      BY <2>1, <2>2
  <1>8. CASE Batch
    BY <1>6, <1>8, BatchEffect
  <1>9. CASE \E p \in Payloads : Expire(p)
    BY <1>6, <1>9, RecordAt DEF Expire, Expires
  <1> QED
    BY <1>1, <1>2, <1>3, <1>4, <1>5, <1>7, <1>8, <1>9, StepEffect
       DEF Next, Consume, Leave, Crash, Exit

-----------------------------------------------------------------------------
(* The archive *)

LEMMA DoneStays ==
    ASSUME TypeOK, [Next]_vars, NEW p \in Payloads, Done(p)
    PROVE  Done(p)'
  <1>a. output[p] \in Nat /\ output'[p] \in Nat
    BY TypeStep DEF TypeOK
  <1>1. CASE \E w \in Workers : Take(w)
    BY <1>1, TakeEffect DEF Done, topics, batch
  <1>2. ASSUME NEW w \in Workers, Handles(w) PROVE Done(p)'
    <2>1. output'[p] >= output[p] /\ filed' = filed /\ cut \subseteq cut'
      BY <1>2, <1>a DEF Handles, batch, Skips, Claim, Marks, Forwards, Isolates, Records, Fails
    <2> QED
      BY <1>a, <2>1 DEF Done
  <1>3. CASE Reads
    BY <1>3 DEF Reads, Done, topics
  <1>4. CASE Expires \/ Restart \/ Quiet
    BY <1>4 DEF Expires, Restart, Quiet, Done, topics, batch
  <1> QED
    BY <1>1, <1>2, <1>3, <1>4, NextEffect

LEMMA ContentsType ==
    ASSUME NEW f \in Files, NEW i \in DOMAIN Contents[f]
    PROVE  Contents[f][i] \in Payloads
  <1>1. Contents[f] \in Seq(Payloads)
    BY PaymentAssumption
  <1> QED
    BY <1>1

\* A message is read past only when it is done.
LEMMA ReadPast ==
    ASSUME TypeOK, FileInv, [Next]_vars, left # <<>>, left' = Tail(left),
           reading' = reading, NEW p, p = Head(left), Done(p)'
    PROVE  FileInv'
  <1>1. left \in Seq(Payloads)
    BY DEF TypeOK
  <1>2. \A q : At(left, q) => q = p \/ At(left', q)
    BY ONLY <1>1, left # <<>>, left' = Tail(left), p = Head(left), TailAt
  <1>3. DOMAIN left = 1 .. Len(left) /\ DOMAIN left' = 1 .. Len(left')
    <2>1. left' \in Seq(Payloads)
      BY ONLY <1>1, left # <<>>, left' = Tail(left), TailType
    <2> QED
      BY ONLY <1>1, <2>1
  <1>4. ASSUME reading # Nil, NEW i \in DOMAIN Contents[reading],
               NEW c, c = Contents[reading][i]
        PROVE  Done(c)' \/ At(left', c)
    <2>1. c \in Payloads
      BY <1>4, ContentsType DEF TypeOK
    <2>2. Done(c) \/ At(left, c)
      BY <1>3, <1>4 DEF FileInv, At
    <2>3. Done(c) => Done(c)'
      BY <2>1, DoneStays
    <2> QED
      BY <1>2, <2>2, <2>3
  <1> QED
    BY <1>3, <1>4 DEF FileInv, At, Done

LEMMA FileStep == TypeOK /\ VerdictBacked /\ FileInv /\ [Next]_vars => FileInv'
  <1> SUFFICES ASSUME TypeOK, VerdictBacked, FileInv, [Next]_vars PROVE FileInv'
    OBVIOUS
  <1>a. left # <<>> => Head(left) \in Payloads
    <2>1. left \in Seq(Payloads)
      BY DEF TypeOK
    <2> QED
      BY ONLY <2>1, TailType
  <1>b. marking => left # <<>>
    BY DEF TypeOK
  <1>c. \A p \in Payloads : Done(p) => Done(p)'
    BY DoneStays
  <1>1. CASE reading' = Nil
    BY <1>1 DEF FileInv
  <1>2. CASE UNCHANGED <<reading, left>>
    <2>1. reading # Nil => \A i \in DOMAIN Contents[reading] : Contents[reading][i] \in Payloads
      BY ContentsType DEF TypeOK
    <2> QED
      BY <1>2, <1>c, <2>1 DEF FileInv, Done
  <1>3. ASSUME NEW f \in Files, OpenFile(f) PROVE FileInv'
    <2>1. reading' = f /\ left' = Contents[f]
      BY <1>3 DEF OpenFile
    <2> QED
      BY <2>1 DEF FileInv
  <1>4. CASE BatchCheck
    <2>1. CASE NextMessage
      <3>1. /\ left # <<>> /\ left' = Tail(left) /\ reading' = reading
            /\ UNCHANGED <<output, filed, cut>>
        BY <1>4, <2>1 DEF BatchCheck, NextMessage, topics
      <3>2. record[Head(left)] = "COMPLETED" \/ Head(left) \in Bad
        BY <1>4, <2>1 DEF BatchCheck, NextMessage
      <3>3. ASSUME NEW p, p = Head(left) PROVE Done(p)'
        BY <1>a, <3>1, <3>2, <3>3 DEF Done, VerdictBacked
      <3> QED
        BY <3>1, <3>3, ReadPast
    <2>2. CASE UNCHANGED left
      BY <1>2, <1>4, <2>2 DEF BatchCheck
    <2> QED
      BY <1>4, <2>1, <2>2 DEF BatchCheck
  <1>5. CASE BatchMark \/ BatchRedisFails
    <2>1. left # <<>> /\ left' = Tail(left) /\ reading' = reading
      BY <1>5, <1>b DEF BatchMark, BatchRedisFails, NextMessage
    <2>2. ASSUME NEW p, p = Head(left) PROVE Done(p)'
      BY <1>5, <2>2 DEF BatchMark, BatchRedisFails, Done
    <2> QED
      BY <2>1, <2>2, ReadPast
  <1>6. CASE \/ Consume \/ AutoCommit \/ Cancel \/ EndSession
             \/ \E f \in Files : RejectFile(f)
             \/ \E p \in Payloads : Expire(p)
             \/ UNCHANGED vars
    BY <1>2, <1>6 DEF Consume, Submit, SubmitFull, GiveUp, Handled, AutoCommit, Cancel,
                      EndSession, RejectFile, Expire, vars, batch
  <1>7. CASE \E w \in Workers : Step(w)
    <2>1. UNCHANGED batch
      BY <1>7, StepEffect DEF Take, Handles
    <2> QED
      BY <1>2, <2>1 DEF batch
  <1>8. CASE Crash \/ Exit \/ Archive \/ ArchiveFails
    BY <1>1, <1>8 DEF Crash, Exit, Restart, Archive, ArchiveFails
  <1> QED
    BY <1>3, <1>4, <1>5, <1>6, <1>7, <1>8 DEF Next, Leave, Batch

LEMMA ArchiveStep == TypeOK /\ FileInv /\ ArchivedIsDone /\ [Next]_vars => ArchivedIsDone'
  <1> SUFFICES ASSUME TypeOK, FileInv, ArchivedIsDone, [Next]_vars,
                      NEW f \in archived', NEW i \in DOMAIN Contents[f]
               PROVE  Done(Contents[f][i])'
    BY DEF ArchivedIsDone, Done
  <1>a. f \in Files /\ Contents[f][i] \in Payloads
    BY TypeStep, ContentsType DEF TypeOK
  <1>1. CASE f \in archived
    <2>1. Done(Contents[f][i])
      BY <1>1 DEF ArchivedIsDone, Done
    <2> QED
      BY <1>a, <2>1, DoneStays DEF Done
  <1>2. CASE f \notin archived
    <2>1. Archive
      <3>1. CASE Quiet \/ Restart \/ Expires \/ \E w \in Workers : Take(w) \/ Handles(w)
        BY <1>2, <3>1 DEF Quiet, Restart, Expires, Take, Handles, batch
      <3>2. CASE Batch
        BY <1>2, <3>2 DEF Batch, OpenFile, RejectFile, BatchCheck, BatchMark,
                          BatchRedisFails, ArchiveFails
      <3>3. Batch \/ Quiet \/ Restart \/ Expires \/ \E w \in Workers : Take(w) \/ Handles(w)
        <4>1. CASE Consume \/ AutoCommit \/ Cancel \/ EndSession \/ UNCHANGED vars
          BY <4>1 DEF Consume, Submit, SubmitFull, GiveUp, Handled, AutoCommit, Cancel,
                      EndSession, vars, Quiet, pool
        <4>2. CASE \E p \in Payloads : Expire(p)
          BY <4>2, RecordAt DEF Expire, Expires
        <4> QED
          BY <4>1, <4>2, StepEffect DEF Next, Leave, Crash, Exit
      <3> QED
        BY <3>1, <3>2, <3>3
    <2>2. f = reading /\ reading # Nil /\ left = <<>>
      BY <1>2, <2>1 DEF Archive
    <2>3. DOMAIN left = {}
      BY <2>2
    <2>4. Done(Contents[f][i])
      BY <2>2, <2>3 DEF FileInv
    <2> QED
      BY <1>a, <2>4, DoneStays DEF Done
  <1> QED
    BY <1>1, <1>2

-----------------------------------------------------------------------------
LEMMA IInvInit == Init => IInv
  <1> SUFFICES ASSUME Init PROVE IInv
    OBVIOUS
  <1>1. WorkInv /\ VerdictBacked /\ StuckOnlyIfCut /\ OutputOnce
    BY DEF Init, WorkInv, VerdictBacked, StuckOnlyIfCut, OutputOnce
  <1>2. OwnerInv
    <2>1. \A p \in Payloads : output[p] = 0 /\ \A w \in Workers : ~Claims(w, p)
      BY DEF Init, Claims
    <2>2. ASSUME NEW p \in Payloads PROVE Owned(p)
      <3>1. ~(output[p] > 0)
        BY <2>1
      <3>2. \A w \in Workers : ~Claims(w, p)
        BY <2>1
      <3> QED
        BY <3>1, <3>2 DEF Owned
    <2> QED
      BY <2>2 DEF OwnerInv
  <1>3. NoSilentLoss /\ FileInv /\ ArchivedIsDone
    BY DEF Init, NoSilentLoss, FileInv, ArchivedIsDone
  <1> QED
    BY <1>1, <1>2, <1>3, TypeInit DEF IInv

LEMMA IInvStep == IInv /\ [Next]_vars => IInv'
  BY TypeStep, WorkStep, BackedStep, OwnerStep, StuckStep, LossStep, FileStep, ArchiveStep
     DEF IInv

LEMMA IInvAlways == Spec => []IInv
  BY IInvInit, IInvStep, PTL DEF Spec

\* Whoever trusts a record is not misled: COMPLETED means forwarded or taken by
\* the batch processor, FAILED isolated or cut short.
THEOREM Backed == Spec => []VerdictBacked
  <1>1. IInv => VerdictBacked
    BY DEF IInv
  <1> QED
    BY <1>1, IInvAlways, PTL

\* No payment is forwarded twice unless two workers checked it at once or its
\* record expired, however often messages, processes and files come again.
THEOREM Once == Spec => []OutputOnce
  <1>1. IInv => OutputOnce
    BY DEF IInv
  <1> QED
    BY <1>1, IInvAlways, PTL

\* A record is left at PROCESSING only by an error or a crash.
THEOREM StuckIsCut == Spec => []StuckOnlyIfCut
  <1>1. IInv => StuckOnlyIfCut
    BY DEF IInv
  <1> QED
    BY <1>1, IInvAlways, PTL

\* A consumed message is under way, has reached a topic or the batch processor,
\* was given up by a full queue, or was cut short by an error or a crash.
THEOREM NothingLost == Spec => []NoSilentLoss
  <1>1. IInv => NoSilentLoss
    BY DEF IInv
  <1> QED
    BY <1>1, IInvAlways, PTL

\* What is in the archive is done, though workers and the batch processor
\* share the records.
THEOREM Archived == Spec => []ArchivedIsDone
  <1>1. IInv => ArchivedIsDone
    BY DEF IInv
  <1> QED
    BY <1>1, IInvAlways, PTL

=============================================================================
