--------------------------- MODULE PaymentAdapter ---------------------------
(***************************************************************************)
(* The payment adapter of neam/sensing/payments: the Kafka consumer        *)
(* (kafka/consumer.go) hands messages to a worker pool (workerpool.go)     *)
(* whose jobs run PaymentAdapter.processMessage (adapter.go) against the   *)
(* idempotency records in Redis (idempotency/manager.go); in hybrid mode   *)
(* the BatchProcessor (batch.go) reads files against the same records.     *)
(* Batch mode is Topic = <<>>, real-time mode is Files = {}.               *)
(*                                                                         *)
(* One instance of the service, one partition.  A job is the offset of its *)
(* message.  Every call to Redis or Kafka is a step and may fail before or *)
(* after it took effect; the process dies at any point and starts again    *)
(* from the committed offset.  A session that ends takes the process down: *)
(* on SIGTERM Run returns, and after a rebalance the next Setup closes     *)
(* the channel "ready" a second time, which panics.                        *)
(***************************************************************************)
EXTENDS Integers, Sequences

CONSTANTS
    Payloads,   \* contents of messages; equal contents have one hash
    Bad,        \* payloads that do not parse, or have no known format
    Topic,      \* the input topic: payload at each offset
    Workers,    \* goroutines of the pool
    QueueSize,  \* capacity of WorkerPool.jobs
    MaxTries,   \* maxRetries + 1 in handleWithRetry
    Files,      \* files of the batch directory
    Contents,   \* splitMessages of each file
    Nil,        \* no file
    Budgets     \* how many crashes, faults and expiries may happen (model bounds)

ASSUME PaymentAssumption ==
    /\ Bad \subseteq Payloads
    /\ Topic \in Seq(Payloads)
    /\ QueueSize \in Nat \ {0}
    /\ MaxTries \in Nat \ {0}
    /\ Contents \in [Files -> Seq(Payloads)]
    /\ Nil \notin Files
    /\ Budgets \subseteq [crash : Nat, fault : Nat, expiry : Nat]

VARIABLES
    marked,     \* last offset given to MarkMessage
    committed,  \* last offset committed to Kafka
    tries,      \* failed attempts of handleWithRetry on the next message
    session,    \* "running", "closing" once its context is cancelled, "ended"
    queue,      \* WorkerPool.jobs
    job,        \* the job of each worker, 0 when it has none
    pc,         \* where each worker is in processMessage
    record,     \* status of each payload's hash in Redis
    output,     \* how often each payload was written to the output topic
    dlq,        \* how often each payload was written to the dead letter topic
    inbox,      \* files in the batch directory
    archived,   \* files moved to the archive
    reading,    \* the file in processFile, or Nil
    left,       \* its messages still to process
    marking,    \* is the first of them past its check?
    filed,      \* history: payloads the batch processor marked as completed
    dropped,    \* history: offsets given up because the queue stayed full
    cut,        \* history: payloads whose handling an error or a crash cut short
    unguarded,  \* history: payloads checked by two workers at once, or expired
    budget      \* crashes, faults and expiries still possible

kafka  == <<marked, committed, tries, session>>
pool   == <<queue, job, pc>>
topics == <<output, dlq>>
batch  == <<inbox, archived, reading, left, marking, filed>>
vars   == <<kafka, pool, record, topics, batch, dropped, cut, unguarded, budget>>

Statuses == {"NOT_FOUND", "PROCESSING", "COMPLETED", "FAILED"}
\* Steps of processMessage before and after MarkProcessing took effect.
Before == {"check", "mark"}
After  == {"produce", "complete", "dlq", "fail"}

Offsets == 1 .. Len(Topic)

TypeOK ==
    /\ marked \in 0 .. Len(Topic)
    /\ committed \in 0 .. marked
    /\ tries \in 0 .. MaxTries - 1
    /\ session \in {"running", "closing", "ended"}
    /\ queue \in Seq(Offsets) /\ Len(queue) <= QueueSize
    /\ pc \in [Workers -> {"idle"} \cup Before \cup After]
    /\ job \in [Workers -> 0 .. Len(Topic)]
    /\ \A w \in Workers : pc[w] # "idle" => job[w] \in Offsets
    /\ record \in [Payloads -> Statuses]
    /\ output \in [Payloads -> Nat] /\ dlq \in [Payloads -> Nat]
    /\ inbox \subseteq Files /\ archived \subseteq Files
    /\ reading \in Files \cup {Nil} /\ left \in Seq(Payloads)
    /\ reading = Nil => left = <<>>
    /\ marking \in BOOLEAN /\ (marking => left # <<>>)
    /\ filed \subseteq Payloads /\ dropped \subseteq Offsets
    /\ cut \subseteq Payloads /\ unguarded \subseteq Payloads
    /\ budget \in [crash : Nat, fault : Nat, expiry : Nat]

Init ==
    /\ marked = 0 /\ committed = 0 /\ tries = 0 /\ session = "running"
    /\ queue = <<>>
    /\ job = [w \in Workers |-> 0] /\ pc = [w \in Workers |-> "idle"]
    /\ record = [p \in Payloads |-> "NOT_FOUND"]
    /\ output = [p \in Payloads |-> 0] /\ dlq = [p \in Payloads |-> 0]
    /\ inbox = Files /\ archived = {}
    /\ reading = Nil /\ left = <<>> /\ marking = FALSE
    /\ filed = {} /\ dropped = {} /\ cut = {} /\ unguarded = {}
    /\ budget \in Budgets

-----------------------------------------------------------------------------
(* Faults.                                                                 *)

Spend(kind) == budget[kind] > 0 /\ budget' = [budget EXCEPT ![kind] = @ - 1]
Fault == Spend("fault")
\* Jobs call Redis with the context of the session.
RedisFault == Fault \/ (session # "running" /\ UNCHANGED budget)

-----------------------------------------------------------------------------
(* ConsumeClaim, handleWithRetry and WorkerPool.Submit.  A claim whose     *)
(* session is closing may still take messages.                             *)

HasMessage == session # "ended" /\ marked < Len(Topic)

Handled ==
    /\ marked' = marked + 1
    /\ tries' = 0
    /\ UNCHANGED <<committed, session, job, pc, record, topics, batch, cut, unguarded, budget>>

Submit ==
    /\ HasMessage
    /\ Len(queue) < QueueSize
    /\ queue' = Append(queue, marked + 1)
    /\ Handled /\ UNCHANGED dropped

\* Mutant of SubmitFull: the first refusal already marks the message.
SubmitFullMarks ==
    /\ HasMessage
    /\ Len(queue) = QueueSize
    /\ tries + 1 < MaxTries
    /\ Handled /\ UNCHANGED <<queue, dropped>>

\* ErrPoolFull: another attempt after a delay, and after the last one the
\* message is logged and marked all the same.
SubmitFull ==
    /\ HasMessage
    /\ Len(queue) = QueueSize
    /\ tries + 1 < MaxTries
    /\ tries' = tries + 1
    /\ UNCHANGED <<marked, committed, session, pool, record, topics, batch, dropped, cut, unguarded, budget>>

GiveUp ==
    /\ HasMessage
    /\ Len(queue) = QueueSize
    /\ tries + 1 = MaxTries
    /\ dropped' = dropped \cup {marked + 1}
    /\ Handled /\ UNCHANGED queue

AutoCommit ==
    /\ session # "ended"
    /\ committed # marked
    /\ committed' = marked
    /\ UNCHANGED <<marked, tries, session, pool, record, topics, batch, dropped, cut, unguarded, budget>>

\* A rebalance, or SIGTERM: the context of the session is cancelled.
Cancel ==
    /\ session = "running"
    /\ Spend("crash")
    /\ session' = "closing"
    /\ UNCHANGED <<marked, committed, tries, pool, record, topics, batch, dropped, cut, unguarded>>

\* The claim's goroutine has returned; the last marks are committed.
EndSession ==
    /\ session = "closing"
    /\ tries = 0
    /\ session' = "ended"
    /\ committed' = marked
    /\ UNCHANGED <<marked, tries, pool, record, topics, batch, dropped, cut, unguarded, budget>>

-----------------------------------------------------------------------------
(* WorkerPool.worker and PaymentAdapter.processMessage.                    *)

Payload(w) == Topic[job[w]]

Goto(w, label) == pc' = [pc EXCEPT ![w] = label] /\ UNCHANGED job
Finish(w) ==
    /\ pc' = [pc EXCEPT ![w] = "idle"]
    /\ job' = [job EXCEPT ![w] = 0]
\* The job returns an error, which the worker logs.
Abandon(w) == Finish(w) /\ cut' = cut \cup {Payload(w)}

Take(w) ==
    /\ pc[w] = "idle"
    /\ queue # <<>>
    /\ queue' = Tail(queue)
    /\ job' = [job EXCEPT ![w] = Head(queue)]
    /\ pc' = [pc EXCEPT ![w] = "check"]
    /\ UNCHANGED <<kafka, record, topics, batch, dropped, cut, unguarded, budget>>

\* Mutant of Check: a payment under way does not stop the copy.
CheckCompletedOnly(w) ==
    /\ pc[w] = "check"
    /\ session = "running"
    /\ \/ record[Payload(w)] = "COMPLETED" /\ Finish(w) /\ UNCHANGED unguarded
       \/ /\ record[Payload(w)] # "COMPLETED"
          /\ Goto(w, "mark")
          /\ unguarded' = unguarded \cup
               {Payload(v) : v \in {u \in Workers : pc[u] = "mark" /\ Payload(u) = Payload(w)}}
    /\ UNCHANGED <<kafka, queue, record, topics, batch, dropped, cut, budget>>

\* Manager.Check: skip what is completed or under way, and handle the rest,
\* what failed before included.
Check(w) ==
    /\ pc[w] = "check"
    /\ session = "running"
    /\ \/ /\ record[Payload(w)] \in {"COMPLETED", "PROCESSING"}
          /\ Finish(w) /\ UNCHANGED unguarded
       \/ /\ record[Payload(w)] \in {"NOT_FOUND", "FAILED"}
          /\ Goto(w, "mark")
          /\ unguarded' = unguarded \cup
               {Payload(v) : v \in {u \in Workers : pc[u] = "mark" /\ Payload(u) = Payload(w)}}
    /\ UNCHANGED <<kafka, queue, record, topics, batch, dropped, cut, budget>>

CheckFails(w) ==
    /\ pc[w] = "check"
    /\ RedisFault
    /\ Abandon(w)
    /\ UNCHANGED <<kafka, queue, record, topics, batch, dropped, unguarded>>

SetRecord(p, status) == record' = [record EXCEPT ![p] = status]

\* Mutant of MarkProcessing: the message counts as completed at once.
MarkAhead(w) ==
    /\ pc[w] = "mark"
    /\ session = "running"
    /\ SetRecord(Payload(w), "COMPLETED")
    /\ Goto(w, IF Payload(w) \in Bad THEN "dlq" ELSE "produce")
    /\ UNCHANGED <<kafka, queue, topics, batch, dropped, cut, unguarded, budget>>

MarkProcessing(w) ==
    /\ pc[w] = "mark"
    /\ session = "running"
    /\ SetRecord(Payload(w), "PROCESSING")
    /\ Goto(w, IF Payload(w) \in Bad THEN "dlq" ELSE "produce")
    /\ UNCHANGED <<kafka, queue, topics, batch, dropped, cut, unguarded, budget>>

Produce(w) ==
    /\ pc[w] = "produce"
    /\ output' = [output EXCEPT ![Payload(w)] = @ + 1]
    /\ Goto(w, "complete")
    /\ UNCHANGED <<kafka, queue, record, dlq, batch, dropped, cut, unguarded, budget>>

\* The record stays PROCESSING and nothing goes to the dead letter topic.
ProduceFails(w) ==
    /\ pc[w] = "produce"
    /\ Fault
    /\ output' \in {output, [output EXCEPT ![Payload(w)] = @ + 1]}
    /\ Abandon(w)
    /\ UNCHANGED <<kafka, queue, record, dlq, batch, dropped, unguarded>>

\* A parser panics; the worker recovers and goes on to the next job.
Panic(w) ==
    /\ pc[w] \in {"produce", "dlq"}
    /\ Fault
    /\ Abandon(w)
    /\ UNCHANGED <<kafka, queue, record, topics, batch, dropped, unguarded>>

\* Mutant of SendToDLQ: the job ends there, without MarkFailed.
SendToDLQOnly(w) ==
    /\ pc[w] = "dlq"
    /\ dlq' = [dlq EXCEPT ![Payload(w)] = @ + 1]
    /\ Finish(w)
    /\ UNCHANGED <<kafka, queue, record, output, batch, dropped, cut, unguarded, budget>>

\* An error of sendToDLQ is logged and the message marked FAILED all the same.
SendToDLQ(w) ==
    /\ pc[w] = "dlq"
    /\ \/ /\ dlq' = [dlq EXCEPT ![Payload(w)] = @ + 1]
          /\ UNCHANGED <<cut, budget>>
       \/ /\ Fault
          /\ dlq' \in {dlq, [dlq EXCEPT ![Payload(w)] = @ + 1]}
          /\ cut' = cut \cup {Payload(w)}
    /\ Goto(w, "fail")
    /\ UNCHANGED <<kafka, queue, record, output, batch, dropped, unguarded>>

Verdict(w) == IF pc[w] = "complete" THEN "COMPLETED" ELSE "FAILED"

\* MarkCompleted and MarkFailed.
MarkDone(w) ==
    /\ pc[w] \in {"complete", "fail"}
    /\ session = "running"
    /\ SetRecord(Payload(w), Verdict(w))
    /\ Finish(w)
    /\ UNCHANGED <<kafka, queue, topics, batch, dropped, cut, unguarded, budget>>

\* A pipeline to Redis that fails, with or without its effect.
MarkFails(w) ==
    /\ pc[w] \in {"mark", "complete", "fail"}
    /\ RedisFault
    /\ \/ UNCHANGED record
       \/ SetRecord(Payload(w), IF pc[w] = "mark" THEN "PROCESSING" ELSE Verdict(w))
    /\ Abandon(w)
    /\ UNCHANGED <<kafka, queue, topics, batch, dropped, unguarded>>

Step(w) ==
    \/ Take(w) \/ Check(w) \/ CheckFails(w) \/ MarkProcessing(w)
    \/ Produce(w) \/ ProduceFails(w) \/ Panic(w) \/ SendToDLQ(w)
    \/ MarkDone(w) \/ MarkFails(w)

-----------------------------------------------------------------------------
(* BatchProcessor.scanAndProcess and processFile.  The batch processor     *)
(* marks a message as completed when it has logged it; it does not heed    *)
(* PROCESSING, and a message that does not parse leaves no trace.          *)

OpenFile(f) ==
    /\ reading = Nil
    /\ f \in inbox
    /\ reading' = f
    /\ left' = Contents[f]
    /\ UNCHANGED <<kafka, pool, record, topics, inbox, archived, marking, filed, dropped, cut, unguarded, budget>>

\* The file cannot be read, is too large or of no known format: moveToError.
RejectFile(f) ==
    /\ reading = Nil
    /\ f \in inbox
    /\ Fault
    /\ inbox' = inbox \ {f}
    /\ UNCHANGED <<kafka, pool, record, topics, archived, reading, left, marking, filed, dropped, cut, unguarded>>

NextMessage == left' = Tail(left) /\ marking' = FALSE

\* Mutant of BatchCheck: what is under way is skipped too.
BatchCheckUnderWay ==
    /\ left # <<>> /\ ~marking
    /\ \/ /\ record[Head(left)] \in {"COMPLETED", "PROCESSING"} \/ Head(left) \in Bad
          /\ NextMessage
       \/ /\ record[Head(left)] \notin {"COMPLETED", "PROCESSING"} /\ Head(left) \notin Bad
          /\ marking' = TRUE /\ UNCHANGED left
    /\ UNCHANGED <<kafka, pool, record, topics, inbox, archived, reading, filed, dropped, cut, unguarded, budget>>

BatchCheck ==
    /\ left # <<>> /\ ~marking
    /\ \/ /\ record[Head(left)] = "COMPLETED" \/ Head(left) \in Bad
          /\ NextMessage
       \/ /\ record[Head(left)] # "COMPLETED" /\ Head(left) \notin Bad
          /\ marking' = TRUE /\ UNCHANGED left
    /\ UNCHANGED <<kafka, pool, record, topics, inbox, archived, reading, filed, dropped, cut, unguarded, budget>>

BatchMark ==
    /\ marking
    /\ SetRecord(Head(left), "COMPLETED")
    /\ filed' = filed \cup {Head(left)}
    /\ NextMessage
    /\ UNCHANGED <<kafka, pool, topics, inbox, archived, reading, dropped, cut, unguarded, budget>>

\* Check fails: the message counts as failed.  MarkCompleted fails: it counts
\* as processed.  The file is archived either way.
BatchRedisFails ==
    /\ left # <<>>
    /\ RedisFault
    /\ \/ UNCHANGED <<record, filed>>
       \/ marking /\ SetRecord(Head(left), "COMPLETED") /\ filed' = filed \cup {Head(left)}
    /\ cut' = cut \cup {Head(left)}
    /\ NextMessage
    /\ UNCHANGED <<kafka, pool, topics, inbox, archived, reading, dropped, unguarded>>

\* Mutant of Archive: the file is copied, and stays in the directory.
ArchiveCopy ==
    /\ reading # Nil /\ left = <<>>
    /\ archived' = archived \cup {reading}
    /\ reading' = Nil
    /\ UNCHANGED <<kafka, pool, record, topics, inbox, left, marking, filed, dropped, cut, unguarded, budget>>

Archive ==
    /\ reading # Nil /\ left = <<>>
    /\ inbox' = inbox \ {reading}
    /\ archived' = archived \cup {reading}
    /\ reading' = Nil
    /\ UNCHANGED <<kafka, pool, record, topics, left, marking, filed, dropped, cut, unguarded, budget>>

\* The rename fails: the next scan reads the file again.
ArchiveFails ==
    /\ reading # Nil /\ left = <<>>
    /\ Fault
    /\ reading' = Nil
    /\ UNCHANGED <<kafka, pool, record, topics, inbox, archived, left, marking, filed, dropped, cut, unguarded>>

Batch ==
    \/ \E f \in Files : OpenFile(f) \/ RejectFile(f)
    \/ BatchCheck \/ BatchMark \/ BatchRedisFails \/ Archive \/ ArchiveFails

-----------------------------------------------------------------------------
(* Expiry of records, and the death of the process.                        *)

Expire(p) ==
    /\ record[p] # "NOT_FOUND"
    /\ Spend("expiry")
    /\ SetRecord(p, "NOT_FOUND")
    /\ unguarded' = unguarded \cup {p}
    /\ UNCHANGED <<kafka, pool, topics, batch, dropped, cut>>

Queued(o) == \E i \in 1 .. Len(queue) : queue[i] = o

\* What a crash takes away for good: jobs that left their mark in Redis, and
\* jobs whose message will not be delivered again.
CutByCrash ==
    {Topic[o] : o \in {x \in Offsets : x <= committed /\ Queued(x)}}
      \cup {Payload(w) : w \in {v \in Workers :
                                  \/ pc[v] \in After
                                  \/ pc[v] \in Before /\ job[v] <= committed}}

\* The process dies and another one consumes from the committed offset.
Restart ==
    /\ marked' = committed /\ tries' = 0 /\ session' = "running"
    /\ queue' = <<>>
    /\ job' = [w \in Workers |-> 0] /\ pc' = [w \in Workers |-> "idle"]
    /\ reading' = Nil /\ left' = <<>> /\ marking' = FALSE
    /\ cut' = cut \cup CutByCrash
    /\ UNCHANGED <<committed, record, topics, inbox, archived, filed, dropped, unguarded>>

Crash == session # "ended" /\ Spend("crash") /\ Restart

\* Run has returned, or Setup has panicked.
Exit == session = "ended" /\ Restart /\ UNCHANGED budget

-----------------------------------------------------------------------------
Consume == Submit \/ SubmitFull \/ GiveUp
Leave == EndSession \/ Exit

Next ==
    \/ Consume \/ AutoCommit \/ Cancel \/ Leave \/ Crash
    \/ \E w \in Workers : Step(w)
    \/ Batch
    \/ \E p \in Payloads : Expire(p)

Spec == Init /\ [][Next]_vars

\* The claim's goroutine, the workers, the auto-commit timer and the scan run
\* on; a session that closes comes to its end.  Faults and crashes need not
\* happen.
FairSpec ==
    /\ Spec
    /\ WF_vars(Consume) /\ WF_vars(AutoCommit) /\ WF_vars(Leave) /\ WF_vars(Batch)
    /\ \A w \in Workers : WF_vars(Step(w))

-----------------------------------------------------------------------------
(* Properties.                                                             *)

\* A worker has marked the payload as its own and is not done with it.
InWork(p) == \E w \in Workers : pc[w] \in After /\ Payload(w) = p

\* A record says COMPLETED only of a payment that is in the output topic or
\* was taken by the batch processor, and FAILED only of one that is in the
\* dead letter topic or met an error: whoever skips a duplicate by the record
\* (adapter.go:229) loses nothing.
VerdictBacked ==
    \A p \in Payloads :
        /\ record[p] = "COMPLETED" => output[p] > 0 \/ p \in filed
        /\ record[p] = "FAILED" => dlq[p] > 0 \/ p \in cut

\* A payment goes to the output topic twice only if two workers checked it
\* before either of them marked it, or its record expired: redelivery after a
\* crash, a lost answer of Redis and the batch processor never duplicate it.
OutputOnce == \A p \in Payloads : output[p] > 1 => p \in unguarded

\* A record stays PROCESSING, and makes the service skip every copy of the
\* payment for the rest of its TTL, only while a worker is at it or after an
\* error or a crash cut the work short.
StuckOnlyIfCut ==
    \A p \in Payloads : record[p] = "PROCESSING" => InWork(p) \/ p \in cut

Resolved(p) == output[p] > 0 \/ dlq[p] > 0 \/ p \in filed

\* A message that was marked as consumed is still queued or in work, or its
\* payment reached a topic or the batch processor, or the queue stayed full
\* through every attempt, or an error or a crash cut it short: no order of
\* deliveries, skips and restarts loses a payment in any other way.
NoSilentLoss ==
    \A o \in 1 .. marked :
        \/ Queued(o)
        \/ \E w \in Workers : pc[w] # "idle" /\ job[w] = o
        \/ Resolved(Topic[o]) \/ InWork(Topic[o])
        \/ o \in dropped
        \/ Topic[o] \in cut

\* A file goes to the archive only when each of its payments that parses was
\* recorded as done, by the batch processor or by a worker, or met an error.
ArchivedIsDone ==
    \A f \in archived : \A i \in DOMAIN Contents[f] :
        LET p == Contents[f][i]
        IN  p \in Bad \cup filed \cup cut \/ output[p] > 0

\* Once faults and crashes cease the service catches up: everything is
\* consumed and committed, the pool is idle and the batch directory empty.
CatchesUp ==
    <>[] /\ committed = Len(Topic)
         /\ queue = <<>>
         /\ \A w \in Workers : pc[w] = "idle"
         /\ inbox = {}
=============================================================================
