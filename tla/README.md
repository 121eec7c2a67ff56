# TLA+ models of the Sovereign Digital Governance Stack

Models, model-checking runs and machine-checked proofs for the program code of
this repository: the NEAM platform (`src/neam`) and the CSIC platform
(`src/csic`). Every definition that models code is listed in `PROJECT.json`
under `map` with the file and the lines it stands for.

## 1. The system

The repository holds two Go platforms of many small services, dashboards in
TypeScript, Python simulations and a large body of documents. What carries logic
of its own, as opposed to CRUD over SQL, analytics or rendering, is this:

| part | state it keeps | operations | interacts with |
|---|---|---|---|
| Distributed lock (`neam/shared/src/coordination/{lock_manager,redis_lock_provider}.go`) | one Redis key per resource (owner, token, PX expiry); the holder's `Lock`; the watchdog's table of active locks; the token generator's local counter | `Acquire`, `Extend`, `Release`, `Validate`, `GetLock`, `LeaseWatchdog.renewAll`, `FencingTokenGenerator.Next` | Redis (Lua scripts), the clock, one goroutine per watchdog |
| Acquisition with retries (`LockManager.Acquire`, `RetryStrategy`) | the attempt counter of the strategy, shared by all callers | `Acquire`, `NextDelay`, `Reset` | the provider, context cancellation, `Stop` |
| Deadlock detector (`deadlock_detector.go`) | wait-for graph (nodes, edges), registered transactions, latest tokens per resource | `RegisterWait/Hold/Release`, `detectAndResolve`, `WaitDiePolicy.CanWait`, `FencingTokenHandler` | the lock's users, one detection goroutine |
| Policy engine and workflows (`neam/policy`) | policies, cooldown counters, workflow executions and their steps, versioned state with locks | evaluate, trigger, execute steps, approve, cancel, roll back | Redis, the intervention service |
| Approval workflow (`neam/approval/backend`) | request, votes, delegation, audit hash chain | submit, sign, reject, abstain, delegate, expire | Temporal (signals, timers), SQL |
| Payment adapter (`neam/sensing/payments`) | consumer offsets, the pool's job queue, a status record per message hash in Redis, output and dead letter topics, the batch directory | consume, submit with retries, process (check, mark, produce, mark), commit, scan, archive | Kafka, Redis, the file system; one goroutine per claim, per worker and for the scanner |
| Block indexer (`csic/blockchain/indexer`) | a cursor and a marker per block in Redis; tables of blocks, transactions, logs, transfers and address metadata; the `running` flag | `SyncBlocks`, `syncBlockRange`, `Reindex`, `Stop` | a blockchain node, Postgres, Redis |
| Intervention saga (`neam/intervention`) | intervention state, budget reservations, feature flags, compensation list | validate, reserve, execute, monitor, compensate | Temporal activities (at least once), SQL |
| Audit log (`neam/audit-service/services/audit_service.go`) | rows of `audit_events` with the previous hash and a chain index; a buffer and its mutex | `LogEvent`, `LogEventAsync`, `eventProcessor`, `VerifyIntegrity`, `Close` | PostgreSQL, five goroutines, every other NEAM service as a client |
| Evidence service (`neam/reporting/forensic/service.go`) | evidence by ID and chains by type, both maps in memory | `GenerateEvidence`, `addToChain`, `SealChain`, `CheckTamper` | HTTP handlers, a maintenance goroutine |
| Audit sealing, CSIC audit log | Merkle seals, WORM files, a chain of entries in files | seal, verify, append | SQL, the file system |
| Sensing common | circuit breaker, connection pool, worker pool, deduplication window | call, acquire/release, submit, offer | adapters |
| CSIC control layer and services | policies, interventions, licenses, alerts, cases | state machines over SQL rows | Kafka, SQL |

`PROJECT.json` `components` lists every part, with the reason where it is not
modelled.

### What is hard here

* Leases are timed on two clocks: Redis drops the key, the holder looks at
  `ExpiresAt`. Every call may fail after it took effect, and the watchdog renews
  a lock while its holder is using, extending or releasing it.
* Check-then-act everywhere: `Validate` before `Release`/`Extend`, token drawn
  before the lock is granted, token validated before it is recorded.
* The wait-for graph is fed by calls that are made next to, not inside, the
  operations they describe, and the detector acts on a cycle after it let go of
  the graph's mutex.
* At-least-once delivery met by a check and a mark that are two calls, a commit
  that precedes the work, and a second reader of the same records (payments).
* One job recorded in two stores, call by call: tables first, then markers and a
  cursor that make later passes skip it, over a chain whose end may be replaced
  (indexer).
* Chains of hashes whose last link is read in one step and extended in another,
  by goroutines without a common lock, with a bounded buffer in front and a
  shutdown that drains it (audit log), or over maps that Go visits in random
  order (evidence).
* Retry state shared between callers; stop channels closed while others use them.
* Workflows that retry, compensate, time out and are cancelled from outside.

### What makes each part correct

* Lock: one holder at a time as judged by the holders themselves; a holder's
  expiry never outlives the key; only the owner frees a key; an orphaned key
  expires; tokens tell holders apart.
* Retries: the number of attempts of one call is bounded, a cancelled call
  returns, nobody blocks for ever on `Stop`.
* Detector: a cycle in the graph is found; each deadlock of the transactions
  shows as a cycle; only a deadlocked transaction is aborted, as long as nobody
  has given up a wait; cycles do not stay.
* Fencing: a write accepted for a resource is not older than one accepted before.
* Workflows: each step runs with its own handler, a failed step does not let
  the next one run, a decision is taken once and by enough distinct people,
  everything reserved is released or used.
* Approval: the vote of M out of N, one vote each; what is shown as done is in
  the ledger; a final status is final; every request is closed.
* Payments: a consumed payment is somewhere, or an error or a full queue is to
  blame; the output has it once; what the records and the archive say is true.
* Indexer: whatever is claimed as indexed is in the tables, the tables are of
  the chain, repeated writings have a cause, and the end of the chain is reached.
* Audit log: no event is lost without an error, none is logged twice; the
  indexes have no gap and follow the order of the events; shutting down ends,
  and ends with an empty buffer.
* Evidence: what a call returned is in its chain once, is found by its ID and
  stands where the order of the calls puts it; a chain begins once.

## 2. Plan

Most important first. The payment adapter, the block indexer and the two hash
chains came before the policy workflow because they are where this code meets
crashes, redelivery, retries, overlapping writers and a changing environment,
while the policy workflow shares its shape with the approval and, with the
handlers it registers, runs no step (`workflow.go:184` registers them under the
step's type, `:352` looks them up by the handler's name).

| # | modules | status |
|---|---|---|
| 1 | `LeaseLock` (abstract), `RedisLock`, proofs | done |
| 2 | `WaitForGraph` (what the search owes the detector), `CycleSearch`, `DeadlockDetector`, proofs | done |
| 3 | `QuorumDecision` (abstract), `ApprovalWorkflow`, proofs | done |
| 4 | `PaymentAdapter`, proofs | done |
| 5 | `BlockIndexer`, proofs | done |
| 6 | `AuditChain`, proofs | done |
| 7 | `EvidenceChain`, proofs | done |
| 8 | `PolicyWorkflow`: executions of `neam/policy/workflow.go`, for any set of registered handlers, with approval and cancellation as read-modify-write of whole records | not begun |
| 9 | `InterventionSaga`: reserve, execute, monitor, compensate, with activities that run at least once; abstract: everything reserved is used or given back. Its activities are stubs so far | not begun |
| 10 | `ApprovalLedger`: the hash chain when attempts of an activity overlap, and its verification; the chain of `AuditChain` with other writers | not begun |
| 11 | `AcquireRetry`: attempts, shared retry counter, cancellation and `Stop`; composes with `RedisLock`'s `Retry` and `GiveUp` | not begun |
| 12 | `WaitDie`, `FencingTokens`: the admission rule and the writer's check, to be composed with `RedisLock`'s tokens | not begun |

Abstract specifications: the lease (1), the vote (3), "reserved is used or
returned" (9). Theorems worth proving next: the refinement of (9), the
monotony of accepted tokens in (12), and for (8) that an execution reported
COMPLETED has run its steps, to the extent TLC agrees.
Modules meant for proofs declare no `RECURSIVE` operator; unbounded data is
bounded in guards by a constant of its own.

## 3. Modules, and how they follow the code

Comments in the modules name the function each group of actions translates;
`PROJECT.json` `map` has the lines.

### 3.1 The lock: `LeaseLock`, `RedisLock`

`RedisLock` has one action per call to Redis, per reading of the clock that
matters, and per assignment to the shared `Lock`. `Acquire`, `GenToken`,
`Stamp`, `SetNX`/`SetNXFails`, `Retry`/`GiveUp` are `LockManager.Acquire` with the
provider's; `BeginExtend`, `ExtendValidated`, `ExtendScript`, `ExtendAssign` and
`ExtendFails` are `Extend`; the same four for `Release`; `Register`,
`WatchdogTick`, `WatchdogScript`, `WatchdogAssign`, `WatchdogFails` are the
watchdog's goroutine, which works on the client's own `Lock`. Each Lua script is
one step. With `RedisFaults` every script may fail before or after its effect,
and with `CounterFaults` so may `INCR`. `Crash` forgets everything but Redis.

Instants are represented by the time left until them, down to 0 and then
`Past`; `Tick` lets a unit pass for keys and holders alike. Redis's clock and the
client's run at one speed in the model: drift between them is an assumption of
the code, which compares its own clock with a TTL kept by Redis.

`LeaseLock` says what a lease is: granted when free, renewed by its owner, given
up by its owner, or lapsed. `RefinesLease` maps to it those who trust an unexpired
`Lock` on a resource.

### 3.2 The detector: `WaitForGraph`, `CycleSearch`, `DeadlockDetector`

`DetectCycles` runs under the graph's mutex, so it is a module of its own on a
graph that does not change: frames of the recursion are the elements of `path`
with the neighbours they have still to range over, in any order. For
`DeadlockDetector` the whole search is one step, whose result is any of
`SearchResults` of `WaitForGraph`: cycles only, and some cycle if there is one.
`AnswersDetector` says of `CycleSearch` that it answers with one of these, and is
proved for every graph (`SearchImplemented`): the two modules compose. A cycle
is a list for the search and the set of its transactions for the detector, so
two cycles through the same transactions count as one there; the detector
chooses a victim by the transactions alone.

`DeadlockDetector` has one action per critical section of the graph: clients'
`AddWaiter`, `AddHolder`, `RemoveHolder`, and the detector's `Cleanup`, `Search`,
`Choose` (one cycle of `detectAndResolve`, with the three strategies) and
`Abort`. The clients' real locks are `owner` and `waits`, the environment:
nothing in the repository calls the detector together with the lock, so the
model registers each operation in the step that performs it, the case most
favourable to the detector. Cleanup works at most every five minutes, which is
a choice whether it works; ages beyond `StaleAfter` are not told apart.
Transaction IDs are unique, a transaction registers one priority, and the
attributes a victim is chosen by are read in one step (`GetNode` is called node
by node, between which only ages and nodes change).

A wait that fails registers nothing. `GiveUp` changes `waits` alone: the node keeps
its `WaitResource` and the edges stay, while the transaction goes on, still
growing, and may wait for something else. Three histories say what the graph
then still owes the locks. `asked` is what each transaction ever waited for: every
edge leads to a holder of something asked for (`Asks`, in `EdgesTrue`), and a
transaction that holds or awaits all it asked for is `Loyal`: its edges are its
wait. `unseen` are the waits whose holder has freed another resource since they
began, which `RemoveHolder` takes out of the graph (line 443); `WaitsShown` excuses
these and no others. `forgotten` are the transactions the detector removed, as
victims or as stale. `Takes` and `Wants` bound who takes and awaits what, `Impatient`
whose waits may fail; the proofs leave all three free.

### 3.3 The approval: `QuorumDecision`, `ApprovalWorkflow`

`ApprovalWorkflow` is one request, from `CreateApprovalRequest` to
`FinalizeApprovalWorkflowActivity`. The creating handler, the submitting
handlers, the workflow and the database are interleaved at each statement.
Activities run at least once: an attempt may fail before or after the effect of
any statement (`Fails`, of Temporal's retry policy) and is then repeated from the
top. The signal callback is `Receive`, then the two statements of the recording
activity, then `CheckQuorum`; the timer's callback, `Expire`, runs when the loop
selects it, that is between callbacks. Request rows and assignments are the two
tables the handler and the workflow both write.

The workflow's file as committed does not compile (`AddReceive` is given the
timer's future, two variables are unused) and `main.go` registers no worker; the
model follows the evident reading, the future's callback runs when it is ready.

`QuorumDecision` is the vote: a vote per person, one decision, approval on a
quorum of people, rejection only when no quorum is possible, no expiry of a
quorum, execution after approval only. `RefinesQuorum` maps `actionsMap` to the
votes; the counters must be shown to count people.

### 3.4 The payment adapter: `PaymentAdapter`

One instance and one partition. `Submit`, `SubmitFull` and `GiveUp` are
`ConsumeClaim` with `handleWithRetry` around `WorkerPool.Submit`; the message is
marked in that same step, before its job runs, as the code does. `Take` is a
worker's receive; `Check`, `MarkProcessing`, `Produce`, `SendToDLQ` and `MarkDone`
are the calls of `processMessage`, each with its failing twin, and `Panic` is
`recover`. `OpenFile` to `ArchiveFails` is the batch processor on the same records.
A session ends by SIGTERM, after which `Run` returns, or by a rebalance, after
which `Setup` closes the channel `ready` a second time and panics: both lead to
`Restart` at the committed offset. `Crash` is the same without a warning.

Status records are per content (`createMessageHandler` hashes the message);
whether a content parses is data (`Bad`), and so is what a file splits into.
Jobs use the session's context, so once it is cancelled each Redis call may
fail without a fault. `cut`, `dropped`, `filed` and `unguarded` are history: they
say which errors, refusals, batch marks and overlapping checks have happened,
and the properties say that nothing else explains a loss, a stuck record or a
second output.

### 3.5 The block indexer: `BlockIndexer`

`Enter`, `Load`, `Poll`, `Advance` are `SyncBlocks`; `Check`, `Fetch`,
`InsertBlock`, `InsertTransaction`, `WriteExtras`, `Mark` are the calls of
`syncBlockRange` for a block, in its order, each with the failure the code
handles: an error returned is `Abort`, which leads back to the same range; the
errors it ignores let the loop go on (`Mark`, `Advance`, `WriteExtras`) or leave a
warning (`InsertTransaction`). A failed write may have taken effect.
`WriteExtras` is what happens to one transaction's metadata, logs and transfers,
counted as a whole.

`Reindex` and `Stop` are exported and have no caller in the repository (the HTTP
handler for a reindex only answers); they are modelled as the interface they
are, with any number of callers of `Reindex`, each of whose contexts may end
(`Cancel`). main's context ends with the process, which is `Crash`; compose
restarts the container, and Redis and Postgres keep their data on volumes.

The node is the environment: `Mine` and `Reorg`. A reorg replaces at most
`MaxReorg` blocks, and `MaxReorg <= Confirmations` is assumed, which is what
`ConfirmationBlocks` is for: `SyncBlocks` has no other protection, and nothing
compares parent hashes. The head does not go down.

### 3.6 The audit log: `AuditChain`

An event stands for its `IntegrityHash`. `Enqueue` and `LogInline` are
`LogEventAsync` with and without room (or after `Close`), the second holding
`bufferMu` until its `LogEvent` returns; `Call` is a client's own `LogEvent`; `Take`
is `eventProcessor`. `ReadLast`, `ReadIndex` and `Insert` are the three queries of
`LogEvent`, which every goroutine runs without a common lock or transaction:
the first may fail unnoticed, the others end the call with an error, and an
INSERT that fails may have been made. `Close` takes the mutex and closes the
channel, `CloseReturns` waits for the processors. `Crash` is a death at any point;
a SIGTERM is one, since main never calls `Close`. `VerifyIntegrity` is an operator
over the rows, in every order that `ORDER BY chain_index` allows; what it
compares covers the chain fields, which the stored hash does not, and the time,
which PostgreSQL cuts to microseconds (`Exact`). OpenSearch and the WORM files
are left out: an error of theirs is logged, and nothing reads them back.

### 3.7 The evidence service: `EvidenceChain`

A call of `GenerateEvidence` is three steps, between which others run: `Make`
reads the latest hash of the type and draws the ID, `Store` enters the evidence
in the map, `AddToChain` in the chain. The latest hash is that of the first
evidence of the type a loop over the map meets, hence of any
(`LatestChainHash`). IDs are the clock's nanoseconds, and `Tick` need not come
between two calls. Everything is in memory: `Die` loses it, whatever ends the
process; one cause is in the code, `maintainChains` iterating over the chains with
no lock while `addToChain` adds one. `SealChain` sets a status nothing looks at,
and a root hash the next entry replaces: `late` are the calls that came to a chain
already sealed. The documents want them kept out, the code lets them in;
`SealedIsFinal` states the documents' side and is violated, and the properties
that hold take neither: `ReturnedIsKept` asks for an entry only of calls that
came before the seal.

## 4. Runs

| run | checks | shows |
|---|---|---|
| `RedisLock` | `MutualExclusion` `LeaseSafe` `RefinesLease` `TokensDistinct` `OrphanExpires` | two clients on one resource with faults, crashes and the watchdog: nobody trusts a lock another holds, no trust outlives the key, tokens tell holders apart as long as `INCR` answers, a key nobody holds lapses |
| `RedisLockTokenOrder` | `TokensIncrease` violated | the token is drawn before the lock is won |
| `CycleSearch` | `OnlyCycles` `EveryDeadlockReported` `Terminates` | the search, on all 4096 graphs of four transactions in every order: cycles only, one of every deadlock, and an end |
| `Detector` | `GraphTrue` `NoMissedDeadlock` `VictimDeadlocked` `CyclesCleared` `StaleCleared` | three two-phase transactions, three resources, all strategies, overlapping cycles, priorities -1, 0 and 1, waits given up and begun anew: what edges mean, that no deadlock is missed, what stands behind a victim, and which cycles the detector clears by itself |
| `ApprovalWorkflow` | `RefinesQuorum` `FirstDecisionCounts` `VotesOnRecord` `ClosedWithDecision` `StatusFinal` `WorkflowEnds` | the vote, its record and its end, with failures |
| `ApprovalLeftPending` | `NotLeftPending` violated | the handler's insert makes the workflow's fail |
| `PaymentAdapter` | `VerdictBacked` `OutputOnce` `StuckOnlyIfCut` `NoSilentLoss` `ArchivedIsDone` `CatchesUp` | a payment sent twice and found in a file, and a malformed message: what redelivery, crashes, faults and the batch processor can do to them |
| `BlockIndexer` | `IndexIsCanonical` `CursorBacked` `MarkerBacked` `RepeatsHaveACause` `CatchesUp` | the main loop and a `Reindex` over a chain that grows and forks, with faults, crashes, `Stop` and cancellation |
| `AuditChain` | `GapFree` `OrderKept` `Accounted` `OneHolder` `Settled` `InlineEnds` `CloseEnds` | four events through a buffer of one, two event processors and a caller, with a fault or a crash: no gap, no disorder, no loss but to an error or a crash, no event in two hands, a caller that logs under `bufferMu` lets it go, and a `Close` that ends |
| `AuditCleanLogVerifies` | `CleanLogVerifies` violated | `VerifyIntegrity` reports a log nobody has touched |
| `EvidenceChain` | `ReturnedIsKept` `BeginsOnce` `OrderKept` | three calls for one type and one for another, colliding IDs, seals and the death of the process |
| `EvidenceSealed` | `SealedIsFinal` violated | a sealed chain takes another entry, and its root hash is replaced |

Some names join two statements that are proved one by one: `GraphTrue` is
`EdgesTrue` and `WaitsShown`, `VotesOnRecord` is `ActedIsRecorded` and
`ExecutedOnRecord`, `ReturnedIsKept` is `Chained` and `EntryFindsEvidence`. The type
invariants are proved for every module with a proof (section 5) and are in no run.

Each property has a mutant in `PROJECT.json`: a change of one definition, of the
kind a slip in that code would make, under which the run fails.

### Bounds, and why they are enough

* Lock: one resource, since keys do not interact; two clients, the owner and
  another; an owner ID for each acquisition of theirs that can be alive at once
  (IDs are reused when nothing refers to them); TTL 1, so that a lease is fresh,
  about to lapse, or over when a call is in flight; two tokens, after which
  acquisitions stop (`MaxToken`). The safety part was run with TTL 2 and four
  owner IDs, too, with the same result; liveness excludes the symmetry that
  needs, and the proofs cover every TTL. Token order takes three tokens.
* Search: four nodes give cycles of every length to 4, two disjoint cycles,
  overlapping ones, and trees that lead into them.
* Detector: three transactions, each with a resource of its own; `t2` may wait for
  those of both others and may give up waits. So there are rings of two and of
  three which overlap in two transactions; edges of waits long given up next to
  those of the wait under way; victims nobody waits for; and waits that a release
  of another resource hid. One ring has no priority above 0 and the one it
  overlaps has one, so that `resolveWaitDie` leaves one and breaks the other. A
  wait is new or older than both thresholds. The invariant of the proofs was also
  run with all three impatient (1.4 million states), and with all taking and
  awaiting all resources (12.6 million).
* Approval: two of three without faults; two of two with two faults, enough to
  exhaust an activity of `MaxAttempts` 2; an approver named twice with one; no
  time given with two. The code's three attempts are in `ApprovalLeftPending`.
  `MaxPending` 2 lets two decisions of one user be under way at once.
* Payments: two workers can be at the two copies of a payment at once while the
  queue, of one place, holds or refuses the third message; `MaxTries` 2 has a
  refusal that is retried and one that is final (the code's four differ in
  waiting only). The file has a copy of the same payment. `Budgets` allows a
  crash with a fault, or one expired record: with more, the history variables
  hold everything, and nothing new is told apart.
* Indexer: four heights with one confirmation and ranges of two give a full, a
  cut and an empty range, and a fork at the head while a block below it is
  copied; block 0 has two transactions on one fork, one of which moves to block
  1 on the other. Troubles come in pairs (two faults, a fault with a reorg, a
  crash or a `Stop`, a `Stop` with a crash or a cancellation): one trouble, and
  one more while its consequences are dealt with.
* Audit log: four events, one of them invalid, let two processors and a caller
  be in `LogEvent` at once while an event waits in the buffer of one; the next
  meets a full buffer. One fault or one crash, at any step. Two events that
  are logged one after the other suffice for `AuditCleanLogVerifies`.
* Evidence: three calls of a type are the fewest of which one can follow two
  that overlap; a call of another type stays apart. The clock has two values,
  so that IDs collide or differ; one death.

### Fairness

`OrphanExpires` assumes that time passes, and that the watchdog's call that is
under way comes to an end; clients may stop anywhere. `CyclesCleared` assumes the
ticker and the detector's goroutine run, as `Start` makes them, and that time
passes; no transaction is obliged to do anything, and it may be that `Cleanup`
never does its work. Going by priority the detector clears every cycle; with
`waitDie` it may leave one whose priorities are all 0 or below; going by timeout it
needs that waits do not begin again for ever, since each beginning resets
the clock of its node. `StaleCleared` is about what is left: if `Cleanup` does its
work again and again and waits do not begin for ever, no cycle stays under any
strategy. The search is sequential.
`WorkflowEnds` assumes what Temporal is there for: an activity that is under way
is attempted until it has answered or used up its attempts, and the timer of a
waiting loop fires. Neither handlers nor approvers are obliged to do anything.
`CatchesUp` of the payments assumes that the claim's goroutine, the auto-commit,
each worker and the scanner run, and that a session which is closing ends and
the service is started again, as its deployment does; faults, crashes and
expiries are bounded. `CatchesUp` of the indexer assumes that each loop that is
under way takes its next step, the sleeps being finite; nobody is obliged to
call `Reindex`, and faults, crashes and reorgs are bounded. It has one exception,
which is real: a `Reindex` that takes the flag before main's goroutine does keeps
main's loop out for good (main.go:132 does not try again), and when the context
of its caller ends nobody indexes any more. `Settled`, `InlineEnds` and `CloseEnds` of the
audit log assume that goroutines run and that a query ends, with a result or an error;
nobody is obliged to log or to close. The evidence service has no liveness
property: its calls run to their end by themselves.

## 5. Proofs

The eight proof modules hold for every value of the constants that satisfies the
`ASSUME`s named beside them.

* `RedisLockProofs`. Any clients and resources, any TTL, any faults. `TypeCorrect`
  and `Removal` need nothing more; `LeaseSafety`, `Exclusion` and `Refinement`
  assume `Extensions \subseteq {TTL}`: callers extend by the TTL they acquired
  with, as the watchdog does (without it the key can be brought to
  expire before its holder's `ExpiresAt`, section 6). `MutualExclusion`
  is not inductive. What is: an owner ID is used by one client; for a trusted
  lock the key exists with that owner and at least as much time left; and the
  same holds of the expiry an extension has computed and not yet assigned, by
  the client or by its watchdog, because it was computed before the script that
  moved the key's. `DistinctTokens` assumes `EnableFencing` and that `INCR` is
  answered (`~CounterFaults`; the code makes a token up when it is not, section
  6), and nothing of the extensions. The tokens of Locks in use are distinct from
  the reply of `INCR` on, not only once the lock is won, and none is ahead of the
  counter (`TokenInv`). `OrphansOnlyAge` is what `OrphanExpires` comes to without
  its fairness: an owner ID a key still has is never drawn again and never
  copied from anywhere, so nobody can renew that key, and each `Tick` lowers its
  time left, a natural number.
* `CycleSearchProofs`. Any finite set of nodes. `Soundness`: the stack is a
  simple path, `recStack` is its set of nodes, so a neighbour on `recStack` closes
  a cycle. For what is not missed the search is looked at from a set K of nodes:
  as long as no cycle was reported from a node of K, finished nodes of K lead,
  within K, to finished ones only and no set of them is a knot, whatever was
  reported elsewhere (`Front`, for every K at once: `FrontInv`). With K the whole
  graph this is `Completeness`, with K a component `AllReported`: a component with
  a cycle is a knot (`ComponentIsKnot`; reachability is the least closed set, so
  no induction is needed), and when the search has ended a knot has had a cycle
  reported from it (`KnotReported`). `SearchImplemented` reads a reported list
  backwards as one way round its transactions. `WorkShrinks`: what is left to do,
  the edges not ranged over, two steps for each node not visited and one for
  each that is being searched, is a natural number every step lowers
  (`LinearTime`).
* `DetectorProofs`. Any finite set of transactions, any resources, thresholds and
  strategies, anybody impatient. The invariant relates each node to the locks:
  what it says is held is held; what it says is wanted was asked for, and is the
  wait under way if there is one; edges are among `Asks`; who waits unseen waits
  for somebody. From it `TypeCorrect`, `EdgesTrueAlways`, `WaitsShownAlways` and
  `GraphTrueAlways`, for transactions two-phase or not. `VictimDeadlockedAlways` and
  `NothingMissed` are for two-phase transactions (`TwoPhase`). The first needs that
  the cycles under work still lead around by what was asked for, while nobody on
  them has begun to release (`CyclesKnit`): the search finds them so because edges
  are among `Asks`, and what a growing transaction holds it keeps; such a ring of
  loyal transactions is a deadlock (`LoyalReal`). The second needs that whoever waits
  is still growing (`WaitersGrow`) and an unseen wait is for one who is not
  (`UnseenWait`), so that a deadlock shows as a set everyone in which has an edge
  into it, and that a finite set of that kind has a cycle: a smallest one is all
  on one way round (`WalkReturns`, `LeftOut`, `CycleInside`; the smallest exists
  because strict inclusion of finite sets is well founded, `WFMin`, which takes
  the place of an induction).
* `ApprovalProofs`. Any finite set of users, any policy whose quorum is between
  one and the number of slots (`chk_policy_config`), any number of attempts and
  failures. `Refinement` needs that the counters are the cardinalities of the
  sets of voters (`CountInv`), that outside the callback there is no quorum
  unnoticed (`FlowInv`), and that an early rejection by slots is hopeless by
  people. `FirstDecision` needs the queue: a user's first accepted decision is
  the first of the user's in the channel until it is counted (`QueueInv`).
  `Recorded` and `OnRecord` need that a vote missing from the ledger has used up
  the attempts of an activity (`LedgerInv`). `Closed` and `FinalStays` need that a
  final row is the decision of a workflow that is finalizing or done (`RowInv`).
* `PaymentProofs`. Any topic, files, number of workers, size of the queue, number
  of attempts, faults, crashes and expiries. `IInv` joins the properties to what
  a worker has done by the time it records its verdict (`WorkInv`), that a
  payload never checked by two workers at once has one owner, whose record turns
  all others away (`OwnerInv`, from which `OutputOnce`), and that each message of
  the file in hand is done or still to be read (`FileInv`).
* `IndexerProofs`. Any chain, forks, batch size and confirmations, any finite set
  of `Reindex` callers, any number of troubles, with `MaxReorg <= Confirmations`.
  `IndexCanonical`: what is stored or held is at or below the safe height
  (`StoredSafe`), where no reorg reaches (`SafeKept`), so that the two fetches of a
  block agree (`HoldsChain`). `CursorIsBacked` and `MarkerIsBacked`: the tables only
  grow (`Grows`), and each loop has covered all heights below its own and all
  transactions before the one in hand (`Reached`). `RepeatsExplained`: for each
  transaction, writings done plus writings pending in loops that are inside its
  block are at most the passes paid for, plus one while a pass is on its way or
  has left its marker (`Paid`); a reorg does not move a transaction that was
  written, because it is mined in one place (`FromChain`).
* `AuditProofs`. Any finite set of events, any number of processors and callers,
  any capacity, faults and crashes. `GapFree` and `OrderKept` speak of rows, but
  are decided by what a goroutine has read and not yet written: `ChainInv` says of
  an event whose last hash is read that its link is a last one of the rows of
  that moment (`Back`), and of one whose index is read that all smaller indexes
  are taken and those of that moment lie below (`Ahead`); rows are only added, so
  both last until the INSERT. `OneHolder` is what keeps the fields of a row from
  changing afterwards; with `Accounted` and `ClosedIsDrained` it is inductive.
  `WorkShrinks` and `DrainGoesOn`: the steps still owed to the events in the
  buffer and in hand (`Owed`) only get fewer unless a client hands in another
  event, and once the log is closed what the workers owe gets fewer whatever
  clients do. Each step of theirs takes one away, because no other goroutine or
  place in the buffer owes the same event's step (`OneHolder`).
* `EvidenceProofs`. Any calls and types, clock and number of deaths. `Chained` and
  `OrderKept` need that the calls in `prior` have returned for good (`PriorInv`);
  `EntryFindsEvidence` that an ID in the map leads to kept evidence of that ID
  (`MapInv`); `BeginsOnce` that the rival for the ID has begun and keeps it
  (`BeginInv`), since it may have replaced the evidence and be of another type.

Every invariant and every action property a run expects to hold is stated by a
theorem. Model-checked only: liveness (`OrphanExpires`, `Terminates`,
`CyclesCleared`, `StaleCleared`, `WorkflowEnds`, the two `CatchesUp`, `Settled`,
`InlineEnds`, `CloseEnds`), which the prover does not reach under fairness. Of
four of these the proofs have the part that does not depend on a scheduler,
which needs only that somebody goes on: `OrphansAge` (of `OrphanExpires`),
`LinearTime` (`Terminates`), `OwedShrinks` (`Settled`) and `DrainShrinks`
(`CloseEnds`).

## 6. Where the code and its documents disagree

Four violations are kept as runs (`findings` in `PROJECT.json`): tokens out of
order with grants; a request that stays pending; a log that does not verify
although nobody touched it; a sealed chain that goes on growing. Others are read
off the code, or show with other constants, with the state that leads there in
the models or next to them:

* `Extend` by less than the time left brings the key's expiry forward before (or,
  when the reply is lost, without) `lock.ExpiresAt` following, and two clients hold
  an unexpired `Lock` (QUICK_START.md:44, "This code has exclusive access"):
  `RedisLock` with TTL 2 and an extension of 1 violates `MutualExclusion`.
* `RemoveHolder` drops every edge to the transaction, those of waiters for its
  other resources too (`deadlock_detector.go:443`): `DeadlockDetector` with two
  transactions that lock after a release (`TwoPhase` FALSE) violates
  `NoMissedDeadlock`.

* `GetLock` computes `ExpiresAt` from the JSON of the acquisition, which renewals
  do not rewrite.
* `Release` and `Extend` of a lapsed lock return the client library's nil error,
  since `validateScript` answers nil; the branch for `ErrLockNotHeld` after
  `Validate` is not reached that way.
* When `INCR` fails the token is made up locally and may coincide with another's.
* `resolveWaitDie` aborts nobody when all priorities are 0 or below, and
  `abortTransaction` removes a node of the graph but tells no transaction.
* `WaitResource` is never cleared and edges outlive their wait: after a wait that
  failed, a transaction's edges lead to holders of what it no longer wants, and
  one that waits for nothing is found on a cycle and aborted
  (`deadlock_detector_test.go:132`: "No cycle because tx1 doesn't wait for anything").
  In `Detector` a victim need not be deadlocked then; `VictimDeadlocked` without its
  condition `Loyal` is violated. `Cleanup` removes holders whose last wait is old.
* When both the handler and the workflow write assignments, the status shown
  counts each approver twice; the workflow's own count is not affected.
* A retried recording leaves two ledger entries for one vote; a decision handed
  in while the workflow finishes is acknowledged and not counted.
* `sensing/payments/README.md:36` has idempotency prevent duplicate processing:
  `Check` and `MarkProcessing` are two calls, and two workers may pass the first
  together (`OutputOnce` names this case and no other). Line 38 has the dead
  letter queue isolate failed messages: a message whose `Produce` fails is not
  sent there and stays PROCESSING, and one the full queue refuses is only logged.
* `workerpool.go:139` uses `fmt`, which the file does not import.
* The indexer as committed does not compile (`NewIndexerService` returns an
  undefined `*IndexingService`, `NewRedisClient` is not defined, `tx.BlockHash()` and
  `tx.Index()` are not methods of go-ethereum's transaction); the model follows
  the evident reading.
* `InsertLog` passes JSON to a column of type `TEXT[]`; a transaction fetched with
  its block has no receipt, so its status is never known; `total_indexed_blocks`
  counts ranges; `GetBlockByHash` answers from the cache entry of block 0.
* `Reindex` resets the cursor although it may then be refused, and clears no
  marker (indexer.go:372, a TODO), so that a full reindex writes nothing anew;
  the HTTP handler that reports "Reindex operation triggered" triggers nothing.
  `Stop` does not stop the loop; it only lets a second one start.
* `neam/SECURITY.md:59` has hashing link each audit record to the subsequent one:
  of two goroutines that read the same last hash one leaves a record without
  successor, and both records have one chain index (`OrderKept` allows for it). The
  integrity hash would not verify for a second reason: times are hashed with
  nanoseconds and stored with microseconds.
* `neam/audit-service` seals nothing: the first seal has an empty `previous_seal_id`
  for a UUID column, and `SetRepository` has no caller; its WORM files fail for
  want of their directory.
* `neam/reporting/forensic/README.md:21` has an entry refer to its immediate
  predecessor: the parent is any evidence of the type (`LatestChainHash`), and the
  chain check of `CheckTamper` therefore fails on chains of three that nobody
  touched; its `expectedHash` is not used. No route leads to `SealChain`.

## 7. Not modelled

The components marked `not_modelled` in `PROJECT.json`, with their reasons. Within
the modelled parts: read-only operations (`GetLock`, `GetActiveLocks`,
`GetLockStats`, the approval handlers that list and show), the number and timing
of acquisition retries, `Start` and `Stop` of the goroutines, the detector's
report channel, the hash chain of the ledger, delegations beyond the check that
lets them through, notifications, and the batch and human-in-the-loop workflows;
duplicates made by the broker itself, several partitions and instances of the
payment adapter, and the methods nobody calls (`SubmitWithTimeout`, the idempotency
manager's `Delete` and `GetStatus`); the indexer's event queue, which nothing fills,
its query side and caches, reorgs deeper than the confirmations, and a
`StartBlock` that changes between two runs; sealing, access control and search of
the audit service, and events logged by other services over HTTP beyond the
call itself; `CheckTamper` and the verification records of the evidence service,
which change nothing.
