----------------------------- MODULE AuditChain -----------------------------
(***************************************************************************)
(* The audit log of neam/audit-service: AuditService (services/            *)
(* audit_service.go) on the table audit_events (repository/                *)
(* audit_repository.go).  LogEvent links an event to the last stored one   *)
(* with two queries and an INSERT, in no transaction and under no lock;    *)
(* it is run by the callers, by the five goroutines that drain the buffer  *)
(* of LogEventAsync, and by LogEventAsync itself when the buffer is full   *)
(* or closed, which then holds bufferMu.                                   *)
(*                                                                         *)
(* An event stands for its IntegrityHash: the hash is taken of the event's *)
(* own fields before PreviousHash and ChainIndex are set.  link and index  *)
(* are these two fields, in memory until the event is stored and in its    *)
(* row from then on.  Every query may fail, an INSERT before or after it   *)
(* took effect; the process may die at any point, and a SIGTERM is such a  *)
(* death, because main never calls Close.  OpenSearch and the WORM files   *)
(* are left out: their errors are only logged.                             *)
(***************************************************************************)
EXTENDS Integers, Sequences, FiniteSets

CONSTANTS
    Events,     \* what the clients have to log
    Invalid,    \* events validateEvent refuses
    Exact,      \* events whose times survive the microseconds of PostgreSQL
    Workers,    \* goroutines running eventProcessor
    Callers,    \* goroutines of the clients that may run LogEvent
    Closer,     \* the goroutine that calls Close
    Buffer,     \* capacity of eventBuffer
    None,       \* no event, the empty hash, a free mutex
    Budgets     \* how many crashes and faults may happen (model bounds)

ASSUME AuditAssumption ==
    /\ IsFiniteSet(Events)
    /\ Invalid \subseteq Events /\ Exact \subseteq Events
    /\ Workers \cap Callers = {}
    /\ Closer \notin Workers \cup Callers
    /\ None \notin Events \cup Workers \cup Callers \cup {Closer}
    /\ Buffer \in Nat \ {0}
    /\ Budgets \subseteq [crash : Nat, fault : Nat]

VARIABLES
    todo,       \* events nobody has handed in yet
    buffer,     \* eventBuffer
    pc,         \* where each goroutine is in LogEvent
    job,        \* the event it is logging
    link,       \* PreviousHash of each event
    index,      \* ChainIndex of each event
    stored,     \* events with a row in audit_events
    bufferMu,   \* the goroutine that holds bufferMu
    closed,     \* Close has been called
    before,     \* history: events stored when LogEvent asked for the last hash
    blind,      \* history: events for which that query failed
    dropped,    \* history: events met by an error or a crash
    budget      \* crashes and faults still possible

run   == <<pc, job>>
chain == <<link, index, stored>>
past  == <<before, blind>>
vars  == <<todo, buffer, run, chain, bufferMu, closed, past, dropped, budget>>

Loggers == Workers \cup Callers
\* Steps of LogEvent before and after the last hash is known.
Places == {"idle", "last", "index", "insert"}

TypeOK ==
    /\ todo \subseteq Events
    /\ buffer \in Seq(Events) /\ Len(buffer) <= Buffer
    /\ pc \in [Loggers -> Places]
    /\ job \in [Loggers -> Events \cup {None}]
    /\ \A p \in Loggers : pc[p] = "idle" <=> job[p] = None
    /\ link \in [Events -> Events \cup {None}]
    /\ index \in [Events -> Nat]
    /\ stored \subseteq Events
    /\ bufferMu \in Callers \cup {Closer, None}
    /\ closed \in BOOLEAN
    /\ before \in [Events -> SUBSET Events]
    /\ blind \subseteq Events /\ dropped \subseteq Events
    /\ budget \in [crash : Nat, fault : Nat]

Init ==
    /\ todo = Events /\ buffer = <<>>
    /\ pc = [p \in Loggers |-> "idle"] /\ job = [p \in Loggers |-> None]
    /\ link = [e \in Events |-> None] /\ index = [e \in Events |-> 0]
    /\ stored = {} /\ bufferMu = None /\ closed = FALSE
    /\ before = [e \in Events |-> {}] /\ blind = {} /\ dropped = {}
    /\ budget \in Budgets

-----------------------------------------------------------------------------
(* Handing an event in.                                                    *)

Start(p, e) ==
    /\ pc' = [pc EXCEPT ![p] = "last"]
    /\ job' = [job EXCEPT ![p] = e]

HandedIn(e) == e \in todo /\ todo' = todo \ {e}

\* A client calls LogEvent itself.
Call(c, e) ==
    /\ HandedIn(e)
    /\ pc[c] = "idle"
    /\ Start(c, e)
    /\ UNCHANGED <<buffer, chain, bufferMu, closed, past, dropped, budget>>

\* LogEventAsync with room in the buffer.
Enqueue(e) ==
    /\ HandedIn(e)
    /\ bufferMu = None /\ ~closed
    /\ Len(buffer) < Buffer
    /\ buffer' = Append(buffer, e)
    /\ UNCHANGED <<run, chain, bufferMu, closed, past, dropped, budget>>

\* Mutant of LogInline: a full buffer drops the event.
LogInlineUnlessFull(c, e) ==
    /\ HandedIn(e)
    /\ bufferMu = None /\ pc[c] = "idle"
    /\ \/ closed /\ bufferMu' = c /\ Start(c, e)
       \/ ~closed /\ Len(buffer) = Buffer /\ UNCHANGED <<bufferMu, run>>
    /\ UNCHANGED <<buffer, chain, closed, past, dropped, budget>>

\* LogEventAsync without: it logs the event under bufferMu.
LogInline(c, e) ==
    /\ HandedIn(e)
    /\ bufferMu = None /\ pc[c] = "idle"
    /\ closed \/ Len(buffer) = Buffer
    /\ bufferMu' = c
    /\ Start(c, e)
    /\ UNCHANGED <<buffer, chain, closed, past, dropped, budget>>

\* Mutants of Take: only while the channel is open; only under bufferMu.
TakeOpen(w) ==
    /\ pc[w] = "idle"
    /\ buffer # <<>> /\ ~closed
    /\ buffer' = Tail(buffer)
    /\ Start(w, Head(buffer))
    /\ UNCHANGED <<todo, chain, bufferMu, closed, past, dropped, budget>>
TakeLocked(w) ==
    /\ pc[w] = "idle"
    /\ buffer # <<>> /\ bufferMu = None
    /\ buffer' = Tail(buffer)
    /\ Start(w, Head(buffer))
    /\ UNCHANGED <<todo, chain, bufferMu, closed, past, dropped, budget>>

\* eventProcessor receives an event; a closed channel is drained first.
Take(w) ==
    /\ pc[w] = "idle"
    /\ buffer # <<>>
    /\ buffer' = Tail(buffer)
    /\ Start(w, Head(buffer))
    /\ UNCHANGED <<todo, chain, bufferMu, closed, past, dropped, budget>>

-----------------------------------------------------------------------------
(* LogEvent.                                                               *)

Fault == budget.fault > 0 /\ budget' = [budget EXCEPT !.fault = @ - 1]
NoFault == UNCHANGED budget

Goto(p, place) == pc' = [pc EXCEPT ![p] = place] /\ UNCHANGED <<job, bufferMu>>

\* LogEvent returns; the deferred Unlock of LogEventAsync follows.
Return(p) ==
    /\ pc' = [pc EXCEPT ![p] = "idle"]
    /\ job' = [job EXCEPT ![p] = None]
    /\ bufferMu' = IF bufferMu = p THEN None ELSE bufferMu

\* Mutant of Fail: the mutex is unlocked on the way of success only.
FailLocked(p) ==
    /\ pc' = [pc EXCEPT ![p] = "idle"]
    /\ job' = [job EXCEPT ![p] = None]
    /\ dropped' = dropped \cup {job[p]}
    /\ UNCHANGED bufferMu

\* It returns an error, which nobody but the log sees when the event came
\* through LogEventAsync.
Fail(p) == Return(p) /\ dropped' = dropped \cup {job[p]}

Refuse(p) ==
    /\ pc[p] = "last"
    /\ job[p] \in Invalid
    /\ Fail(p)
    /\ UNCHANGED <<todo, buffer, chain, closed, past, budget>>

Last == {e \in stored : \A f \in stored : index[f] <= index[e]}

\* Mutant of GetLastHash: the hash of the first row.
GetFirstHash(h) ==
    IF stored = {} THEN h = None
    ELSE h \in {e \in stored : \A f \in stored : index[e] <= index[f]}

\* Any row with the highest chain_index, "" when there is no row.
GetLastHash(h) == IF stored = {} THEN h = None ELSE h \in Last

\* A failure is logged, and the event gets "" as its previous hash.
ReadLast(p) ==
    /\ pc[p] = "last"
    /\ job[p] \notin Invalid
    /\ before' = [before EXCEPT ![job[p]] = stored]
    /\ \/ /\ \E h \in Events \cup {None} :
                 GetLastHash(h) /\ link' = [link EXCEPT ![job[p]] = h]
          /\ NoFault /\ UNCHANGED blind
       \/ /\ Fault
          /\ link' = [link EXCEPT ![job[p]] = None]
          /\ blind' = blind \cup {job[p]}
    /\ Goto(p, "index")
    /\ UNCHANGED <<todo, buffer, index, stored, closed, dropped>>

\* Mutant of GetNextChainIndex: one too far.
GetChainIndexAfter(i) ==
    IF stored = {} THEN i = 1 ELSE \E e \in Last : i = index[e] + 2

GetNextChainIndex(i) ==
    IF stored = {} THEN i = 0 ELSE \E e \in Last : i = index[e] + 1

ReadIndex(p) ==
    /\ pc[p] = "index"
    /\ \/ /\ \E i \in 0 .. Cardinality(Events) + 1 :
                 GetNextChainIndex(i) /\ index' = [index EXCEPT ![job[p]] = i]
          /\ Goto(p, "insert")
          /\ NoFault /\ UNCHANGED dropped
       \/ Fault /\ Fail(p) /\ UNCHANGED index
    /\ UNCHANGED <<todo, buffer, link, stored, closed, past>>

\* Mutant of Insert: an INSERT that failed is tried again from the start,
\* whether it took effect or not.
InsertRetried(p) ==
    /\ pc[p] = "insert"
    /\ \/ /\ stored' = stored \cup {job[p]}
          /\ Return(p)
          /\ NoFault
       \/ /\ Fault /\ Goto(p, "last")
          /\ stored' \in {stored, stored \cup {job[p]}}
    /\ UNCHANGED <<todo, buffer, link, index, closed, past, dropped>>

Insert(p) ==
    /\ pc[p] = "insert"
    /\ \/ /\ stored' = stored \cup {job[p]}
          /\ Return(p)
          /\ NoFault /\ UNCHANGED dropped
       \/ /\ Fault /\ Fail(p)
          /\ stored' \in {stored, stored \cup {job[p]}}
    /\ UNCHANGED <<todo, buffer, link, index, closed, past>>

LogEvent(p) == Refuse(p) \/ ReadLast(p) \/ ReadIndex(p) \/ Insert(p)

-----------------------------------------------------------------------------
(* VerifyIntegrity: reads all rows in the order of chain_index.  No row is *)
(* ever marked as sealed: the first seal has "" for the UUID column        *)
(* previous_seal_id and is refused by the table, and MarkSealed comes      *)
(* after it.                                                               *)

\* The hash computed anew covers the fields that were set after it.
HashMatches(e) == e \in Exact /\ link[e] = None /\ index[e] = 0

\* Rows of one index come in any order.
Listings == {s \in [1 .. Cardinality(stored) -> stored] :
                /\ \A i, j \in DOMAIN s : i # j => s[i] # s[j]
                /\ \A i, j \in DOMAIN s : i < j => index[s[i]] <= index[s[j]]}

\* Verified of the report.
VerifyIntegrity(s) ==
    /\ \A i \in DOMAIN s : HashMatches(s[i])
    /\ \A i \in DOMAIN s \ {1} : link[s[i]] = s[i - 1]

-----------------------------------------------------------------------------
(* Close and the death of the process.                                     *)

Close ==
    /\ bufferMu = None /\ ~closed
    /\ closed' = TRUE
    /\ bufferMu' = Closer
    /\ UNCHANGED <<todo, buffer, run, chain, past, dropped, budget>>

\* bufferWg: every eventProcessor has left its loop.
Drained == buffer = <<>> /\ \A w \in Workers : pc[w] = "idle"

CloseReturns ==
    /\ bufferMu = Closer
    /\ Drained
    /\ bufferMu' = None
    /\ UNCHANGED <<todo, buffer, run, chain, closed, past, dropped, budget>>

\* An INSERT that was under way may still take effect.
Crash ==
    /\ budget.crash > 0 /\ budget' = [budget EXCEPT !.crash = @ - 1]
    /\ \E S \in SUBSET {job[p] : p \in {q \in Loggers : pc[q] = "insert"}} :
          stored' = stored \cup S
    /\ dropped' = dropped \cup {buffer[i] : i \in 1 .. Len(buffer)}
                          \cup {job[p] : p \in {q \in Loggers : pc[q] # "idle"}}
    /\ buffer' = <<>>
    /\ pc' = [p \in Loggers |-> "idle"] /\ job' = [p \in Loggers |-> None]
    /\ bufferMu' = None /\ closed' = FALSE
    /\ UNCHANGED <<todo, link, index, past>>

HandIn == \E e \in Events : Enqueue(e) \/ \E c \in Callers : Call(c, e) \/ LogInline(c, e)

Next ==
    \/ HandIn
    \/ \E w \in Workers : Take(w)
    \/ \E p \in Loggers : LogEvent(p)
    \/ Close \/ CloseReturns
    \/ Crash

\* Goroutines run, and a query ends with a result or an error.
Fairness ==
    /\ \A w \in Workers : WF_vars(Take(w))
    /\ \A p \in Loggers : WF_vars(LogEvent(p))
    /\ WF_vars(CloseReturns)

Spec == Init /\ [][Next]_vars
FairSpec == Spec /\ Fairness

-----------------------------------------------------------------------------
(* Properties.                                                             *)

\* However writers overlap, fail and crash, the chain indexes in the table
\* start at 0 and leave no number out, although index and row are made by
\* two statements (audit_service.go:115-122).
GapFree ==
    \A e \in stored : \A i \in 0 .. index[e] - 1 : \E f \in stored : index[f] = i

\* Order is kept: an event comes after every event that was stored when its
\* LogEvent read the last hash, and its previous hash is that of a last one
\* among those, never an older one.  It is "" only for want of such an event
\* or because the query failed (audit_service.go:108-112).
OrderKept ==
    \A e \in stored :
        /\ \A f \in before[e] : index[f] < index[e]
        /\ link[e] = None => e \in blind \/ before[e] = {}
        /\ link[e] # None => /\ link[e] \in before[e]
                             /\ \A f \in before[e] : index[f] <= index[link[e]]

\* An event that was handed in is in the buffer, in work, in the table, or
\* was met by an error or a crash.  Neither a full nor a closed buffer loses
\* one (audit_service.go:146-157).
Accounted ==
    \A e \in Events \ todo :
        \/ e \in stored \cup dropped
        \/ \E i \in 1 .. Len(buffer) : buffer[i] = e
        \/ \E p \in Loggers : job[p] = e

\* No event is in two hands at once, and none in work or in the buffer is
\* stored already: what LogEvent writes into the event (audit_service.go:
\* 94-119) is never written to a row's event, nor by two goroutines.
OneHolder ==
    /\ todo \cap stored = {}
    /\ \A p, q \in Loggers : job[p] = job[q] => p = q \/ job[p] = None
    /\ \A p \in Loggers : job[p] \notin todo \cup stored
    /\ \A i \in 1 .. Len(buffer) :
          /\ buffer[i] \notin todo \cup stored
          /\ \A p \in Loggers : job[p] # buffer[i]
          /\ \A j \in 1 .. Len(buffer) : buffer[i] = buffer[j] => i = j

\* Once Close has returned nothing waits in the buffer or in a worker, and
\* nothing gets there again (audit_service.go:376-387).
ClosedIsDrained == closed /\ bufferMu # Closer => Drained

\* Every event handed in ends in the table or with an error.
Settled == \A e \in Events : e \notin todo ~> e \in stored \cup dropped

\* A caller that logs its event under bufferMu lets the mutex go, whichever
\* of its three queries fails (audit_service.go:142-157); all other callers
\* and Close wait for that.
InlineEnds == \A c \in Callers : bufferMu = c ~> bufferMu # c

\* Close returns, or the process dies.
CloseEnds == bufferMu = Closer ~> bufferMu # Closer

\* The halves of these two no scheduler decides.  What the buffer and the
\* goroutines of P owe: for each event, the steps still to come.
StepsLeft == [idle |-> 0, last |-> 3, index |-> 2, insert |-> 1]
Owed(P) ==
    {x \in Events \X (1 .. 4) :
        \/ \E i \in 1 .. Len(buffer) : buffer[i] = x[1]
        \/ \E p \in P : job[p] = x[1] /\ x[2] <= StepsLeft[pc[p]]}

\* Nothing but a new event adds to what is owed, and every step of a goroutine
\* that logs takes from it: no event is taken up again.
OwedShrinks ==
    [][todo' = todo =>
          /\ Owed(Loggers)' \subseteq Owed(Loggers)
          /\ (\E p \in Loggers : LogEvent(p) \/ (p \in Workers /\ Take(p))) =>
                Owed(Loggers)' # Owed(Loggers)]_vars

\* Close waits for what the workers owe, to which clients that go on logging add
\* nothing.
DrainShrinks ==
    [][closed /\ closed' =>
          /\ Owed(Workers)' \subseteq Owed(Workers)
          /\ (\E w \in Workers : LogEvent(w) \/ Take(w)) => Owed(Workers)' # Owed(Workers)]_vars

\* audit_service.go:362, "Create a copy without the hash fields", so that
\* VerifyIntegrity finds the hash that LogEvent computed.  PreviousHash is
\* not cleared, and a log nobody touched does not verify.
CleanLogVerifies == \A s \in Listings : VerifyIntegrity(s)
=============================================================================
