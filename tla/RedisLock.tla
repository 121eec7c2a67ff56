----------------------------- MODULE RedisLock -----------------------------
(***************************************************************************)
(* The distributed lock of neam/shared/src/coordination: LockManager       *)
(* (lock_manager.go) over RedisLockProvider (redis_lock_provider.go) and   *)
(* its LeaseWatchdog.  Every call to Redis is a step of its own; a fault   *)
(* may make it fail before or after it took effect.  Clients are           *)
(* processes, each with its own LockManager, provider, fencing token       *)
(* generator and watchdog goroutine; Redis is shared.                      *)
(*                                                                         *)
(* Time.  An instant in the future is represented by the time left until   *)
(* it (RemainingTTL in the code), from its full duration down to 0, then   *)
(* Past.  Tick lets one unit elapse everywhere.                            *)
(***************************************************************************)
EXTENDS Integers

CONSTANTS
    Clients,        \* processes using the lock
    Resources,      \* resourceType:resourceID pairs, one Redis key each
    OwnerIds,       \* the uuids a provider draws owner IDs from
    NoOwner,        \* owner of a lock not yet stamped
    Nil,            \* no entry, no lock, no renewal under way
    TTL,            \* LockConfig.TTL
    Extensions,     \* values callers pass to Extend as additionalTTL
    Interval,       \* LockConfig.WatchdogInterval
    EnableFencing,  \* LockConfig.EnableFencingToken
    RedisFaults,    \* may a lock script fail, or its reply be lost?
    CounterFaults,  \* may INCR fail, or its reply be lost?
    MaxToken        \* bound on the fencing tokens issued (model bound)

ASSUME ConstAssumption ==
    /\ TTL \in Nat \ {0}
    /\ Extensions \subseteq Nat \ {0}
    /\ Interval \in Nat \ {0}
    /\ MaxToken \in Nat \ {0}
    /\ EnableFencing \in BOOLEAN
    /\ RedisFaults \in BOOLEAN
    /\ CounterFaults \in BOOLEAN
    /\ NoOwner \notin OwnerIds

VARIABLES
    store,      \* Redis: the value and PX expiry under each lock key, or Nil
    counter,    \* Redis: the fencing token counter
    gen,        \* FencingTokenGenerator.current of each process
    pc,         \* where each client is in Acquire / Extend / Release
    lock,       \* the *Lock of each client
    pend,       \* newExpiry and additionalTTL of an Extend call under way
    reg,        \* clients whose lock is in their watchdog's activeLocks
    watch,      \* the watchdog's own Extend call under way, or Nil
    granted,    \* history: token of the latest lock granted on a resource
    result      \* error of each client's latest LockManager call, once it returned

vars == <<store, counter, gen, pc, lock, pend, reg, watch, granted, result>>

Past == -1
Durations == {TTL} \cup Extensions
Left == {n \in Int : n >= Past}          \* Past, or the units left
Tokens == Nat

Entry == [owner : OwnerIds, token : Tokens, json : Left, left : Nat]
Lock  == [res : Resources, owner : OwnerIds \cup {NoOwner}, token : Tokens,
          left : Left, ttl : Durations]
Renewal == [left : Left, ttl : Durations]
Watch == [phase : {"script", "assign"}, res : Resources, owner : OwnerIds,
          left : Left, ttl : Durations]

ASSUME NilAssumption == Nil \notin Entry \cup Lock \cup Renewal \cup Watch

Acquiring == {"token", "stamp", "setnx", "backoff"}
Holding   == {"held", "extValidate", "extScript", "extAssign"}
Releasing == {"relValidate", "relScript"}
Results   == {"nil", "NotAcquired", "NotHeld", "RedisError"}

TypeOK ==
    /\ store \in [Resources -> Entry \cup {Nil}]
    /\ counter \in Nat
    /\ gen \in [Clients -> Nat]
    /\ pc \in [Clients -> {"idle"} \cup Acquiring \cup Holding \cup Releasing]
    /\ lock \in [Clients -> Lock \cup {Nil}]
    /\ pend \in [Clients -> Renewal \cup {Nil}]
    /\ reg \in SUBSET Clients
    /\ watch \in [Clients -> Watch \cup {Nil}]
    /\ granted \in [Resources -> Nat]
    /\ result \in [Clients -> Results]

----------------------------------------------------------------------------
(* Helpers *)

\* A lock request: the arguments of Acquire before the Lock is built.
Request(r) == [res |-> r, owner |-> NoOwner, token |-> 0, left |-> Past, ttl |-> TTL]

\* The Lua scripts compare the stored owner_id with the caller's.
Owns(r, o) == store[r] # Nil /\ store[r].owner = o
OwnsLock(c) == Owns(lock[c].res, lock[c].owner)

\* uuid.New() never returns an ID that is still referenced anywhere.
Unused(o) ==
    /\ \A r \in Resources : store[r] # Nil => store[r].owner # o
    /\ \A c \in Clients : /\ lock[c] # Nil => lock[c].owner # o
                          /\ watch[c] # Nil => watch[c].owner # o

IsExpired(l) == l.left = Past

\* The client's lock is in its hands and has not passed ExpiresAt.
Believes(c) == pc[c] \in Holding /\ ~IsExpired(lock[c])

Goto(c, where) == pc' = [pc EXCEPT ![c] = where]
Return(c, err, where) == Goto(c, where) /\ result' = [result EXCEPT ![c] = err]
Call(c, where) == Return(c, "nil", where)

----------------------------------------------------------------------------
Init ==
    /\ store = [r \in Resources |-> Nil]
    /\ counter = 0
    /\ gen = [c \in Clients |-> 0]
    /\ pc = [c \in Clients |-> "idle"]
    /\ lock = [c \in Clients |-> Nil]
    /\ pend = [c \in Clients |-> Nil]
    /\ reg = {}
    /\ watch = [c \in Clients |-> Nil]
    /\ granted = [r \in Resources |-> 0]
    /\ result = [c \in Clients |-> "nil"]

(* LockManager.Acquire -> RedisLockProvider.Acquire *)

Acquire(c, r) ==
    /\ pc[c] = "idle"
    /\ Call(c, "token")
    /\ lock' = [lock EXCEPT ![c] = Request(r)]
    /\ UNCHANGED <<store, counter, gen, pend, reg, watch, granted>>

\* Mutant of NextToken: tokens are generated locally.
NextTokenLocal(c, token) ==
    /\ gen[c] < MaxToken
    /\ token = gen[c] + 1
    /\ UNCHANGED counter

\* FencingTokenGenerator.Next: INCR, or current+1 when Redis does not answer.
NextToken(c, token) ==
    \/ /\ counter < MaxToken
       /\ token = counter + 1
       /\ counter' = counter + 1
    \/ /\ CounterFaults
       /\ gen[c] < MaxToken
       /\ token = gen[c] + 1
       /\ counter' \in {counter} \cup {n \in {counter + 1} : n <= MaxToken}

GenToken(c) ==
    /\ pc[c] = "token"
    /\ Goto(c, "stamp")
    /\ \/ /\ ~EnableFencing
          /\ lock' = [lock EXCEPT ![c].token = 1]
          /\ UNCHANGED <<counter, gen>>
       \/ /\ EnableFencing
          /\ \E token \in 1..MaxToken :
                /\ NextToken(c, token)
                /\ gen' = [gen EXCEPT ![c] = token]
                /\ lock' = [lock EXCEPT ![c].token = token]
    /\ UNCHANGED <<store, pend, reg, watch, granted, result>>

\* now := time.Now(); the Lock is built, ExpiresAt = now + TTL.
Stamp(c) ==
    /\ pc[c] = "stamp"
    /\ Goto(c, "setnx")
    /\ \E o \in OwnerIds :
          /\ Unused(o)
          /\ lock' = [lock EXCEPT ![c].owner = o, ![c].left = TTL]
    /\ UNCHANGED <<store, counter, gen, pend, reg, watch, granted, result>>

\* Mutant of PutEntry: the SET without NX.
PutEntryOverwriting(c) ==
    /\ store' = [store EXCEPT ![lock[c].res] =
                    [owner |-> lock[c].owner, token |-> lock[c].token,
                     json |-> lock[c].left, left |-> TTL]]
    /\ granted' = [granted EXCEPT ![lock[c].res] = lock[c].token]

\* SET key value PX ttl NX, taking effect for client c.
PutEntry(c) ==
    /\ store[lock[c].res] = Nil
    /\ store' = [store EXCEPT ![lock[c].res] =
                    [owner |-> lock[c].owner, token |-> lock[c].token,
                     json |-> lock[c].left, left |-> TTL]]
    /\ granted' = [granted EXCEPT ![lock[c].res] = lock[c].token]

SetNX(c) ==
    /\ pc[c] = "setnx"
    /\ PutEntry(c)
    /\ Return(c, "nil", "held")
    /\ UNCHANGED <<counter, gen, lock, pend, reg, watch>>

\* The key exists, or the call fails: before, or after it took effect.
SetNXFails(c) ==
    /\ pc[c] = "setnx"
    /\ \/ /\ store[lock[c].res] # Nil \/ RedisFaults
          /\ UNCHANGED <<store, granted>>
       \/ /\ RedisFaults
          /\ PutEntry(c)
    /\ Goto(c, "backoff")
    /\ lock' = [lock EXCEPT ![c] = Request(lock[c].res)]
    /\ UNCHANGED <<counter, gen, pend, reg, watch, result>>

\* How many retries there are is the subject of module AcquireRetry.
Retry(c) ==
    /\ pc[c] = "backoff"
    /\ Goto(c, "token")
    /\ UNCHANGED <<store, counter, gen, lock, pend, reg, watch, granted, result>>

GiveUp(c) ==
    /\ pc[c] = "backoff"
    /\ Return(c, "NotAcquired", "idle")
    /\ lock' = [lock EXCEPT ![c] = Nil]
    /\ UNCHANGED <<store, counter, gen, pend, reg, watch, granted>>

----------------------------------------------------------------------------
(* LockManager.Extend -> Validate, then RedisLockProvider.Extend *)

BeginExtend(c, additional) ==
    /\ pc[c] = "held"
    /\ Call(c, "extValidate")
    /\ pend' = [pend EXCEPT ![c] = [left |-> Past, ttl |-> additional]]
    /\ UNCHANGED <<store, counter, gen, lock, reg, watch, granted>>

\* The script's reply, then newExpiry := time.Now().Add(additionalTTL).
ExtendValidated(c) ==
    /\ pc[c] = "extValidate"
    /\ OwnsLock(c)
    /\ Goto(c, "extScript")
    /\ pend' = [pend EXCEPT ![c].left = pend[c].ttl]
    /\ UNCHANGED <<store, counter, gen, lock, reg, watch, granted, result>>

\* PEXPIRE replaces the time to live of an entry.
Pexpire(entry, ttl) == [entry EXCEPT !.left = ttl]

\* Mutant of ExtendScript: PEXPIRE without the owner check.
ExtendScriptAnyOwner(c) ==
    /\ pc[c] = "extScript"
    /\ store[lock[c].res] # Nil
    /\ store' = [store EXCEPT ![lock[c].res] = Pexpire(@, pend[c].ttl)]
    /\ Goto(c, "extAssign")
    /\ UNCHANGED <<counter, gen, lock, pend, reg, watch, granted, result>>

ExtendScript(c) ==
    /\ pc[c] = "extScript"
    /\ OwnsLock(c)
    /\ store' = [store EXCEPT ![lock[c].res] = Pexpire(@, pend[c].ttl)]
    /\ Goto(c, "extAssign")
    /\ UNCHANGED <<counter, gen, lock, pend, reg, watch, granted, result>>

\* lock.ExpiresAt = newExpiry; lock.TTL = additionalTTL.
Renewed(l, expiry, ttl) == [l EXCEPT !.left = expiry, !.ttl = ttl]

\* Mutant of ExtendAssign: the new ExpiresAt is computed after the reply.
ExtendAssignLateClock(c) ==
    /\ pc[c] = "extAssign"
    /\ lock' = [lock EXCEPT ![c] = Renewed(lock[c], pend[c].ttl, pend[c].ttl)]
    /\ pend' = [pend EXCEPT ![c] = Nil]
    /\ Return(c, "nil", "held")
    /\ UNCHANGED <<store, counter, gen, reg, watch, granted>>

ExtendAssign(c) ==
    /\ pc[c] = "extAssign"
    /\ lock' = [lock EXCEPT ![c] = Renewed(lock[c], pend[c].left, pend[c].ttl)]
    /\ pend' = [pend EXCEPT ![c] = Nil]
    /\ Return(c, "nil", "held")
    /\ UNCHANGED <<store, counter, gen, reg, watch, granted>>

\* Extend returns an error and leaves the Lock as it was.  validateScript
\* answers nil when the owner does not match; the client library reports a
\* nil reply as an error, so Validate returns that error and never (false, nil).
ExtendFails(c) ==
    /\ \/ /\ pc[c] = "extValidate"
          /\ ~OwnsLock(c) \/ RedisFaults
          /\ Return(c, "RedisError", "held")
          /\ UNCHANGED store
       \/ /\ pc[c] = "extScript"
          /\ ~OwnsLock(c)
          /\ Return(c, "NotHeld", "held")
          /\ UNCHANGED store
       \/ /\ pc[c] = "extScript"
          /\ RedisFaults
          /\ Return(c, "RedisError", "held")
          /\ \/ UNCHANGED store
             \/ /\ OwnsLock(c)
                /\ store' = [store EXCEPT ![lock[c].res] = Pexpire(@, pend[c].ttl)]
    /\ pend' = [pend EXCEPT ![c] = Nil]
    /\ UNCHANGED <<counter, gen, lock, reg, watch, granted>>

----------------------------------------------------------------------------
(* LockManager.Release -> Validate, then RedisLockProvider.Release *)

\* The deferred function of a callback: Unregister, then Release.
BeginRelease(c) ==
    /\ pc[c] = "held"
    /\ Call(c, "relValidate")
    /\ reg' = reg \ {c}
    /\ UNCHANGED <<store, counter, gen, lock, pend, watch, granted>>

ReleaseValidated(c) ==
    /\ pc[c] = "relValidate"
    /\ OwnsLock(c)
    /\ Goto(c, "relScript")
    /\ UNCHANGED <<store, counter, gen, lock, pend, reg, watch, granted, result>>

\* DEL, only if the stored owner is the caller.
DeleteEntry(c) ==
    /\ OwnsLock(c)
    /\ store' = [store EXCEPT ![lock[c].res] = Nil]

ReleaseScript(c) ==
    /\ pc[c] = "relScript"
    /\ DeleteEntry(c)
    /\ Return(c, "nil", "idle")
    /\ lock' = [lock EXCEPT ![c] = Nil]
    /\ UNCHANGED <<counter, gen, pend, reg, watch, granted>>

ReleaseFails(c) ==
    /\ \/ /\ pc[c] = "relValidate"
          /\ ~OwnsLock(c) \/ RedisFaults
          /\ Return(c, "RedisError", "idle")
          /\ UNCHANGED store
       \/ /\ pc[c] = "relScript"
          /\ ~OwnsLock(c)
          /\ Return(c, "NotHeld", "idle")
          /\ UNCHANGED store
       \/ /\ pc[c] = "relScript"
          /\ RedisFaults
          /\ Return(c, "RedisError", "idle")
          /\ UNCHANGED store \/ DeleteEntry(c)
    /\ lock' = [lock EXCEPT ![c] = Nil]
    /\ UNCHANGED <<counter, gen, pend, reg, watch, granted>>

----------------------------------------------------------------------------
(* LeaseWatchdog *)

Register(c) ==
    /\ pc[c] = "held"
    /\ c \notin reg
    /\ reg' = reg \cup {c}
    /\ UNCHANGED <<store, counter, gen, pc, lock, pend, watch, granted, result>>

\* renewAll finds the lock close to expiry and computes the new ExpiresAt.
WatchdogTick(c) ==
    /\ c \in reg
    /\ watch[c] = Nil
    /\ lock[c].left < Interval
    /\ watch' = [watch EXCEPT ![c] =
                    [phase |-> "script", res |-> lock[c].res, owner |-> lock[c].owner,
                     left |-> lock[c].ttl, ttl |-> lock[c].ttl]]
    /\ UNCHANGED <<store, counter, gen, pc, lock, pend, reg, granted, result>>

\* Mutant of WatchdogScript: PEXPIRE without the owner check.
WatchdogScriptAnyOwner(c) ==
    /\ watch[c] # Nil
    /\ watch[c].phase = "script"
    /\ store[watch[c].res] # Nil
    /\ store' = [store EXCEPT ![watch[c].res] = Pexpire(@, watch[c].ttl)]
    /\ watch' = [watch EXCEPT ![c].phase = "assign"]
    /\ UNCHANGED <<counter, gen, pc, lock, pend, reg, granted, result>>

WatchdogScript(c) ==
    /\ watch[c] # Nil
    /\ watch[c].phase = "script"
    /\ Owns(watch[c].res, watch[c].owner)
    /\ store' = [store EXCEPT ![watch[c].res] = Pexpire(@, watch[c].ttl)]
    /\ watch' = [watch EXCEPT ![c].phase = "assign"]
    /\ UNCHANGED <<counter, gen, pc, lock, pend, reg, granted, result>>

\* The Lock the watchdog points to may have been released in the meantime.
WatchdogAssign(c) ==
    /\ watch[c] # Nil
    /\ watch[c].phase = "assign"
    /\ lock' = IF lock[c] # Nil /\ lock[c].owner = watch[c].owner
               THEN [lock EXCEPT ![c] = Renewed(lock[c], watch[c].left, watch[c].ttl)]
               ELSE lock
    /\ watch' = [watch EXCEPT ![c] = Nil]
    /\ UNCHANGED <<store, counter, gen, pc, pend, reg, granted, result>>

\* Any error drops the lock from activeLocks: it is not renewed again.
WatchdogFails(c) ==
    /\ watch[c] # Nil
    /\ watch[c].phase = "script"
    /\ \/ /\ ~Owns(watch[c].res, watch[c].owner) \/ RedisFaults
          /\ UNCHANGED store
       \/ /\ RedisFaults
          /\ Owns(watch[c].res, watch[c].owner)
          /\ store' = [store EXCEPT ![watch[c].res] = Pexpire(@, watch[c].ttl)]
    /\ reg' = IF lock[c] # Nil /\ lock[c].owner = watch[c].owner
              THEN reg \ {c} ELSE reg
    /\ watch' = [watch EXCEPT ![c] = Nil]
    /\ UNCHANGED <<counter, gen, pc, lock, pend, granted, result>>

----------------------------------------------------------------------------
(* The environment *)

\* The process dies and is restarted: only what Redis holds survives.
Crash(c) ==
    /\ pc[c] # "idle"
    /\ Goto(c, "idle")
    /\ gen' = [gen EXCEPT ![c] = 0]
    /\ lock' = [lock EXCEPT ![c] = Nil]
    /\ pend' = [pend EXCEPT ![c] = Nil]
    /\ reg' = reg \ {c}
    /\ watch' = [watch EXCEPT ![c] = Nil]
    /\ result' = [result EXCEPT ![c] = "nil"]
    /\ UNCHANGED <<store, counter, granted>>

\* One unit of time: Redis drops the keys whose PX expiry has passed.
Aged(left) == IF left = Past THEN Past ELSE left - 1
AgeAll(f) == [c \in Clients |-> IF f[c] = Nil THEN Nil
                                ELSE [f[c] EXCEPT !.left = Aged(f[c].left)]]

Tick ==
    /\ store' = [r \in Resources |->
                    IF store[r] = Nil \/ store[r].left = 0 THEN Nil
                    ELSE [store[r] EXCEPT !.left = @ - 1, !.json = Aged(@)]]
    /\ lock' = AgeAll(lock)
    /\ pend' = AgeAll(pend)
    /\ watch' = AgeAll(watch)
    /\ UNCHANGED <<counter, gen, pc, reg, granted, result>>

ClientStep(c) ==
    \/ \E r \in Resources : Acquire(c, r)
    \/ GenToken(c) \/ Stamp(c) \/ SetNX(c) \/ SetNXFails(c) \/ Retry(c) \/ GiveUp(c)
    \/ \E e \in Extensions : BeginExtend(c, e)
    \/ ExtendValidated(c) \/ ExtendScript(c) \/ ExtendAssign(c) \/ ExtendFails(c)
    \/ BeginRelease(c) \/ ReleaseValidated(c) \/ ReleaseScript(c) \/ ReleaseFails(c)
    \/ Register(c)

WatchdogStep(c) ==
    WatchdogTick(c) \/ WatchdogScript(c) \/ WatchdogAssign(c) \/ WatchdogFails(c)

Next ==
    \/ \E c \in Clients : ClientStep(c) \/ WatchdogStep(c) \/ Crash(c)
    \/ Tick

Spec == Init /\ [][Next]_vars

\* The scheduler runs a watchdog's pending call to its end, and time passes.
Fairness ==
    /\ WF_vars(Tick)
    /\ \A c \in Clients : WF_vars(WatchdogScript(c) \/ WatchdogAssign(c) \/ WatchdogFails(c))

FairSpec == Spec /\ Fairness

----------------------------------------------------------------------------
(* Safety *)

\* Two clients never act on one resource at a time, each judging by the Lock
\* in its hands, whatever delays, lost replies, crashes and renewals occur
\* between them (redis_lock_provider.go: "only one client can acquire").
MutualExclusion ==
    \A c, d \in Clients :
        c # d /\ Believes(c) /\ Believes(d) => lock[c].res # lock[d].res

\* A client's ExpiresAt never outlives the key that protects it: as long as
\* the client trusts its Lock, Redis holds it, and for at least as long.
\* Acquire and Extend read the clock before the script runs for this reason.
LeaseSafe ==
    \A c \in Clients :
        Believes(c) => OwnsLock(c) /\ lock[c].left <= store[lock[c].res].left

\* A key disappears before its expiry only when the client it was granted
\* to ends its Release: a late or duplicate Release by a client whose
\* lease lapsed never frees the lock of the next holder.
RemovedOnlyByOwner ==
    [][\A r \in Resources :
        store[r] # Nil /\ store[r].left > 0 /\ store'[r] = Nil =>
            \E c \in Clients : /\ pc[c] = "relScript"
                               /\ OwnsLock(c) /\ lock[c].res = r]_vars

\* As long as INCR is answered, whatever becomes of the other calls, two clients
\* never hold Locks with one fencing token, so a resource can tell a lapsed
\* holder from its successor.
TokensDistinct ==
    \A c, d \in Clients :
        c # d /\ pc[c] \in Holding /\ pc[d] \in Holding =>
            lock[c].token # lock[d].token

----------------------------------------------------------------------------
(* The inductive invariant behind LeaseSafe and MutualExclusion *)

Extending == {"extValidate", "extScript", "extAssign"}
Stamped == {"setnx"} \cup Holding \cup Releasing

\* Where a client is tells what it has in its hands.
Shape ==
    \A c \in Clients :
        /\ pc[c] = "idle" <=> lock[c] = Nil
        /\ pc[c] \in Extending => pend[c] # Nil
        /\ pc[c] \in Stamped => lock[c].owner \in OwnerIds
        /\ pc[c] \in {"token", "stamp", "backoff"} => lock[c].owner = NoOwner
        /\ c \in reg => pc[c] \in Holding

\* No two clients have one owner ID, and a renewal under way for the Lock in
\* the client's hands is one it began after the Lock was granted.
OwnersUnique ==
    /\ \A c, d \in Clients :
          pc[c] \in Stamped /\ pc[d] \in Stamped /\ lock[c].owner = lock[d].owner => c = d
    /\ \A c \in Clients :
          pc[c] \in Stamped /\ watch[c] # Nil /\ lock[c].owner = watch[c].owner =>
              pc[c] # "setnx" /\ lock[c].res = watch[c].res

\* No time left exceeds TTL: every instant was computed as now + TTL.
Bounded ==
    \A c \in Clients :
        /\ lock[c] # Nil => lock[c].left <= TTL
        /\ pend[c] # Nil => pend[c].left <= TTL
        /\ watch[c] # Nil => watch[c].left <= TTL

\* A new expiry about to be assigned to the Lock is already safe.
Covered(c, left) == left # Past => OwnsLock(c) /\ left <= store[lock[c].res].left
InFlightSafe ==
    \A c \in Clients :
        /\ pc[c] = "extAssign" => Covered(c, pend[c].left)
        /\ pc[c] \in Holding /\ watch[c] # Nil =>
              (watch[c].phase = "assign" /\ watch[c].owner = lock[c].owner =>
                   Covered(c, watch[c].left))

IInv == TypeOK /\ Shape /\ OwnersUnique /\ Bounded /\ LeaseSafe /\ InFlightSafe

\* The invariant behind TokensDistinct: a Lock carries its token from the reply
\* of INCR until the client drops it, no token is ahead of the counter, and no
\* two such Locks, stamped or not yet, carry the same one.
Numbered == {"stamp"} \cup Stamped
TokenInv ==
    /\ \A c \in Clients : pc[c] \in Numbered => lock[c].token \in 1..counter
    /\ \A c, d \in Clients :
          c # d /\ pc[c] \in Numbered /\ pc[d] \in Numbered =>
              lock[c].token # lock[d].token

----------------------------------------------------------------------------
(* Liveness *)

Stored(o) == \E r \in Resources : Owns(r, o)
Referenced(o) ==
    \E c \in Clients : \/ (lock[c] # Nil /\ lock[c].owner = o)
                       \/ (watch[c] # Nil /\ watch[c].owner = o)

\* The lock of a client that crashed, or that dropped its Lock when Release
\* failed or the reply of Acquire was lost, is freed by Redis in the end:
\* nobody else's renewals keep it alive.
OrphanExpires ==
    \A o \in OwnerIds : (Stored(o) /\ ~Referenced(o)) ~> ~Stored(o)

\* The half of it no scheduler decides: once nobody refers to the owner of a
\* key nobody ever does, and the key's time left only shrinks, with each Tick.
OrphansAge ==
    [][\A r \in Resources :
        store[r] # Nil /\ ~Referenced(store[r].owner) =>
            \/ store'[r] = Nil
            \/ /\ store'[r].owner = store[r].owner
               /\ ~Referenced(store[r].owner)'
               /\ store'[r].left <= store[r].left
               /\ Tick => store'[r].left < store[r].left]_vars

----------------------------------------------------------------------------
(* Refinement *)

Entitled == [r \in Resources |-> {c \in Clients : Believes(c) /\ lock[c].res = r}]

Lease == INSTANCE LeaseLock WITH entitled <- Entitled

\* The lock service keeps the promise of an abstract lease.
RefinesLease == Lease!Spec

----------------------------------------------------------------------------
(* What the documents say and the code does not do *)

\* Of two locks granted on a resource the later one carries the higher
\* token (redis_lock_provider_test.go, "releasing and reacquiring gives
\* higher fencing token").
TokensIncrease == [][\A r \in Resources : granted'[r] >= granted[r]]_granted
=============================================================================
