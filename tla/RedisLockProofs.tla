-------------------------- MODULE RedisLockProofs --------------------------
(***************************************************************************)
(* Proofs about RedisLock, for any clients, resources and durations.  The  *)
(* invariant IInv is inductive in two layers: types and the shape of a     *)
(* client's data hold for every way Extend is called; lease safety needs   *)
(* renewals by TTL only, as the watchdog makes them.                       *)
(***************************************************************************)
EXTENDS RedisLock, TLAPS

Typed == TypeOK /\ Shape

USE DEF Holding, Acquiring, Releasing, Results, Tokens

\* Durations are positive, and Past is no time left.
LEMMA TTLType ==
    /\ TTL \in Nat /\ TTL \in Durations /\ \A t \in Durations : t \in Nat
    /\ Past \in Left /\ Nat \subseteq Left
    /\ \A x \in Left : x # Past => x \in Nat
  BY ConstAssumption DEF Past, Left, Durations

LEMMA TypedInit == Init => Typed
  BY ConstAssumption, TTLType, NilAssumption DEF Init, Typed, TypeOK, Shape, Extending, Stamped

\* A lock request and its stamped form are Locks.
LEMMA RequestType == \A r \in Resources : Request(r) \in Lock
  BY ConstAssumption, TTLType DEF Request, Lock

\* The fields of the records, and what updating some of them leaves alone.
LEMMA LockFields ==
    ASSUME NEW l \in Lock
    PROVE  l.res \in Resources /\ l.left \in Left /\ l.ttl \in Durations
  BY DEF Lock

LEMMA RenewalFields ==
    ASSUME NEW p \in Renewal PROVE p.left \in Left /\ p.ttl \in Durations /\ p.ttl \in Nat
  BY TTLType DEF Renewal

LEMMA WatchFields ==
    ASSUME NEW w \in Watch
    PROVE  /\ w.res \in Resources /\ w.owner \in OwnerIds
           /\ w.left \in Left /\ w.ttl \in Durations /\ w.ttl \in Nat
  BY TTLType DEF Watch

LEMMA Relock ==
    ASSUME NEW l \in Lock, NEW x \in Left, NEW t \in Durations
    PROVE  /\ Renewed(l, x, t) \in Lock
           /\ Renewed(l, x, t).owner = l.owner
           /\ Renewed(l, x, t).res = l.res
           /\ Renewed(l, x, t).left = x
  BY DEF Lock, Renewed

LEMMA PexpireType ==
    ASSUME NEW e \in Entry, NEW x \in Nat
    PROVE  Pexpire(e, x) \in Entry /\ Pexpire(e, x).owner = e.owner /\ Pexpire(e, x).left = x
  BY DEF Entry, Pexpire

LEMMA AgedType == \A x \in Left : Aged(x) \in Left
  BY DEF Aged, Left, Past

LEMMA AgedEntry ==
    ASSUME NEW e \in Entry, e.left # 0,
           NEW f, f = [e EXCEPT !.left = @ - 1, !.json = Aged(@)]
    PROVE  f.owner = e.owner /\ f.left = e.left - 1 /\ f \in Entry
<1>1. f = [owner |-> e.owner, token |-> e.token, json |-> Aged(e.json), left |-> e.left - 1]
  BY DEF Entry
<1> QED
  BY <1>1, AgedType DEF Entry

LEMMA AgedLock ==
    ASSUME NEW l \in Lock, NEW m, m = [l EXCEPT !.left = Aged(l.left)]
    PROVE  m \in Lock /\ m.owner = l.owner /\ m.res = l.res /\ m.left = Aged(l.left)
<1>1. m = [res |-> l.res, owner |-> l.owner, token |-> l.token, left |-> Aged(l.left), ttl |-> l.ttl]
  BY DEF Lock
<1> QED
  BY <1>1, AgedType DEF Lock

LEMMA AgedRenewal ==
    ASSUME NEW p \in Renewal, NEW q, q = [p EXCEPT !.left = Aged(p.left)]
    PROVE  q \in Renewal /\ q.left = Aged(p.left)
<1>1. q = [left |-> Aged(p.left), ttl |-> p.ttl]
  BY DEF Renewal
<1> QED
  BY <1>1, AgedType DEF Renewal

LEMMA AgedWatch ==
    ASSUME NEW w \in Watch, NEW v, v = [w EXCEPT !.left = Aged(w.left)]
    PROVE  /\ v \in Watch /\ v.left = Aged(w.left)
           /\ v.owner = w.owner /\ v.res = w.res /\ v.phase = w.phase
<1>1. v = [phase |-> w.phase, res |-> w.res, owner |-> w.owner, left |-> Aged(w.left), ttl |-> w.ttl]
  BY DEF Watch
<1> QED
  BY <1>1, AgedType DEF Watch

LEMMA TypedClientStep ==
    ASSUME Typed, NEW c \in Clients, ClientStep(c)
    PROVE  Typed'
<1> USE ConstAssumption, NilAssumption, TTLType DEF Typed, TypeOK, Shape, Extending, Stamped, Goto, Return, Call
<1>1. CASE \E r \in Resources : Acquire(c, r)
  BY <1>1, RequestType DEF Acquire, Request
<1>2. CASE GenToken(c)
  <2>1. lock[c] \in Lock
    BY <1>2 DEF GenToken
  <2>2. PICK token \in Nat : lock' = [lock EXCEPT ![c] = [lock[c] EXCEPT !.token = token]]
    BY <1>2 DEF GenToken
  <2>3. /\ lock'[c] \in Lock /\ lock'[c].owner = lock[c].owner
        /\ \A d \in Clients \ {c} : lock'[d] = lock[d]
    BY <2>1, <2>2 DEF Lock
  <2>4. counter' \in Nat /\ gen' \in [Clients -> Nat]
    BY <1>2 DEF GenToken, NextToken
  <2>5. TypeOK'
    BY <1>2, <2>1, <2>2, <2>3, <2>4 DEF GenToken
  <2>6. Shape'
    BY <1>2, <2>1, <2>2, <2>3 DEF GenToken
  <2> QED
    BY <2>5, <2>6
<1>3. CASE Stamp(c)
  <2>1. lock[c] \in Lock
    BY <1>3 DEF Stamp
  <2>2. PICK o \in OwnerIds :
           lock' = [lock EXCEPT ![c] = [lock[c] EXCEPT !.owner = o, !.left = TTL]]
    BY <1>3 DEF Stamp
  <2>3. lock'[c] = [lock[c] EXCEPT !.owner = o, !.left = TTL]
        /\ \A d \in Clients \ {c} : lock'[d] = lock[d]
    BY <2>2
  <2>4. lock'[c] \in Lock /\ lock'[c].owner = o
    <3>1. lock'[c] = [res |-> lock[c].res, owner |-> o, token |-> lock[c].token,
                      left |-> TTL, ttl |-> lock[c].ttl]
      BY <2>1, <2>3 DEF Lock
    <3> HIDE DEF Typed
    <3> QED BY <2>1, <3>1, TTLType DEF Lock
  <2>5. TypeOK'
    <3>1. lock' \in [Clients -> Lock \cup {Nil}]
      BY <2>2, <2>3, <2>4
    <3>2. pc' \in [Clients -> {"idle"} \cup Acquiring \cup Holding \cup Releasing]
      BY <1>3 DEF Stamp
    <3> QED
      BY <1>3, <3>1, <3>2 DEF Stamp
  <2>6. Shape'
    <3>1. lock[c] # Nil /\ lock'[c] # Nil /\ pc[c] = "stamp" /\ pc'[c] = "setnx"
      BY <1>3, <2>4 DEF Stamp
    <3>2. \A d \in Clients \ {c} : pc'[d] = pc[d] /\ lock'[d] = lock[d]
      BY <1>3, <2>3 DEF Stamp
    <3>3. pend' = pend /\ reg' = reg
      BY <1>3 DEF Stamp
    <3> QED
      BY <2>4, <3>1, <3>2, <3>3
  <2> QED
    BY <2>5, <2>6
<1>4. CASE SetNX(c)
  BY <1>4 DEF SetNX, PutEntry, Lock, Entry
<1>5. CASE SetNXFails(c)
  BY <1>5, RequestType DEF SetNXFails, PutEntry, Lock, Entry, Request
<1>6. CASE Retry(c)
  BY <1>6 DEF Retry
<1>7. CASE GiveUp(c)
  BY <1>7 DEF GiveUp
<1>8. CASE \E e \in Extensions : BeginExtend(c, e)
  <2> PICK e \in Extensions : BeginExtend(c, e)
    BY <1>8
  <2>1. [left |-> Past, ttl |-> e] \in Renewal
    BY DEF Renewal, Durations
  <2> QED
    BY <2>1 DEF BeginExtend
<1>9. CASE ExtendValidated(c)
  <2>1. pend[c] \in Renewal
    BY <1>9 DEF ExtendValidated
  <2>2. pend' = [pend EXCEPT ![c] = [pend[c] EXCEPT !.left = pend[c].ttl]]
    BY <1>9 DEF ExtendValidated
  <2>3. pend'[c] \in Renewal /\ \A d \in Clients \ {c} : pend'[d] = pend[d]
    BY <2>1, <2>2 DEF Renewal
  <2> QED
    BY <1>9, <2>1, <2>2, <2>3 DEF ExtendValidated
<1>10. CASE ExtendScript(c)
  <2>1. lock[c] \in Lock /\ pend[c] \in Renewal
    BY <1>10 DEF ExtendScript
  <2>2. lock[c].res \in Resources /\ pend[c].ttl \in Nat
    <3> HIDE DEF Typed
    <3> QED BY <2>1, LockFields, RenewalFields
  <2>3. store[lock[c].res] \in Entry
    BY <1>10, <2>2 DEF ExtendScript, OwnsLock, Owns
  <2>4. store' \in [Resources -> Entry \cup {Nil}]
    BY <1>10, <2>2, <2>3, PexpireType DEF ExtendScript
  <2> QED
    BY <1>10, <2>4 DEF ExtendScript
<1>11. CASE ExtendAssign(c)
  <2>1. lock[c] \in Lock /\ pend[c] \in Renewal
    BY <1>11 DEF ExtendAssign
  <2>2. pend[c].left \in Left /\ pend[c].ttl \in Durations
    BY <2>1 DEF Renewal
  <2>3. lock'[c] = Renewed(lock[c], pend[c].left, pend[c].ttl)
        /\ \A d \in Clients \ {c} : lock'[d] = lock[d]
    BY <1>11 DEF ExtendAssign
  <2>4. lock'[c] \in Lock /\ lock'[c].owner = lock[c].owner
    <3>1. /\ Renewed(lock[c], pend[c].left, pend[c].ttl) \in Lock
          /\ Renewed(lock[c], pend[c].left, pend[c].ttl).owner = lock[c].owner
      BY ONLY <2>1, <2>2, Relock
    <3> QED BY ONLY <2>3, <3>1
  <2> QED
    BY <1>11, <2>1, <2>3, <2>4 DEF ExtendAssign
<1>12. CASE ExtendFails(c)
  <2>1. pc[c] = "extScript" => lock[c] \in Lock /\ pend[c] \in Renewal
    BY DEF Extending
  <2>2. pc[c] = "extScript" => lock[c].res \in Resources /\ pend[c].ttl \in Nat
    BY ONLY <2>1, LockFields, RenewalFields
  <2>3. store' \in [Resources -> Entry \cup {Nil}]
    <3>1. CASE UNCHANGED store
      BY <3>1
    <3>2. CASE ~UNCHANGED store
      <4>1. /\ pc[c] = "extScript" /\ store[lock[c].res] # Nil
            /\ store' = [store EXCEPT ![lock[c].res] = Pexpire(@, pend[c].ttl)]
        BY <1>12, <3>2 DEF ExtendFails, OwnsLock, Owns
      <4>2. store[lock[c].res] \in Entry
        BY <4>1, <2>2
      <4>3. Pexpire(store[lock[c].res], pend[c].ttl) \in Entry
        BY ONLY <4>1, <4>2, <2>2, PexpireType
      <4> QED
        BY <4>1, <4>3
    <3> QED
      BY <3>1, <3>2
  <2> QED
    BY <1>12, <2>3 DEF ExtendFails
<1>13. CASE BeginRelease(c)
  BY <1>13 DEF BeginRelease
<1>14. CASE ReleaseValidated(c)
  BY <1>14 DEF ReleaseValidated
<1>15. CASE ReleaseScript(c)
  BY <1>15 DEF ReleaseScript, DeleteEntry
<1>16. CASE ReleaseFails(c)
  BY <1>16 DEF ReleaseFails, DeleteEntry
<1>17. CASE Register(c)
  BY <1>17 DEF Register
<1> QED
  BY <1>1, <1>2, <1>3, <1>4, <1>5, <1>6, <1>7, <1>8, <1>9, <1>10, <1>11, <1>12,
     <1>13, <1>14, <1>15, <1>16, <1>17 DEF ClientStep

LEMMA TypedStep == Typed /\ [Next]_vars => Typed'
<1> SUFFICES ASSUME Typed, [Next]_vars PROVE Typed'
  OBVIOUS
<1> USE ConstAssumption, NilAssumption, TTLType DEF Typed, TypeOK, Shape, Extending, Stamped, Goto
<1>1. CASE \E c \in Clients : ClientStep(c)
  BY <1>1, TypedClientStep
<1>2. CASE \E c \in Clients : WatchdogStep(c)
  <2> PICK c \in Clients : WatchdogStep(c)
    BY <1>2
  <2>1. CASE WatchdogTick(c)
    <3>1. lock[c] \in Lock
      BY <2>1 DEF WatchdogTick
    <3>2. watch' \in [Clients -> Watch \cup {Nil}]
      BY <2>1, <3>1, TTLType DEF WatchdogTick, Lock, Watch
    <3> QED
      BY <2>1, <3>2 DEF WatchdogTick
  <2>2. CASE WatchdogScript(c)
    <3>1. watch[c] \in Watch
      BY <2>2 DEF WatchdogScript
    <3>2. watch[c].res \in Resources /\ watch[c].ttl \in Nat
      BY <3>1, WatchFields
    <3>3. store' \in [Resources -> Entry \cup {Nil}]
      <4>1. store[watch[c].res] \in Entry
        BY <2>2, <3>2 DEF WatchdogScript, Owns
      <4>2. Pexpire(store[watch[c].res], watch[c].ttl) \in Entry
        BY ONLY <3>2, <4>1, PexpireType
      <4> QED
        BY <2>2, <4>2 DEF WatchdogScript
    <3>4. watch' \in [Clients -> Watch \cup {Nil}]
      BY <2>2, <3>1 DEF WatchdogScript, Watch
    <3> QED
      BY <2>2, <3>3, <3>4 DEF WatchdogScript
  <2>3. CASE WatchdogAssign(c)
    <3>1. watch[c] \in Watch
      BY <2>3 DEF WatchdogAssign
    <3>2. watch[c].left \in Left /\ watch[c].ttl \in Durations
      BY <3>1, WatchFields
    <3>3. CASE lock[c] # Nil /\ lock[c].owner = watch[c].owner
      <4>1. lock[c] \in Lock
        BY <3>3
      <4>2. lock'[c] = Renewed(lock[c], watch[c].left, watch[c].ttl)
            /\ \A d \in Clients \ {c} : lock'[d] = lock[d]
        BY <2>3, <3>3 DEF WatchdogAssign
      <4>3. lock'[c] \in Lock /\ lock'[c].owner = lock[c].owner
        <5>1. /\ Renewed(lock[c], watch[c].left, watch[c].ttl) \in Lock
              /\ Renewed(lock[c], watch[c].left, watch[c].ttl).owner = lock[c].owner
          BY ONLY <3>2, <4>1, Relock
        <5> QED BY ONLY <4>2, <5>1
      <4> QED
        BY <2>3, <3>3, <4>1, <4>2, <4>3 DEF WatchdogAssign
    <3>4. CASE ~(lock[c] # Nil /\ lock[c].owner = watch[c].owner)
      BY <2>3, <3>4 DEF WatchdogAssign
    <3> QED
      BY <3>3, <3>4
  <2>4. CASE WatchdogFails(c)
    <3>1. watch[c] \in Watch
      BY <2>4 DEF WatchdogFails
    <3>2. watch[c].res \in Resources /\ watch[c].ttl \in Nat
      BY <3>1, WatchFields
    <3>3. store' \in [Resources -> Entry \cup {Nil}]
      <4>1. store[watch[c].res] # Nil => store[watch[c].res] \in Entry
        BY <3>2
      <4>2. store[watch[c].res] # Nil => Pexpire(store[watch[c].res], watch[c].ttl) \in Entry
        BY ONLY <3>2, <4>1, PexpireType
      <4> QED
        BY <2>4, <4>2 DEF WatchdogFails, Owns
    <3> QED
      BY <2>4, <3>3 DEF WatchdogFails
  <2> QED
    BY <2>1, <2>2, <2>3, <2>4 DEF WatchdogStep
<1>3. CASE \E c \in Clients : Crash(c)
  BY <1>3 DEF Crash
<1>4. CASE Tick
  <2>1. store' \in [Resources -> Entry \cup {Nil}]
    <3> SUFFICES ASSUME NEW r \in Resources PROVE store'[r] \in Entry \cup {Nil}
      BY <1>4 DEF Tick
    <3>1. CASE store[r] = Nil \/ store[r].left = 0
      BY <1>4, <3>1 DEF Tick
    <3>2. CASE ~(store[r] = Nil \/ store[r].left = 0)
      <4>1. store[r] \in Entry /\ store[r].left # 0
        BY <3>2
      <4>2. store'[r] = [store[r] EXCEPT !.left = @ - 1, !.json = Aged(@)]
        BY <1>4, <3>2 DEF Tick
      <4> HIDE DEF Typed
      <4> QED
        BY <4>1, <4>2, AgedEntry
    <3> QED
      BY <3>1, <3>2
  <2>2. \A c \in Clients : /\ lock[c] = Nil => lock'[c] = Nil
                           /\ lock[c] # Nil => lock'[c] = [lock[c] EXCEPT !.left = Aged(lock[c].left)]
                           /\ pend[c] = Nil => pend'[c] = Nil
                           /\ pend[c] # Nil => pend'[c] = [pend[c] EXCEPT !.left = Aged(pend[c].left)]
                           /\ watch[c] = Nil => watch'[c] = Nil
                           /\ watch[c] # Nil => watch'[c] = [watch[c] EXCEPT !.left = Aged(watch[c].left)]
    BY <1>4 DEF Tick, AgeAll
  <2>3. \A c \in Clients :
           /\ lock[c] # Nil => lock'[c] \in Lock /\ lock'[c].owner = lock[c].owner
           /\ pend[c] # Nil => pend'[c] \in Renewal
           /\ watch[c] # Nil => watch'[c] \in Watch
    <3> SUFFICES ASSUME NEW c \in Clients
                 PROVE  /\ lock[c] # Nil => lock'[c] \in Lock /\ lock'[c].owner = lock[c].owner
                        /\ pend[c] # Nil => pend'[c] \in Renewal
                        /\ watch[c] # Nil => watch'[c] \in Watch
      OBVIOUS
    <3>1. lock[c] \in Lock \cup {Nil} /\ pend[c] \in Renewal \cup {Nil} /\ watch[c] \in Watch \cup {Nil}
      OBVIOUS
    <3> HIDE DEF Typed
    <3>2. lock[c] # Nil => lock'[c] \in Lock /\ lock'[c].owner = lock[c].owner
      BY <2>2, <3>1, AgedLock
    <3>3. pend[c] # Nil => pend'[c] \in Renewal
      BY <2>2, <3>1, AgedRenewal
    <3>4. watch[c] # Nil => watch'[c] \in Watch
      BY <2>2, <3>1, AgedWatch
    <3> QED
      BY <3>2, <3>3, <3>4
  <2>4. /\ lock' \in [Clients -> Lock \cup {Nil}]
        /\ pend' \in [Clients -> Renewal \cup {Nil}]
        /\ watch' \in [Clients -> Watch \cup {Nil}]
    BY <1>4, <2>2, <2>3 DEF Tick, AgeAll
  <2>5. UNCHANGED <<counter, gen, pc, reg, granted, result>>
    BY <1>4 DEF Tick
  <2>6. TypeOK'
    BY <2>1, <2>4, <2>5
  <2>7. Shape'
    <3> SUFFICES ASSUME NEW c \in Clients
                 PROVE  /\ (pc[c] = "idle") <=> (lock'[c] = Nil)
                        /\ pc[c] \in Extending => pend'[c] # Nil
                        /\ pc[c] \in Stamped => lock'[c].owner \in OwnerIds
                        /\ pc[c] \in {"token", "stamp", "backoff"} => lock'[c].owner = NoOwner
      BY <2>5
    <3>1. /\ lock'[c] = Nil <=> lock[c] = Nil
          /\ lock[c] # Nil => lock'[c].owner = lock[c].owner
      BY <2>2, <2>3
    <3>2. pend[c] # Nil => pend'[c] # Nil
      BY <2>2, <2>3
    <3> QED
      BY <3>1, <3>2
  <2> QED
    BY <2>6, <2>7
<1>5. CASE UNCHANGED vars
  BY <1>5 DEF vars
<1> QED
  BY <1>1, <1>2, <1>3, <1>4, <1>5 DEF Next

\* Every reachable state is well typed: no call ever works on a Lock, an
\* entry or a renewal that is not there.
THEOREM TypeCorrect == Spec => []TypeOK
<1>1. Typed => TypeOK
  BY DEF Typed
<1> QED
  BY <1>1, TypedInit, TypedStep, PTL DEF Spec

----------------------------------------------------------------------------
(* Owner IDs: one per acquisition, and never one of a stale renewal *)

\* Client d enters no acquisition of its own and starts no renewal.
KeepsOwner(d) ==
    /\ pc'[d] \in Stamped => /\ pc[d] \in Stamped
                             /\ lock'[d].owner = lock[d].owner /\ lock'[d].res = lock[d].res
                             /\ pc'[d] = "setnx" => pc[d] = "setnx"
    /\ watch'[d] # Nil => /\ watch[d] # Nil
                          /\ watch'[d].owner = watch[d].owner /\ watch'[d].res = watch[d].res

LEMMA OwnersKept ==
    ASSUME OwnersUnique, \A d \in Clients : KeepsOwner(d)
    PROVE  OwnersUnique'
  BY DEF OwnersUnique, KeepsOwner

LEMMA OwnersInit == Init => OwnersUnique
  BY DEF Init, OwnersUnique, Stamped

\* A freshly drawn owner ID is nobody's.
LEMMA OwnersStamp ==
    ASSUME Typed, OwnersUnique, NEW c \in Clients, Stamp(c)
    PROVE  OwnersUnique'
<1>1. PICK o \in OwnerIds :
         Unused(o) /\ lock' = [lock EXCEPT ![c] = [lock[c] EXCEPT !.owner = o, !.left = TTL]]
  BY DEF Stamp
<1>2. lock[c] \in Lock
  BY DEF Stamp, Typed, TypeOK, Shape
<1>3. lock'[c].owner = o /\ \A d \in Clients \ {c} : lock'[d] = lock[d]
  BY <1>1, <1>2 DEF Lock, Typed, TypeOK
<1>4. \A d \in Clients : /\ pc[d] \in Stamped => lock[d].owner # o
                         /\ watch[d] # Nil => watch[d].owner # o
  BY <1>1 DEF Unused, Typed, Shape, Stamped
<1>5. /\ pc'[c] = "setnx" /\ \A d \in Clients \ {c} : pc'[d] = pc[d]
      /\ watch' = watch
  BY DEF Stamp, Goto, Typed, TypeOK
<1> QED
  BY <1>3, <1>4, <1>5 DEF OwnersUnique

\* A renewal starts for the Lock the client holds.
LEMMA OwnersTick ==
    ASSUME Typed, OwnersUnique, NEW c \in Clients, WatchdogTick(c)
    PROVE  OwnersUnique'
<1>1. pc[c] \in Holding
  BY DEF WatchdogTick, Typed, Shape
<1>2. /\ watch'[c].owner = lock[c].owner /\ watch'[c].res = lock[c].res
      /\ \A d \in Clients \ {c} : watch'[d] = watch[d]
      /\ pc' = pc /\ lock' = lock
  BY DEF WatchdogTick, Typed, TypeOK
<1> QED
  BY <1>1, <1>2 DEF OwnersUnique, Stamped

LEMMA OwnersStep == Typed /\ OwnersUnique /\ [Next]_vars => OwnersUnique'
<1> SUFFICES ASSUME Typed, OwnersUnique, [Next]_vars PROVE OwnersUnique'
  OBVIOUS
<1> USE DEF Stamped, Goto, Return, Call, KeepsOwner
<1>1. ASSUME NEW c \in Clients, ClientStep(c) PROVE OwnersUnique'
  <2> USE DEF Typed, TypeOK, Shape
  <2>1. CASE Stamp(c)
    BY <2>1, OwnersStamp
  <2>2. CASE ExtendAssign(c)
    <3>1. lock[c] \in Lock /\ pend[c] \in Renewal
      BY <2>2 DEF ExtendAssign, Extending
    <3>2. pend[c].left \in Left /\ pend[c].ttl \in Durations
      BY ONLY <3>1, RenewalFields
    <3>3. lock'[c] = Renewed(lock[c], pend[c].left, pend[c].ttl)
      BY <2>2 DEF ExtendAssign
    <3>4. lock'[c].owner = lock[c].owner /\ lock'[c].res = lock[c].res
      BY ONLY <3>1, <3>2, <3>3, Relock
    <3> QED
      BY <2>2, <3>4, OwnersKept DEF ExtendAssign
  <2>3. CASE GenToken(c) \/ \E r \in Resources : Acquire(c, r)
    BY <2>3, OwnersKept DEF GenToken, Acquire
  <2>4. CASE SetNX(c) \/ SetNXFails(c) \/ Retry(c) \/ GiveUp(c)
    BY <2>4, OwnersKept DEF SetNX, SetNXFails, Retry, GiveUp
  <2>5. CASE (\E e \in Extensions : BeginExtend(c, e)) \/ ExtendValidated(c) \/ ExtendScript(c) \/ ExtendFails(c)
    BY <2>5, OwnersKept DEF BeginExtend, ExtendValidated, ExtendScript, ExtendFails
  <2>6. CASE BeginRelease(c) \/ ReleaseValidated(c) \/ ReleaseScript(c) \/ ReleaseFails(c) \/ Register(c)
    BY <2>6, OwnersKept DEF BeginRelease, ReleaseValidated, ReleaseScript, ReleaseFails, Register
  <2> QED
    BY <1>1, <2>1, <2>2, <2>3, <2>4, <2>5, <2>6 DEF ClientStep
<1>2. ASSUME NEW c \in Clients, WatchdogStep(c) PROVE OwnersUnique'
  <2> USE DEF Typed, TypeOK, Shape
  <2>1. CASE WatchdogTick(c)
    BY <2>1, OwnersTick
  <2>2. CASE WatchdogScript(c)
    <3>1. watch[c] \in Watch /\ watch' = [watch EXCEPT ![c] = [watch[c] EXCEPT !.phase = "assign"]]
      BY <2>2 DEF WatchdogScript
    <3>2. watch'[c].owner = watch[c].owner /\ watch'[c].res = watch[c].res
      BY <3>1 DEF Watch
    <3> QED
      BY <2>2, <3>1, <3>2, OwnersKept DEF WatchdogScript
  <2>3. CASE WatchdogAssign(c)
    <3>1. watch[c] \in Watch
      BY <2>3 DEF WatchdogAssign
    <3>2. watch[c].left \in Left /\ watch[c].ttl \in Durations
      BY ONLY <3>1, WatchFields
    <3>3. lock'[c] = Renewed(lock[c], watch[c].left, watch[c].ttl) \/ lock'[c] = lock[c]
      BY <2>3 DEF WatchdogAssign
    <3>4. lock[c] \in Lock => lock'[c].owner = lock[c].owner /\ lock'[c].res = lock[c].res
      BY ONLY <3>2, <3>3, Relock
    <3>5. pc[c] \in Stamped => lock[c] \in Lock
      OBVIOUS
    <3> QED
      BY <2>3, <3>4, <3>5, OwnersKept DEF WatchdogAssign
  <2>4. CASE WatchdogFails(c)
    BY <2>4, OwnersKept DEF WatchdogFails
  <2> QED
    BY <1>2, <2>1, <2>2, <2>3, <2>4 DEF WatchdogStep
<1>3. ASSUME NEW c \in Clients, Crash(c) PROVE OwnersUnique'
  BY <1>3, OwnersKept DEF Crash, Typed, TypeOK
<1>4. CASE Tick
  <2> SUFFICES ASSUME NEW d \in Clients PROVE KeepsOwner(d)
    BY OwnersKept
  <2>1. lock[d] \in Lock \cup {Nil} /\ watch[d] \in Watch \cup {Nil} /\ (pc[d] \in Stamped => lock[d] # Nil)
    BY DEF Typed, TypeOK, Shape
  <2>2. /\ lock[d] # Nil => lock'[d] = [lock[d] EXCEPT !.left = Aged(lock[d].left)]
        /\ watch[d] = Nil => watch'[d] = Nil
        /\ watch[d] # Nil => watch'[d] = [watch[d] EXCEPT !.left = Aged(watch[d].left)]
        /\ pc' = pc
    BY <1>4 DEF Tick, AgeAll
  <2>3. lock[d] # Nil => lock'[d].owner = lock[d].owner /\ lock'[d].res = lock[d].res
    BY ONLY <2>1, <2>2, AgedLock
  <2>4. watch[d] # Nil => watch'[d].owner = watch[d].owner /\ watch'[d].res = watch[d].res
    BY ONLY <2>1, <2>2, AgedWatch
  <2> QED
    BY <2>1, <2>2, <2>3, <2>4
<1>5. CASE UNCHANGED vars
  BY <1>5, OwnersKept DEF vars
<1> QED
  BY <1>1, <1>2, <1>3, <1>4, <1>5 DEF Next

----------------------------------------------------------------------------
(* Lease safety, when every Extend is by TTL *)

\* What lease safety is about one client: Bounded, LeaseSafe, InFlightSafe.
LeaseInv(d) ==
    /\ lock[d] # Nil => lock[d].left <= TTL
    /\ pend[d] # Nil => pend[d].left <= TTL
    /\ watch[d] # Nil => watch[d].left <= TTL
    /\ pc[d] \in Holding => Covered(d, lock[d].left)
    /\ pc[d] = "extAssign" => Covered(d, pend[d].left)
    /\ pc[d] \in Holding /\ watch[d] # Nil =>
          (watch[d].phase = "assign" /\ watch[d].owner = lock[d].owner =>
               Covered(d, watch[d].left))

LEMMA LeaseInvParts ==
    (\A d \in Clients : LeaseInv(d)) <=> Bounded /\ LeaseSafe /\ InFlightSafe
  BY DEF LeaseInv, Bounded, LeaseSafe, InFlightSafe, Believes, IsExpired, Covered

\* What one step by client c or its watchdog may do to the keys.
StoreStep(c) ==
    \A r \in Resources :
        \/ store'[r] = store[r]
        \/ store[r] = Nil
        \/ store'[r] # Nil /\ store'[r].owner = store[r].owner /\ store'[r].left = TTL
        \/ pc[c] \in Releasing /\ store[r].owner = lock[c].owner

\* Covered in the next state, for an expiry known in this one.
CoveredAfter(d, x) ==
    x # Past => /\ store'[lock'[d].res] # Nil
                /\ store'[lock'[d].res].owner = lock'[d].owner
                /\ x <= store'[lock'[d].res].left

LEMMA LeaseAfter ==
    ASSUME NEW d \in Clients,
           lock'[d] # Nil => lock'[d].left <= TTL,
           pend'[d] # Nil => pend'[d].left <= TTL,
           watch'[d] # Nil => watch'[d].left <= TTL,
           pc'[d] \in Holding => CoveredAfter(d, lock'[d].left),
           pc'[d] = "extAssign" => CoveredAfter(d, pend'[d].left),
           pc'[d] \in Holding /\ watch'[d] # Nil =>
              (watch'[d].phase = "assign" /\ watch'[d].owner = lock'[d].owner =>
                   CoveredAfter(d, watch'[d].left))
    PROVE  LeaseInv(d)'
  BY DEF LeaseInv, Covered, CoveredAfter, OwnsLock, Owns

\* An expiry covered by the key stays covered by it.
LEMMA CoveredKept ==
    ASSUME Typed, OwnersUnique, NEW c \in Clients, NEW d \in Clients, StoreStep(c),
           pc[d] \in Holding, lock'[d].owner = lock[d].owner, lock'[d].res = lock[d].res,
           NEW x \in Left, x <= TTL, Covered(d, x)
    PROVE  CoveredAfter(d, x)
<1> SUFFICES ASSUME x # Past
             PROVE  /\ store'[lock[d].res] # Nil
                    /\ store'[lock[d].res].owner = lock[d].owner
                    /\ x <= store'[lock[d].res].left
  BY DEF CoveredAfter
<1>1. lock[d] \in Lock /\ lock[d].res \in Resources
  BY LockFields DEF Typed, TypeOK, Shape
<1>2. /\ store[lock[d].res] # Nil /\ store[lock[d].res].owner = lock[d].owner
      /\ x <= store[lock[d].res].left
  BY DEF Covered, OwnsLock, Owns
<1>3. ~(pc[c] \in Releasing /\ store[lock[d].res].owner = lock[c].owner)
  <2> SUFFICES ASSUME pc[c] \in Releasing, lock[d].owner = lock[c].owner PROVE FALSE
    BY <1>2
  <2> QED
    BY DEF OwnersUnique, Stamped
<1>4. \/ store'[lock[d].res] = store[lock[d].res]
      \/ /\ store'[lock[d].res] # Nil /\ store'[lock[d].res].left = TTL
         /\ store'[lock[d].res].owner = store[lock[d].res].owner
  BY <1>1, <1>2, <1>3 DEF StoreStep
<1> QED
  BY ONLY <1>2, <1>4, x <= TTL

\* A client whose Lock and calls under way the step leaves alone.
LeavesAlone(d) ==
    /\ lock'[d] # Nil => lock'[d] = lock[d] \/ lock'[d].left <= TTL
    /\ pend'[d] # Nil => pend'[d] = pend[d] \/ pend'[d].left <= TTL
    /\ watch'[d] # Nil => watch'[d] = watch[d]
    /\ pc'[d] \in Holding => pc[d] \in Holding /\ lock'[d] = lock[d]
    /\ pc'[d] = "extAssign" => pc[d] = "extAssign" /\ pend'[d] = pend[d]

LEMMA LeaseKept ==
    ASSUME Typed, OwnersUnique, NEW c \in Clients, NEW d \in Clients,
           StoreStep(c), LeavesAlone(d), LeaseInv(d)
    PROVE  LeaseInv(d)'
<1>1. /\ lock'[d] # Nil => lock'[d].left <= TTL
      /\ pend'[d] # Nil => pend'[d].left <= TTL
      /\ watch'[d] # Nil => watch'[d].left <= TTL
  BY DEF LeaseInv, LeavesAlone
<1>2. ASSUME pc'[d] \in Holding
      PROVE  /\ pc[d] \in Holding /\ lock[d] \in Lock /\ lock[d] # Nil /\ lock'[d] = lock[d]
             /\ lock[d].left \in Left
  BY <1>2, LockFields, NilAssumption DEF LeavesAlone, Typed, TypeOK, Shape
<1>3. pc'[d] \in Holding => CoveredAfter(d, lock'[d].left)
  BY <1>2, CoveredKept DEF LeaseInv
<1>4. ASSUME pc'[d] = "extAssign" PROVE CoveredAfter(d, pend'[d].left)
  <2>1. pc[d] = "extAssign" /\ pend'[d] = pend[d] /\ pend[d] \in Renewal /\ pend[d] # Nil
    BY <1>4 DEF LeavesAlone, Typed, TypeOK, Shape, Extending
  <2>2. pend[d].left \in Left
    BY ONLY <2>1, RenewalFields
  <2> QED
    BY <1>2, <1>4, <2>1, <2>2, CoveredKept DEF LeaseInv
<1>5. ASSUME pc'[d] \in Holding, watch'[d] # Nil,
             watch'[d].phase = "assign", watch'[d].owner = lock'[d].owner
      PROVE  CoveredAfter(d, watch'[d].left)
  <2>1. watch'[d] = watch[d] /\ watch[d] \in Watch /\ watch[d] # Nil
    BY <1>5 DEF LeavesAlone, Typed, TypeOK
  <2>2. watch[d].left \in Left
    BY ONLY <2>1, WatchFields
  <2> QED
    BY <1>2, <1>5, <2>1, <2>2, CoveredKept DEF LeaseInv
<1> QED
  BY <1>1, <1>3, <1>4, <1>5, LeaseAfter

Renewing == Extensions \subseteq {TTL}

LEMMA TTLOnly == Renewing => \A t \in Durations : t = TTL
  BY DEF Renewing, Durations

LEMMA ClientStoreStep ==
    ASSUME Renewing, Typed, NEW c \in Clients, ClientStep(c)
    PROVE  StoreStep(c)
<1> SUFFICES ASSUME NEW r \in Resources
             PROVE  \/ store'[r] = store[r]
                    \/ store[r] = Nil
                    \/ store'[r] # Nil /\ store'[r].owner = store[r].owner /\ store'[r].left = TTL
                    \/ pc[c] \in Releasing /\ store[r].owner = lock[c].owner
  BY DEF StoreStep
<1>0. store \in [Resources -> Entry \cup {Nil}]
  BY DEF Typed, TypeOK
<1>1. CASE UNCHANGED store
  BY <1>1
<1>2. CASE pc[c] = "setnx" /\ PutEntry(c)
  BY <1>0, <1>2 DEF PutEntry
<1>3. CASE pc[c] = "extScript" /\ store' = [store EXCEPT ![lock[c].res] = Pexpire(@, pend[c].ttl)] /\ OwnsLock(c)
  <2>1. pend[c] \in Renewal
    BY <1>3 DEF Typed, TypeOK, Shape, Extending
  <2>2. pend[c].ttl = TTL /\ TTL \in Nat
    BY ONLY <2>1, RenewalFields, TTLOnly, TTLType, Renewing
  <2>3. store[lock[c].res] # Nil
    BY <1>3 DEF OwnsLock, Owns
  <2>4. r = lock[c].res => store'[r] = Pexpire(store[r], TTL) /\ store[r] \in Entry
    BY <1>0, <1>3, <2>2, <2>3
  <2>5. r # lock[c].res => store'[r] = store[r]
    BY <1>0, <1>3
  <2>6. r = lock[c].res => store'[r] \in Entry /\ store'[r].owner = store[r].owner /\ store'[r].left = TTL
    BY ONLY <2>2, <2>4, PexpireType
  <2> QED
    BY <2>5, <2>6, NilAssumption
<1>4. CASE pc[c] = "relScript" /\ DeleteEntry(c)
  BY <1>0, <1>4 DEF DeleteEntry, OwnsLock, Owns
<1> QED
  BY <1>1, <1>2, <1>3, <1>4
     DEF ClientStep, Acquire, GenToken, Stamp, SetNX, SetNXFails, Retry, GiveUp,
         BeginExtend, ExtendValidated, ExtendScript, ExtendAssign, ExtendFails,
         BeginRelease, ReleaseValidated, ReleaseScript, ReleaseFails, Register

LEMMA ClientLeavesOthers ==
    ASSUME Typed, NEW c \in Clients, ClientStep(c), NEW d \in Clients \ {c}
    PROVE  LeavesAlone(d)
<1>1. pc'[d] = pc[d] /\ lock'[d] = lock[d] /\ pend'[d] = pend[d] /\ watch'[d] = watch[d]
  BY DEF Typed, TypeOK, Goto, Return, Call,
         ClientStep, Acquire, GenToken, NextToken, Stamp, SetNX, SetNXFails, Retry, GiveUp,
         BeginExtend, ExtendValidated, ExtendScript, ExtendAssign, ExtendFails,
         BeginRelease, ReleaseValidated, ReleaseScript, ReleaseFails, Register
<1> QED
  BY <1>1 DEF LeavesAlone

\* The acting client keeps its own leases safe.
LEMMA ClientOwnLease ==
    ASSUME Renewing, Typed, OwnersUnique, NEW c \in Clients, LeaseInv(c), ClientStep(c)
    PROVE  LeaseInv(c)'
<1>0. /\ pc[c] # "idle" => lock[c] \in Lock /\ lock[c] # Nil
      /\ watch[c] # Nil => watch[c] \in Watch
  BY DEF Typed, TypeOK, Shape
<1>d. pc[c] # "idle" => lock[c].left \in Left /\ lock[c].res \in Resources
  BY ONLY <1>0, LockFields
<1>e. watch[c] # Nil => watch[c].left \in Left
  BY ONLY <1>0, WatchFields
<1>f. pc[c] # "idle" => lock[c].left <= TTL
  BY <1>0 DEF LeaseInv
<1>a. StoreStep(c)
  BY ClientStoreStep
<1>b. TTL \in Nat /\ \A t \in Durations : t = TTL
  BY TTLType, TTLOnly
<1>c. watch' = watch
  BY DEF ClientStep, Acquire, GenToken, Stamp, SetNX, SetNXFails, Retry, GiveUp,
         BeginExtend, ExtendValidated, ExtendScript, ExtendAssign, ExtendFails,
         BeginRelease, ReleaseValidated, ReleaseScript, ReleaseFails, Register
<1> USE DEF Goto, Return, Call
<1>1. CASE \/ \E r \in Resources : Acquire(c, r)
           \/ GenToken(c) \/ Stamp(c) \/ SetNXFails(c) \/ Retry(c) \/ GiveUp(c)
  <2>1. pc'[c] \notin Holding
    BY <1>1 DEF Acquire, GenToken, Stamp, SetNXFails, Retry, GiveUp, Typed, TypeOK
  <2>2. pend' = pend
    BY <1>1 DEF Acquire, GenToken, Stamp, SetNXFails, Retry, GiveUp
  <2>3. lock'[c] # Nil => lock'[c].left <= TTL
    <3>1. CASE Stamp(c)
      <4>1. PICK o \in OwnerIds : lock'[c] = [lock[c] EXCEPT !.owner = o, !.left = TTL]
        BY <3>1 DEF Stamp, Typed, TypeOK
      <4>2. lock[c] \in Lock
        <5>1. pc[c] = "stamp"
          BY <3>1 DEF Stamp
        <5> QED BY <1>0, <5>1
      <4> QED
        BY ONLY <1>b, <4>1, <4>2 DEF Lock
    <3>2. CASE GenToken(c)
      <4>0. pc[c] = "token"
        BY <3>2 DEF GenToken
      <4>1. PICK t : lock' = [lock EXCEPT ![c] = [lock[c] EXCEPT !.token = t]]
        BY <3>2 DEF GenToken
      <4>2. lock[c] \in Lock /\ lock[c].left <= TTL
        BY <1>0, <1>f, <4>0
      <4>3. lock'[c] = [lock[c] EXCEPT !.token = t]
        BY <4>1 DEF Typed, TypeOK
      <4> QED
        BY ONLY <4>2, <4>3 DEF Lock
    <3>3. CASE ~Stamp(c) /\ ~GenToken(c)
      <4>1. \/ lock'[c] = lock[c] \/ lock'[c] = Nil
            \/ \E r \in Resources : lock'[c] = Request(r)
        BY <1>0, <1>d, <1>1, <3>3 DEF Acquire, SetNXFails, Retry, GiveUp, Typed, TypeOK
      <4>2. \A r \in Resources : Request(r).left <= TTL
        BY <1>b DEF Request, Past
      <4> QED
        BY <4>1, <4>2 DEF LeaseInv
    <3> QED
      BY <3>1, <3>2, <3>3
  <2> QED
    BY <2>1, <2>2, <2>3, <1>c, LeaseAfter DEF LeaseInv
<1>2. CASE SetNX(c)
  <2>2. pc[c] = "setnx" /\ pc'[c] = "held"
    BY <1>2 DEF SetNX, Typed, TypeOK
  <2>1. lock[c] \in Lock /\ lock[c].res \in Resources /\ lock' = lock /\ pend' = pend
    BY <1>0, <1>d, <1>2, <2>2 DEF SetNX
  <2>3. store'[lock[c].res] = [owner |-> lock[c].owner, token |-> lock[c].token,
                               json |-> lock[c].left, left |-> TTL]
    BY <1>2, <2>1 DEF SetNX, PutEntry, Typed, TypeOK
  <2>4. store'[lock[c].res] \in Entry
    BY <2>1, <2>2, <2>3, <1>b DEF Entry, Lock, Typed, Shape, Stamped
  <2>5. lock[c].left <= TTL
    BY <1>f, <2>2
  <2>6. CoveredAfter(c, lock'[c].left)
    BY <2>1, <2>3, <2>4, <2>5, NilAssumption DEF CoveredAfter
  <2>7. watch[c] # Nil => watch[c].owner # lock[c].owner
    BY <2>2 DEF OwnersUnique, Stamped
  <2> QED
    BY <2>1, <2>2, <2>6, <2>7, <1>c, LeaseAfter DEF LeaseInv
<1>3. CASE (\E e \in Extensions : BeginExtend(c, e)) \/ ExtendFails(c)
  <2>1. /\ pc[c] \in Holding /\ pc'[c] # "extAssign" /\ lock' = lock
        /\ pend'[c] = Nil \/ \E e \in Extensions : pend'[c] = [left |-> Past, ttl |-> e]
    BY <1>3 DEF BeginExtend, ExtendFails, Typed, TypeOK
  <2>2. pend'[c] # Nil => pend'[c].left <= TTL
    <3>1. Past <= TTL
      BY <1>b DEF Past
    <3>2. \A e \in Extensions : [left |-> Past, ttl |-> e].left = Past
      OBVIOUS
    <3>3. pend'[c] # Nil => pend'[c].left = Past
      BY <2>1, <3>2
    <3> QED BY <3>1, <3>3
  <2> QED
    BY <1>a, <1>c, <2>1, <2>2, LeaseKept DEF LeavesAlone
<1>4. CASE ExtendValidated(c)
  <2>1. pc[c] = "extValidate" /\ pc'[c] = "extScript" /\ lock' = lock /\ pend[c] \in Renewal
        /\ pend'[c] = [pend[c] EXCEPT !.left = pend[c].ttl]
    BY <1>4 DEF ExtendValidated, Typed, TypeOK, Shape, Extending
  <2>2. pend[c].ttl = TTL
    BY ONLY <1>b, <2>1, RenewalFields
  <2>3. pend'[c].left <= TTL
    BY ONLY <1>b, <2>1, <2>2 DEF Renewal
  <2> QED
    BY <1>a, <1>c, <2>1, <2>3, LeaseKept DEF LeavesAlone
<1>5. CASE ExtendScript(c)
  <2>1. /\ pc[c] = "extScript" /\ pc'[c] = "extAssign" /\ lock' = lock /\ pend' = pend
        /\ pend[c] \in Renewal /\ pend[c] # Nil /\ lock[c] \in Lock
    BY <1>0, <1>5 DEF ExtendScript, Typed, TypeOK, Shape, Extending
  <2>2. pend[c].ttl = TTL /\ pend[c].left \in Left /\ lock[c].res \in Resources
    BY ONLY <1>b, <2>1, RenewalFields, LockFields
  <2>3. store[lock[c].res] \in Entry /\ store[lock[c].res].owner = lock[c].owner
        /\ store'[lock[c].res] = Pexpire(store[lock[c].res], TTL)
    BY <1>5, <2>2 DEF ExtendScript, OwnsLock, Owns, Typed, TypeOK
  <2>4. store'[lock[c].res] \in Entry /\ store'[lock[c].res].owner = lock[c].owner
        /\ store'[lock[c].res].left = TTL
    BY ONLY <1>b, <2>3, PexpireType
  <2>5. \A x \in Left : x <= TTL => CoveredAfter(c, x)
    BY <2>1, <2>4, NilAssumption DEF CoveredAfter
  <2>6. /\ lock[c].left \in Left /\ lock[c].left <= TTL /\ pend[c].left <= TTL
        /\ watch[c] # Nil => watch[c].left \in Left /\ watch[c].left <= TTL
    BY <1>d, <1>e, <1>f, <2>1 DEF LeaseInv
  <2> QED
    BY <1>c, <2>1, <2>2, <2>5, <2>6, LeaseAfter
<1>6. CASE ExtendAssign(c)
  <2>1. /\ pc[c] = "extAssign" /\ pc'[c] = "held" /\ pend'[c] = Nil
        /\ pend[c] \in Renewal /\ pend[c] # Nil /\ lock[c] \in Lock
        /\ lock'[c] = Renewed(lock[c], pend[c].left, pend[c].ttl)
    BY <1>0, <1>6 DEF ExtendAssign, Typed, TypeOK, Shape, Extending
  <2>2. pend[c].left \in Left /\ pend[c].ttl \in Durations
    BY ONLY <2>1, RenewalFields
  <2>3. /\ lock'[c] \in Lock /\ lock'[c].left = pend[c].left
        /\ lock'[c].owner = lock[c].owner /\ lock'[c].res = lock[c].res
    BY ONLY <2>1, <2>2, Relock
  <2>4. pend[c].left <= TTL /\ Covered(c, pend[c].left)
    BY <2>1 DEF LeaseInv
  <2>5. CoveredAfter(c, pend[c].left)
    BY <1>a, <2>1, <2>2, <2>3, <2>4, CoveredKept
  <2>6. ASSUME watch[c] # Nil, watch[c].phase = "assign", watch[c].owner = lock[c].owner
        PROVE  CoveredAfter(c, watch[c].left)
    <3>1. watch[c].left \in Left /\ watch[c].left <= TTL /\ Covered(c, watch[c].left)
      BY <1>e, <2>1, <2>6 DEF LeaseInv
    <3> QED
      BY <1>a, <2>1, <2>3, <3>1, CoveredKept
  <2> QED
    BY <1>c, <2>1, <2>3, <2>4, <2>5, <2>6, LeaseAfter DEF LeaseInv
<1>7. CASE BeginRelease(c) \/ ReleaseValidated(c) \/ ReleaseScript(c) \/ ReleaseFails(c)
  <2>1. pc'[c] \notin Holding /\ pend' = pend /\ (lock'[c] = lock[c] \/ lock'[c] = Nil)
    BY <1>7 DEF BeginRelease, ReleaseValidated, ReleaseScript, ReleaseFails, Typed, TypeOK
  <2> QED
    BY <1>c, <2>1, LeaseAfter DEF LeaseInv
<1>8. CASE Register(c)
  BY <1>a, <1>8, LeaseKept DEF Register, LeavesAlone
<1> QED
  BY <1>1, <1>2, <1>3, <1>4, <1>5, <1>6, <1>7, <1>8 DEF ClientStep

\* The watchdog of client c prolongs keys only, and by TTL.
LEMMA WatchdogStoreStep ==
    ASSUME Renewing, Typed, NEW c \in Clients, WatchdogStep(c)
    PROVE  StoreStep(c)
<1>0. store \in [Resources -> Entry \cup {Nil}] /\ (watch[c] # Nil => watch[c] \in Watch)
  BY DEF Typed, TypeOK
<1>1. CASE UNCHANGED store
  BY <1>1 DEF StoreStep
<1>2. CASE ~UNCHANGED store
  <2>1. /\ watch[c] # Nil /\ store[watch[c].res] # Nil
        /\ store' = [store EXCEPT ![watch[c].res] = Pexpire(@, watch[c].ttl)]
    BY <1>2 DEF WatchdogStep, WatchdogTick, WatchdogScript, WatchdogAssign, WatchdogFails, Owns
  <2>2. watch[c].res \in Resources /\ watch[c].ttl \in Durations
    BY ONLY <1>0, <2>1, WatchFields
  <2>3. watch[c].ttl = TTL
    BY <2>2, TTLOnly
  <2>4. store[watch[c].res] \in Entry /\ TTL \in Nat
    BY <1>0, <2>1, <2>2, TTLType
  <2>5. LET e == Pexpire(store[watch[c].res], TTL)
        IN  e \in Entry /\ e.owner = store[watch[c].res].owner /\ e.left = TTL
    BY ONLY <2>4, PexpireType
  <2>6. /\ store'[watch[c].res] = Pexpire(store[watch[c].res], TTL)
        /\ \A r \in Resources \ {watch[c].res} : store'[r] = store[r]
    BY <1>0, <2>1, <2>2, <2>3
  <2>7. /\ store'[watch[c].res] # Nil /\ store'[watch[c].res].left = TTL
        /\ store'[watch[c].res].owner = store[watch[c].res].owner
    BY <2>5, <2>6, NilAssumption
  <2> QED
    BY <2>6, <2>7 DEF StoreStep
<1> QED
  BY <1>1, <1>2

LEMMA WatchdogOwnLease ==
    ASSUME Renewing, Typed, OwnersUnique, NEW c \in Clients, LeaseInv(c), WatchdogStep(c)
    PROVE  LeaseInv(c)'
<1>0. /\ pc[c] # "idle" => lock[c] \in Lock /\ lock[c] # Nil
      /\ watch[c] # Nil => watch[c] \in Watch
      /\ pc[c] \in Extending => pend[c] \in Renewal /\ pend[c] # Nil
  BY DEF Typed, TypeOK, Shape
<1>a. StoreStep(c) /\ pc' = pc /\ pend' = pend
  BY WatchdogStoreStep DEF WatchdogStep, WatchdogTick, WatchdogScript, WatchdogAssign, WatchdogFails
<1>b. TTL \in Nat /\ \A t \in Durations : t = TTL
  BY TTLType, TTLOnly
<1>d. pc[c] # "idle" => lock[c].left \in Left /\ lock[c].res \in Resources /\ lock[c].ttl \in Durations
  BY ONLY <1>0, LockFields
<1>e. watch[c] # Nil => watch[c].left \in Left /\ watch[c].res \in Resources /\ watch[c].ttl \in Durations
  BY ONLY <1>0, WatchFields
<1>f. pc[c] \in Extending => pend[c].left \in Left
  BY ONLY <1>0, RenewalFields
\* What the Lock and a call of Extend under way rely on stays covered.
<1>g. ASSUME lock'[c].owner = lock[c].owner, lock'[c].res = lock[c].res
      PROVE  /\ pc[c] \in Holding => CoveredAfter(c, lock[c].left)
             /\ pc[c] = "extAssign" => CoveredAfter(c, pend[c].left)
  <2>1. pc[c] \in Holding => lock[c].left <= TTL /\ lock[c].left \in Left /\ Covered(c, lock[c].left)
    BY <1>0, <1>d DEF LeaseInv
  <2>2. pc[c] = "extAssign" => pend[c].left <= TTL /\ pend[c].left \in Left /\ Covered(c, pend[c].left)
    BY <1>0, <1>f DEF LeaseInv, Extending
  <2> QED
    BY <1>a, <1>g, <2>1, <2>2, CoveredKept
<1>1. CASE WatchdogTick(c)
  <2>1. /\ lock' = lock /\ pc[c] \in Holding
        /\ watch'[c] = [phase |-> "script", res |-> lock[c].res, owner |-> lock[c].owner,
                        left |-> lock[c].ttl, ttl |-> lock[c].ttl]
    BY <1>1 DEF WatchdogTick, Typed, TypeOK, Shape
  <2>2. watch'[c].phase = "script" /\ watch'[c].left = TTL
    BY <1>b, <1>d, <2>1
  <2> QED
    BY <1>a, <1>b, <1>g, <2>1, <2>2, LeaseAfter DEF LeaseInv
<1>2. CASE WatchdogScript(c)
  <2>1. /\ lock' = lock /\ watch[c] # Nil /\ Owns(watch[c].res, watch[c].owner)
        /\ store' = [store EXCEPT ![watch[c].res] = Pexpire(@, watch[c].ttl)]
        /\ watch'[c] = [watch[c] EXCEPT !.phase = "assign"]
    BY <1>2 DEF WatchdogScript, Typed, TypeOK
  <2>2. watch'[c].owner = watch[c].owner /\ watch'[c].left = watch[c].left
    BY ONLY <1>0, <2>1 DEF Watch
  <2>3. watch[c].left \in Left /\ watch[c].left <= TTL
    BY <1>e, <2>1 DEF LeaseInv
  <2>4. ASSUME pc[c] \in Holding, watch[c].owner = lock[c].owner
        PROVE  CoveredAfter(c, watch[c].left)
    <3>1. lock[c].res = watch[c].res
      BY <2>1, <2>4 DEF OwnersUnique, Stamped
    <3>2. store[lock[c].res] \in Entry /\ store[lock[c].res].owner = lock[c].owner
          /\ watch[c].ttl = TTL /\ lock[c].res \in Resources
      BY <1>b, <1>e, <2>1, <2>4, <3>1 DEF Owns, Typed, TypeOK
    <3>3. store'[lock[c].res] = Pexpire(store[lock[c].res], TTL)
      BY <2>1, <3>1, <3>2 DEF Typed, TypeOK
    <3>4. /\ store'[lock[c].res] \in Entry
          /\ store'[lock[c].res].owner = lock[c].owner /\ store'[lock[c].res].left = TTL
      BY ONLY <1>b, <3>2, <3>3, PexpireType
    <3> QED
      BY <2>1, <2>3, <3>4, NilAssumption DEF CoveredAfter
  <2> QED
    BY <1>a, <1>g, <2>1, <2>2, <2>3, <2>4, LeaseAfter DEF LeaseInv
<1>3. CASE WatchdogAssign(c)
  <2>1. watch'[c] = Nil /\ watch[c] # Nil /\ watch[c].phase = "assign"
    BY <1>3 DEF WatchdogAssign, Typed, TypeOK
  <2>2. CASE lock[c] # Nil /\ lock[c].owner = watch[c].owner
    <3>1. lock'[c] = Renewed(lock[c], watch[c].left, watch[c].ttl) /\ lock[c] \in Lock
      BY <1>3, <2>2 DEF WatchdogAssign, Typed, TypeOK
    <3>2. /\ lock'[c].owner = lock[c].owner /\ lock'[c].res = lock[c].res
          /\ lock'[c].left = watch[c].left
      BY ONLY <1>e, <2>1, <3>1, Relock
    <3>3. watch[c].left <= TTL
      BY <2>1 DEF LeaseInv
    <3>4. pc[c] \in Holding => CoveredAfter(c, watch[c].left)
      <4> SUFFICES ASSUME pc[c] \in Holding PROVE CoveredAfter(c, watch[c].left)
        OBVIOUS
      <4>1. Covered(c, watch[c].left)
        BY <2>1, <2>2 DEF LeaseInv
      <4> QED
        BY <1>a, <1>e, <2>1, <3>2, <3>3, <4>1, CoveredKept
    <3> QED
      BY <1>a, <1>g, <2>1, <3>2, <3>3, <3>4, LeaseAfter DEF LeaseInv
  <2>3. CASE ~(lock[c] # Nil /\ lock[c].owner = watch[c].owner)
    <3>1. lock' = lock
      BY <1>3, <2>3 DEF WatchdogAssign
    <3> QED
      BY <1>a, <1>g, <2>1, <3>1, LeaseAfter DEF LeaseInv
  <2> QED
    BY <2>2, <2>3
<1>4. CASE WatchdogFails(c)
  <2>1. watch'[c] = Nil /\ lock' = lock
    BY <1>4 DEF WatchdogFails, Typed, TypeOK
  <2> QED
    BY <1>a, <1>g, <2>1, LeaseAfter DEF LeaseInv
<1> QED
  BY <1>1, <1>2, <1>3, <1>4 DEF WatchdogStep

LEMMA WatchdogLeavesOthers ==
    ASSUME Typed, NEW c \in Clients, WatchdogStep(c), NEW d \in Clients \ {c}
    PROVE  LeavesAlone(d)
<1>1. pc'[d] = pc[d] /\ lock'[d] = lock[d] /\ pend'[d] = pend[d] /\ watch'[d] = watch[d]
  BY DEF Typed, TypeOK, WatchdogStep, WatchdogTick, WatchdogScript, WatchdogAssign, WatchdogFails
<1> QED
  BY <1>1 DEF LeavesAlone

\* Time runs equally for the keys and for the Locks they protect.
LEMMA TickLease ==
    ASSUME Typed, Tick, NEW d \in Clients, LeaseInv(d)
    PROVE  LeaseInv(d)'
<1>0. /\ lock[d] \in Lock \cup {Nil} /\ pend[d] \in Renewal \cup {Nil} /\ watch[d] \in Watch \cup {Nil}
      /\ pc[d] # "idle" => lock[d] # Nil
      /\ pc[d] \in Extending => pend[d] # Nil
  BY DEF Typed, TypeOK, Shape
<1>1. /\ pc' = pc
      /\ lock[d] = Nil => lock'[d] = Nil
      /\ lock[d] # Nil => lock'[d] = [lock[d] EXCEPT !.left = Aged(lock[d].left)]
      /\ pend[d] = Nil => pend'[d] = Nil
      /\ pend[d] # Nil => pend'[d] = [pend[d] EXCEPT !.left = Aged(pend[d].left)]
      /\ watch[d] = Nil => watch'[d] = Nil
      /\ watch[d] # Nil => watch'[d] = [watch[d] EXCEPT !.left = Aged(watch[d].left)]
  BY DEF Tick, AgeAll
<1>2. lock[d] # Nil => /\ lock'[d].owner = lock[d].owner /\ lock'[d].res = lock[d].res
                       /\ lock'[d].left = Aged(lock[d].left)
  BY ONLY <1>0, <1>1, AgedLock
<1>3. pend[d] # Nil => pend'[d].left = Aged(pend[d].left)
  BY ONLY <1>0, <1>1, AgedRenewal
<1>4. watch[d] # Nil => /\ watch'[d].left = Aged(watch[d].left)
                        /\ watch'[d].phase = watch[d].phase /\ watch'[d].owner = watch[d].owner
  BY ONLY <1>0, <1>1, AgedWatch
<1>5. /\ lock[d] # Nil => lock[d].left \in Left /\ lock[d].res \in Resources
      /\ pend[d] # Nil => pend[d].left \in Left
      /\ watch[d] # Nil => watch[d].left \in Left
  BY ONLY <1>0, LockFields, RenewalFields, WatchFields
<1>6. \A x \in Left : x <= TTL => Aged(x) <= TTL
  BY TTLType DEF Aged, Left, Past
<1>7. ASSUME lock[d] # Nil, NEW x \in Left, Covered(d, x)
      PROVE  CoveredAfter(d, Aged(x))
  <2> SUFFICES ASSUME Aged(x) # Past PROVE CoveredAfter(d, Aged(x))
    BY DEF CoveredAfter
  <2>1. x \in Nat /\ x > 0 /\ Aged(x) = x - 1 /\ x # Past
    BY DEF Aged, Left, Past
  <2>2. /\ store[lock[d].res] # Nil /\ store[lock[d].res].owner = lock[d].owner
        /\ x <= store[lock[d].res].left /\ store[lock[d].res] \in Entry
    BY <1>5, <1>7, <2>1 DEF Covered, OwnsLock, Owns, Typed, TypeOK
  <2>3. store[lock[d].res].left \in Nat
    BY ONLY <2>2 DEF Entry
  <2>4. store[lock[d].res].left # 0
    BY ONLY <2>1, <2>2, <2>3
  <2>5. store'[lock[d].res] = [store[lock[d].res] EXCEPT !.left = @ - 1, !.json = Aged(@)]
    BY <1>5, <1>7, <2>2, <2>4 DEF Tick
  <2>6. /\ store'[lock[d].res] \in Entry /\ store'[lock[d].res].owner = lock[d].owner
        /\ store'[lock[d].res].left = store[lock[d].res].left - 1
    BY ONLY <2>2, <2>4, <2>5, AgedEntry
  <2>7. x - 1 <= store[lock[d].res].left - 1
    BY ONLY <2>1, <2>2, <2>3
  <2> QED
    BY <1>2, <1>7, <2>1, <2>6, <2>7, NilAssumption DEF CoveredAfter
<1>8. /\ lock'[d] # Nil => lock'[d].left <= TTL
      /\ pend'[d] # Nil => pend'[d].left <= TTL
      /\ watch'[d] # Nil => watch'[d].left <= TTL
  BY <1>1, <1>2, <1>3, <1>4, <1>5, <1>6 DEF LeaseInv
<1>9. pc'[d] \in Holding => CoveredAfter(d, lock'[d].left)
  BY <1>0, <1>1, <1>2, <1>5, <1>7 DEF LeaseInv
<1>10. pc'[d] = "extAssign" => CoveredAfter(d, pend'[d].left)
  BY <1>0, <1>1, <1>3, <1>5, <1>7 DEF LeaseInv, Extending
<1>11. pc'[d] \in Holding /\ watch'[d] # Nil =>
           (watch'[d].phase = "assign" /\ watch'[d].owner = lock'[d].owner =>
               CoveredAfter(d, watch'[d].left))
  BY <1>0, <1>1, <1>2, <1>4, <1>5, <1>7 DEF LeaseInv
<1> QED
  BY <1>8, <1>9, <1>10, <1>11, LeaseAfter

----------------------------------------------------------------------------
(* The theorems *)

LEMMA LeaseInit == Init => \A d \in Clients : LeaseInv(d)
  BY DEF Init, LeaseInv

LEMMA IInvInit == Init => IInv
  BY TypedInit, OwnersInit, LeaseInit, LeaseInvParts DEF IInv, Typed

LEMMA IInvStep == Renewing /\ IInv /\ [Next]_vars => IInv'
<1> SUFFICES ASSUME Renewing, IInv, [Next]_vars PROVE IInv'
  OBVIOUS
<1>1. Typed /\ OwnersUnique /\ \A d \in Clients : LeaseInv(d)
  BY LeaseInvParts DEF IInv, Typed
<1>2. Typed' /\ OwnersUnique'
  BY <1>1, TypedStep, OwnersStep
<1>3. \A d \in Clients : LeaseInv(d)'
  <2> SUFFICES ASSUME NEW d \in Clients PROVE LeaseInv(d)'
    OBVIOUS
  <2>1. ASSUME NEW c \in Clients, ClientStep(c) PROVE LeaseInv(d)'
    <3>1. CASE d = c
      BY <1>1, <2>1, <3>1, ClientOwnLease
    <3>2. CASE d # c
      BY <1>1, <2>1, <3>2, ClientStoreStep, ClientLeavesOthers, LeaseKept
    <3> QED
      BY <3>1, <3>2
  <2>2. ASSUME NEW c \in Clients, WatchdogStep(c) PROVE LeaseInv(d)'
    <3>1. CASE d = c
      BY <1>1, <2>2, <3>1, WatchdogOwnLease
    <3>2. CASE d # c
      BY <1>1, <2>2, <3>2, WatchdogStoreStep, WatchdogLeavesOthers, LeaseKept
    <3> QED
      BY <3>1, <3>2
  <2>3. ASSUME NEW c \in Clients, Crash(c) PROVE LeaseInv(d)'
    <3>1. StoreStep(c)
      BY <2>3 DEF Crash, StoreStep
    <3>2. LeavesAlone(d)
      BY <1>1, <2>3 DEF Crash, LeavesAlone, Goto, Typed, TypeOK
    <3> QED
      BY <1>1, <3>1, <3>2, LeaseKept
  <2>4. CASE Tick
    BY <1>1, <2>4, TickLease
  <2>5. CASE UNCHANGED vars
    <3>1. StoreStep(d) /\ LeavesAlone(d)
      BY <2>5 DEF vars, StoreStep, LeavesAlone
    <3> QED
      BY <1>1, <3>1, LeaseKept
  <2> QED
    BY <2>1, <2>2, <2>3, <2>4, <2>5 DEF Next
<1>4. (Bounded /\ LeaseSafe /\ InFlightSafe)'
  <2>1. (\A d \in Clients : LeaseInv(d))'
    BY <1>3
  <2> QED
    BY <2>1, LeaseInvParts, PTL
<1> QED
  BY <1>2, <1>4 DEF IInv, Typed

LEMMA Exclusive == Typed /\ LeaseSafe /\ OwnersUnique => MutualExclusion
<1> SUFFICES ASSUME Typed, LeaseSafe, OwnersUnique, NEW c \in Clients, NEW d \in Clients,
                    c # d, Believes(c), Believes(d), lock[c].res = lock[d].res
             PROVE  FALSE
  BY DEF MutualExclusion
<1>1. lock[c].owner = lock[d].owner
  BY DEF LeaseSafe, OwnsLock, Owns
<1> QED
  BY <1>1 DEF OwnersUnique, Believes, Stamped

\* A client that may trust its Lock is covered by the key for as long,
\* through any interleaving of calls, renewals, faults, crashes and time.
THEOREM LeaseSafety == Extensions \subseteq {TTL} /\ Spec => []LeaseSafe
<1>1. IInv => LeaseSafe
  BY DEF IInv
<1>2. CASE Renewing
  BY <1>1, <1>2, IInvInit, IInvStep, PTL DEF Spec
<1> QED
  BY <1>2 DEF Renewing

\* No two clients ever act on one resource at a time.
THEOREM Exclusion == Extensions \subseteq {TTL} /\ Spec => []MutualExclusion
<1>1. IInv => MutualExclusion
  BY Exclusive DEF IInv, Typed
<1>2. CASE Renewing
  BY <1>1, <1>2, IInvInit, IInvStep, PTL DEF Spec
<1> QED
  BY <1>2 DEF Renewing

----------------------------------------------------------------------------
(* Removal of keys *)

LEMMA RemovalStep ==
    ASSUME Typed, [Next]_vars, NEW r \in Resources,
           store[r] # Nil, store[r].left > 0, store'[r] = Nil
    PROVE  \E c \in Clients : pc[c] = "relScript" /\ OwnsLock(c) /\ lock[c].res = r
<1>0. store \in [Resources -> Entry \cup {Nil}] /\ store[r] \in Entry
  BY DEF Typed, TypeOK
\* A renewed key is still there.
<1>1. ASSUME NEW s \in Resources, NEW t \in Durations, store[s] # Nil
      PROVE  store' # [store EXCEPT ![s] = Pexpire(@, t)]
  <2>1. store[s] \in Entry /\ t \in Nat
    BY <1>0, <1>1, TTLType
  <2>2. Pexpire(store[s], t) # Nil
    BY <2>1, PexpireType, NilAssumption
  <2> QED
    BY <1>0, <2>2
<1>2. ASSUME NEW c \in Clients, ClientStep(c)
      PROVE  pc[c] = "relScript" /\ OwnsLock(c) /\ lock[c].res = r
  <2>1. /\ ~UNCHANGED store
        /\ pc[c] = "setnx" => ~PutEntry(c)
    BY <1>0 DEF PutEntry
  <2>2. ~(pc[c] = "extScript" /\ OwnsLock(c) /\ store' = [store EXCEPT ![lock[c].res] = Pexpire(@, pend[c].ttl)])
    <3> SUFFICES ASSUME pc[c] = "extScript", OwnsLock(c) PROVE store' # [store EXCEPT ![lock[c].res] = Pexpire(@, pend[c].ttl)]
      OBVIOUS
    <3>1. lock[c] \in Lock /\ pend[c] \in Renewal
      BY DEF Typed, TypeOK, Shape, Extending
    <3>2. lock[c].res \in Resources /\ pend[c].ttl \in Durations
      BY ONLY <3>1, LockFields, RenewalFields
    <3> QED
      BY <1>1, <3>2 DEF OwnsLock, Owns
  <2>3. pc[c] = "relScript" /\ DeleteEntry(c)
    BY <1>2, <2>1, <2>2
       DEF ClientStep, Acquire, GenToken, Stamp, SetNX, SetNXFails, Retry, GiveUp,
           BeginExtend, ExtendValidated, ExtendScript, ExtendAssign, ExtendFails,
           BeginRelease, ReleaseValidated, ReleaseScript, ReleaseFails, Register
  <2> QED
    BY <1>0, <2>3 DEF DeleteEntry
<1>3. ASSUME NEW c \in Clients, WatchdogStep(c) PROVE FALSE
  <2>1. ~UNCHANGED store
    OBVIOUS
  <2>2. /\ watch[c] # Nil /\ store[watch[c].res] # Nil
        /\ store' = [store EXCEPT ![watch[c].res] = Pexpire(@, watch[c].ttl)]
    BY <1>3, <2>1 DEF WatchdogStep, WatchdogTick, WatchdogScript, WatchdogAssign, WatchdogFails, Owns
  <2>3. watch[c] \in Watch
    BY <2>2 DEF Typed, TypeOK
  <2>4. watch[c].res \in Resources /\ watch[c].ttl \in Durations
    BY ONLY <2>3, WatchFields
  <2> QED
    BY <1>1, <2>2, <2>4
<1>4. ~Tick
  <2>1. store[r].left \in Nat /\ store[r].left # 0
    BY <1>0 DEF Entry
  <2>2. ASSUME Tick PROVE FALSE
    <3>1. store'[r] = [store[r] EXCEPT !.left = @ - 1, !.json = Aged(@)]
      BY <2>1, <2>2 DEF Tick
    <3>2. store'[r] \in Entry
      BY ONLY <1>0, <2>1, <3>1, AgedEntry
    <3> QED
      BY <3>2, NilAssumption
  <2> QED
    BY <2>2
<1>5. ~(\E c \in Clients : Crash(c)) /\ ~UNCHANGED vars
  BY DEF Crash, vars
<1> QED
  BY <1>2, <1>3, <1>4, <1>5 DEF Next

\* No late or duplicate Release frees a key that another client was granted.
THEOREM Removal == Spec => RemovedOnlyByOwner
<1>1. Typed /\ [Next]_vars =>
        [\A r \in Resources :
            store[r] # Nil /\ store[r].left > 0 /\ store'[r] = Nil =>
                \E c \in Clients : /\ pc[c] = "relScript"
                                   /\ OwnsLock(c) /\ lock[c].res = r]_vars
  BY RemovalStep
<1> QED
  BY <1>1, TypedInit, TypedStep, PTL DEF Spec, RemovedOnlyByOwner

----------------------------------------------------------------------------
(* Fencing tokens, when INCR is always answered *)

\* Updating the time left of a Lock leaves its token alone.
LEMMA TokenField ==
    ASSUME NEW l \in Lock, NEW x, NEW t
    PROVE  Renewed(l, x, t).token = l.token /\ [l EXCEPT !.left = x].token = l.token
  BY DEF Lock, Renewed

\* Client d holds no token it did not hold before.
KeepsToken(d) ==
    pc'[d] \in Numbered => pc[d] \in Numbered /\ lock'[d].token = lock[d].token

LEMMA TokensKept ==
    ASSUME TokenInv, counter' = counter, \A d \in Clients : KeepsToken(d)
    PROVE  TokenInv'
  BY DEF TokenInv, KeepsToken

LEMMA TokenInit == Init => TokenInv
  BY DEF Init, TokenInv, Numbered, Stamped

\* INCR answers with a number ahead of every token in use.
LEMMA TokenDrawn ==
    ASSUME EnableFencing, ~CounterFaults, Typed, TokenInv, NEW c \in Clients, GenToken(c)
    PROVE  TokenInv'
<1>1. counter \in Nat /\ lock[c] \in Lock
  BY DEF GenToken, Typed, TypeOK, Shape
<1>2. /\ counter' = counter + 1
      /\ lock' = [lock EXCEPT ![c] = [lock[c] EXCEPT !.token = counter + 1]]
  BY DEF GenToken, NextToken
<1>3. /\ lock'[c].token = counter + 1
      /\ \A d \in Clients \ {c} : lock'[d] = lock[d]
  BY <1>1, <1>2 DEF Lock, Typed, TypeOK
<1>4. \A d \in Clients \ {c} : pc'[d] = pc[d]
  BY DEF GenToken, Goto, Typed, TypeOK
<1>5. \A d \in Clients \ {c} :
         pc'[d] \in Numbered => lock'[d].token \in 1..counter /\ lock'[d].token # counter + 1
  BY <1>1, <1>3, <1>4 DEF TokenInv
<1>6. \A d \in Clients : pc'[d] \in Numbered => lock'[d].token \in 1..counter'
  BY <1>1, <1>2, <1>3, <1>5
<1>7. \A d, e \in Clients :
         d # e /\ pc'[d] \in Numbered /\ pc'[e] \in Numbered => lock'[d].token # lock'[e].token
  BY <1>3, <1>4, <1>5 DEF TokenInv
<1> QED
  BY <1>6, <1>7 DEF TokenInv

LEMMA TokenStep ==
    ASSUME EnableFencing, ~CounterFaults, Typed, TokenInv, [Next]_vars
    PROVE  TokenInv'
<1> USE DEF Typed, TypeOK, Shape, Numbered, Stamped, Goto, Return, Call, KeepsToken
<1>0. \A d \in Clients : pc[d] \in Numbered => lock[d] \in Lock
  OBVIOUS
<1>1. ASSUME NEW c \in Clients, ClientStep(c) PROVE TokenInv'
  <2>1. CASE GenToken(c)
    BY <2>1, TokenDrawn
  <2>2. CASE Stamp(c)
    <3>1. PICK o \in OwnerIds :
             lock' = [lock EXCEPT ![c] = [lock[c] EXCEPT !.owner = o, !.left = TTL]]
      BY <2>2 DEF Stamp
    <3>2. lock[c] \in Lock /\ pc[c] = "stamp"
      BY <2>2 DEF Stamp
    <3>3. lock'[c].token = lock[c].token
      BY <3>1, <3>2 DEF Lock
    <3> QED
      BY <2>2, <3>2, <3>3, TokensKept DEF Stamp
  <2>3. CASE ExtendAssign(c)
    <3>1. lock'[c] = Renewed(lock[c], pend[c].left, pend[c].ttl) /\ lock[c] \in Lock
      BY <2>3 DEF ExtendAssign
    <3>2. lock'[c].token = lock[c].token
      BY ONLY <3>1, TokenField
    <3> QED
      BY <2>3, <3>2, TokensKept DEF ExtendAssign
  <2>4. CASE SetNX(c) \/ SetNXFails(c) \/ Retry(c) \/ GiveUp(c) \/ \E r \in Resources : Acquire(c, r)
    BY <2>4, TokensKept DEF SetNX, SetNXFails, Retry, GiveUp, Acquire
  <2>5. CASE (\E e \in Extensions : BeginExtend(c, e)) \/ ExtendValidated(c) \/ ExtendScript(c) \/ ExtendFails(c)
    BY <2>5, TokensKept DEF BeginExtend, ExtendValidated, ExtendScript, ExtendFails
  <2>6. CASE BeginRelease(c) \/ ReleaseValidated(c) \/ ReleaseScript(c) \/ ReleaseFails(c) \/ Register(c)
    BY <2>6, TokensKept DEF BeginRelease, ReleaseValidated, ReleaseScript, ReleaseFails, Register
  <2> QED
    BY <1>1, <2>1, <2>2, <2>3, <2>4, <2>5, <2>6 DEF ClientStep
<1>2. ASSUME NEW c \in Clients, WatchdogStep(c) PROVE TokenInv'
  <2>1. counter' = counter /\ pc' = pc
    BY <1>2 DEF WatchdogStep, WatchdogTick, WatchdogScript, WatchdogAssign, WatchdogFails
  <2>2. \A d \in Clients :
           lock'[d] = lock[d] \/ lock'[d] = Renewed(lock[d], watch[d].left, watch[d].ttl)
    BY <1>2 DEF WatchdogStep, WatchdogTick, WatchdogScript, WatchdogAssign, WatchdogFails
  <2>3. \A d \in Clients : pc[d] \in Numbered => lock'[d].token = lock[d].token
    BY ONLY <1>0, <2>2, TokenField
  <2> QED
    BY <2>1, <2>3, TokensKept
<1>3. ASSUME NEW c \in Clients, Crash(c) PROVE TokenInv'
  BY <1>3, TokensKept DEF Crash
<1>4. CASE Tick
  <2>1. counter' = counter /\ pc' = pc
    BY <1>4 DEF Tick
  <2>2. \A d \in Clients :
           lock[d] # Nil => lock'[d] = [lock[d] EXCEPT !.left = Aged(lock[d].left)]
    BY <1>4 DEF Tick, AgeAll
  <2>3. \A d \in Clients : pc[d] \in Numbered => lock'[d].token = lock[d].token
    <3> SUFFICES ASSUME NEW d \in Clients, pc[d] \in Numbered
                 PROVE  lock'[d].token = lock[d].token
      OBVIOUS
    <3>1. lock[d] \in Lock /\ lock'[d] = [lock[d] EXCEPT !.left = Aged(lock[d].left)]
      BY <1>0, <2>2
    <3> QED
      BY ONLY <3>1, TokenField
  <2> QED
    BY <2>1, <2>3, TokensKept
<1>5. CASE UNCHANGED vars
  BY <1>5, TokensKept DEF vars
<1> QED
  BY <1>1, <1>2, <1>3, <1>4, <1>5 DEF Next

\* With fencing tokens enabled, and INCR answered whatever becomes of the other
\* calls, no two clients hold Locks that carry the same token: a lapsed holder
\* and its successor can be told apart.
THEOREM DistinctTokens == EnableFencing /\ ~CounterFaults /\ Spec => []TokensDistinct
<1>1. Typed /\ TokenInv => TokensDistinct
  BY DEF TokenInv, TokensDistinct, Numbered, Stamped
<1>2. ASSUME EnableFencing, ~CounterFaults
      PROVE  Typed /\ TokenInv /\ [Next]_vars => Typed' /\ TokenInv'
  BY <1>2, TokenStep, TypedStep
<1>3. CASE EnableFencing /\ ~CounterFaults
  <2>1. Typed /\ TokenInv /\ [Next]_vars => Typed' /\ TokenInv'
    BY <1>2, <1>3
  <2> QED
    BY <1>1, <2>1, TypedInit, TokenInit, PTL DEF Spec
<1> QED
  BY <1>3

----------------------------------------------------------------------------
(* Orphans *)

RefersTo(d, o) == \/ (lock[d] # Nil /\ lock[d].owner = o)
                  \/ (watch[d] # Nil /\ watch[d].owner = o)

\* A step of a client refers to no owner ID of a key it did not refer to, and
\* moves no key of another owner.
LEMMA OrphanClient ==
    ASSUME Typed, NEW c \in Clients, ClientStep(c), NEW r \in Resources,
           NEW w, Owns(r, w), \A d \in Clients : ~RefersTo(d, w)
    PROVE  store'[r] = store[r] /\ \A d \in Clients : ~RefersTo(d, w)'
<1>0. /\ store \in [Resources -> Entry \cup {Nil}] /\ store[r] \in Entry
      /\ w = store[r].owner /\ w \in OwnerIds /\ w # NoOwner
      /\ pc[c] # "idle" => lock[c] \in Lock /\ lock[c] # Nil /\ lock[c].owner # w
      /\ lock[c] # Nil => lock[c].owner # w
      /\ watch[c] # Nil => watch[c].owner # w
  <2>1. store \in [Resources -> Entry \cup {Nil}] /\ store[r] \in Entry /\ store[r].owner = w
    BY DEF Owns, Typed, TypeOK
  <2>2. w \in OwnerIds /\ w # NoOwner
    BY <2>1, ConstAssumption DEF Entry
  <2>3. lock[c] # Nil => lock[c].owner # w
    BY DEF RefersTo
  <2>4. pc[c] # "idle" => lock[c] \in Lock /\ lock[c] # Nil
    BY DEF Typed, TypeOK, Shape
  <2> QED
    BY <2>1, <2>2, <2>3, <2>4 DEF RefersTo
<1>1. /\ \A d \in Clients \ {c} : lock'[d] = lock[d]
      /\ watch' = watch
  BY DEF Typed, TypeOK, Goto, Return, Call,
         ClientStep, Acquire, GenToken, NextToken, Stamp, SetNX, SetNXFails, Retry, GiveUp,
         BeginExtend, ExtendValidated, ExtendScript, ExtendAssign, ExtendFails,
         BeginRelease, ReleaseValidated, ReleaseScript, ReleaseFails, Register
<1>2. ASSUME lock'[c] # Nil PROVE lock'[c].owner # w
  <2>1. CASE UNCHANGED lock
    BY <1>0, <1>2, <2>1
  <2>2. CASE GenToken(c)
    <3>1. lock[c] \in Lock /\ lock[c].owner # w /\ lock \in [Clients -> Lock \cup {Nil}]
      BY <1>0, <2>2 DEF GenToken, Typed, TypeOK
    <3>2. PICK token \in Nat : lock' = [lock EXCEPT ![c] = [lock[c] EXCEPT !.token = token]]
      BY <2>2 DEF GenToken
    <3> QED
      BY <3>1, <3>2 DEF Lock
  <2>3. CASE Stamp(c)
    <3>1. lock[c] \in Lock /\ lock \in [Clients -> Lock \cup {Nil}]
      BY <1>0, <2>3 DEF Stamp, Typed, TypeOK
    <3>2. PICK o \in OwnerIds :
             Unused(o) /\ lock' = [lock EXCEPT ![c] = [lock[c] EXCEPT !.owner = o, !.left = TTL]]
      BY <2>3, Zenon DEF Stamp
    <3>3. lock'[c].owner = o
      BY <3>1, <3>2 DEF Lock
    <3> QED
      BY <3>2, <3>3 DEF Unused, Owns
  <2>4. CASE ExtendAssign(c)
    <3>1. /\ lock[c] \in Lock /\ lock[c].owner # w /\ pend[c] \in Renewal
          /\ lock'[c] = Renewed(lock[c], pend[c].left, pend[c].ttl)
      BY <1>0, <2>4 DEF ExtendAssign, Typed, TypeOK, Shape, Extending
    <3>2. pend[c].left \in Left /\ pend[c].ttl \in Durations
      BY ONLY <3>1, RenewalFields
    <3> QED
      BY ONLY <3>1, <3>2, Relock
  <2>5. CASE \E s \in Resources : lock' = [lock EXCEPT ![c] = Request(s)]
    BY <1>0, <2>5 DEF Request, Typed, TypeOK
  <2>6. CASE lock' = [lock EXCEPT ![c] = Request(lock[c].res)]
    BY <1>0, <2>6 DEF Request, Typed, TypeOK
  <2>7. CASE lock' = [lock EXCEPT ![c] = Nil]
    BY <1>2, <2>7 DEF Typed, TypeOK
  <2> QED
    BY <2>1, <2>2, <2>3, <2>4, <2>5, <2>6, <2>7
       DEF ClientStep, Acquire, SetNX, SetNXFails, Retry, GiveUp,
           BeginExtend, ExtendValidated, ExtendScript, ExtendFails,
           BeginRelease, ReleaseValidated, ReleaseScript, ReleaseFails, Register
<1>3. \A d \in Clients : ~RefersTo(d, w)'
  <2>1. ~RefersTo(c, w)'
    BY <1>0, <1>1, <1>2 DEF RefersTo
  <2>2. \A d \in Clients \ {c} : ~RefersTo(d, w)'
    BY <1>1 DEF RefersTo
  <2> QED
    BY <2>1, <2>2
<1>4. store'[r] = store[r]
  <2>1. CASE UNCHANGED store
    BY <2>1
  <2>2. CASE pc[c] = "setnx" /\ PutEntry(c)
    BY <1>0, <2>2 DEF PutEntry, Owns
  <2>3. CASE pc[c] # "idle" /\ OwnsLock(c) /\
             \E e : store' = [store EXCEPT ![lock[c].res] = e]
    BY <1>0, <2>3 DEF OwnsLock, Owns
  <2> QED
    BY <2>1, <2>2, <2>3
       DEF ClientStep, Acquire, GenToken, Stamp, SetNX, SetNXFails, Retry, GiveUp,
           BeginExtend, ExtendValidated, ExtendScript, ExtendAssign, ExtendFails,
           BeginRelease, ReleaseValidated, ReleaseScript, ReleaseFails, Register, DeleteEntry
<1> QED
  BY <1>3, <1>4

\* The same of a step of its watchdog.
LEMMA OrphanWatchdog ==
    ASSUME Typed, NEW c \in Clients, WatchdogStep(c), NEW r \in Resources,
           NEW w, Owns(r, w), \A d \in Clients : ~RefersTo(d, w)
    PROVE  store'[r] = store[r] /\ \A d \in Clients : ~RefersTo(d, w)'
<1>0. /\ store \in [Resources -> Entry \cup {Nil}]
      /\ lock[c] \in Lock \cup {Nil} /\ watch \in [Clients -> Watch \cup {Nil}]
  BY DEF Typed, TypeOK
<1>1. \A d \in Clients \ {c} : lock'[d] = lock[d] /\ watch'[d] = watch[d]
  BY <1>0 DEF WatchdogStep, WatchdogTick, WatchdogScript, WatchdogAssign, WatchdogFails, Typed, TypeOK
<1>2. /\ \/ lock'[c] = lock[c]
         \/ /\ lock[c] # Nil /\ watch[c] \in Watch
            /\ lock'[c] = Renewed(lock[c], watch[c].left, watch[c].ttl)
  BY <1>0 DEF WatchdogStep, WatchdogTick, WatchdogScript, WatchdogAssign, WatchdogFails, Typed, TypeOK
<1>3. lock'[c] # Nil => lock[c] # Nil /\ lock'[c].owner = lock[c].owner
  <2>1. CASE lock'[c] = lock[c]
    BY <2>1
  <2>2. CASE ~(lock'[c] = lock[c])
    <3>1. lock[c] \in Lock /\ lock[c] # Nil /\ watch[c].left \in Left /\ watch[c].ttl \in Durations
      BY <1>0, <1>2, <2>2, WatchFields
    <3> QED
      BY <1>2, <2>2, <3>1, Relock
  <2> QED
    BY <2>1, <2>2
<1>4. watch'[c] # Nil => \/ watch[c] # Nil /\ watch'[c].owner = watch[c].owner
                         \/ lock[c] # Nil /\ watch'[c].owner = lock[c].owner
  <2>1. CASE WatchdogTick(c)
    <3>1. lock[c] # Nil
      BY <2>1 DEF WatchdogTick, Typed, Shape
    <3> QED
      BY <1>0, <2>1, <3>1 DEF WatchdogTick
  <2>2. CASE WatchdogScript(c)
    <3>1. /\ watch[c] # Nil /\ watch[c] \in Watch
          /\ watch' = [watch EXCEPT ![c] = [watch[c] EXCEPT !.phase = "assign"]]
      BY <1>0, <2>2 DEF WatchdogScript
    <3> QED
      BY <1>0, <3>1 DEF Watch
  <2>3. CASE WatchdogAssign(c) \/ WatchdogFails(c)
    BY <1>0, <2>3 DEF WatchdogAssign, WatchdogFails
  <2> QED
    BY <2>1, <2>2, <2>3 DEF WatchdogStep
<1>5. \A d \in Clients : ~RefersTo(d, w)'
  <2>1. ~RefersTo(c, w)'
    BY <1>3, <1>4 DEF RefersTo
  <2>2. \A d \in Clients \ {c} : ~RefersTo(d, w)'
    BY <1>1 DEF RefersTo
  <2> QED
    BY <2>1, <2>2
<1>6. store'[r] = store[r]
  <2>1. CASE UNCHANGED store
    BY <2>1
  <2>2. CASE watch[c] # Nil /\ Owns(watch[c].res, watch[c].owner) /\
             \E e : store' = [store EXCEPT ![watch[c].res] = e]
    BY <1>0, <2>2 DEF Owns, RefersTo
  <2> QED
    BY <2>1, <2>2 DEF WatchdogStep, WatchdogTick, WatchdogScript, WatchdogAssign, WatchdogFails
<1> QED
  BY <1>5, <1>6

\* Time only takes from what is left to an orphan.
LEMMA OrphanTick ==
    ASSUME Typed, Tick, NEW r \in Resources,
           NEW w, Owns(r, w), \A d \in Clients : ~RefersTo(d, w)
    PROVE  /\ \/ store'[r] = Nil
              \/ store'[r].owner = w /\ store'[r].left < store[r].left
           /\ \A d \in Clients : ~RefersTo(d, w)'
<1>1. \A d \in Clients : ~RefersTo(d, w)'
  <2> SUFFICES ASSUME NEW d \in Clients PROVE ~RefersTo(d, w)'
    OBVIOUS
  <2>1. lock[d] \in Lock \cup {Nil} /\ watch[d] \in Watch \cup {Nil}
    BY DEF Typed, TypeOK
  <2>2. /\ lock[d] = Nil => lock'[d] = Nil
        /\ lock[d] # Nil => lock'[d] = [lock[d] EXCEPT !.left = Aged(lock[d].left)]
        /\ watch[d] = Nil => watch'[d] = Nil
        /\ watch[d] # Nil => watch'[d] = [watch[d] EXCEPT !.left = Aged(watch[d].left)]
    BY DEF Tick, AgeAll
  <2>3. lock[d] # Nil => lock'[d].owner = lock[d].owner
    BY ONLY <2>1, <2>2, AgedLock
  <2>4. watch[d] # Nil => watch'[d].owner = watch[d].owner
    BY ONLY <2>1, <2>2, AgedWatch
  <2> QED
    BY <2>2, <2>3, <2>4 DEF RefersTo
<1>2. store[r] \in Entry /\ store[r].left \in Nat /\ store[r].owner = w
  BY DEF Typed, TypeOK, Owns, Entry
<1>3. CASE store[r].left = 0
  BY <1>1, <1>3 DEF Tick
<1>4. CASE store[r].left # 0
  <2>1. store'[r] = [store[r] EXCEPT !.left = @ - 1, !.json = Aged(@)]
    BY <1>2, <1>4 DEF Tick, Owns
  <2>2. store'[r].owner = w /\ store'[r].left = store[r].left - 1
    BY ONLY <1>2, <1>4, <2>1, AgedEntry
  <2> QED
    BY <1>1, <1>2, <2>2
<1> QED
  BY <1>3, <1>4

\* The clock takes from an orphan what is left to it, and nobody gives it
\* back: with time passing the key of a crashed client goes.
THEOREM OrphansOnlyAge == Spec => OrphansAge
<1>1. ASSUME Typed, [Next]_vars, NEW r \in Resources,
             store[r] # Nil, ~Referenced(store[r].owner)
      PROVE  \/ store'[r] = Nil
             \/ /\ store'[r].owner = store[r].owner
                /\ ~Referenced(store[r].owner)'
                /\ store'[r].left <= store[r].left
                /\ Tick => store'[r].left < store[r].left
  <2> PICK w \in OwnerIds : w = store[r].owner
    BY <1>1 DEF Typed, TypeOK, Entry
  <2>1. Owns(r, w) /\ \A d \in Clients : ~RefersTo(d, w)
    BY <1>1 DEF Owns, Referenced, RefersTo
  <2>2. store[r].left \in Nat
    BY <1>1 DEF Typed, TypeOK, Entry
  <2>3. (\A d \in Clients : ~RefersTo(d, w)') /\ store'[r].owner = w =>
            ~Referenced(store[r].owner)'
    BY DEF Referenced, RefersTo
  <2>4. CASE Tick
    <3>1. /\ \/ store'[r] = Nil
             \/ store'[r].owner = w /\ store'[r].left < store[r].left
          /\ \A d \in Clients : ~RefersTo(d, w)'
      BY <1>1, <2>1, <2>4, OrphanTick
    <3>2. \A x \in Resources : store'[x] # Nil => store'[x].left \in Nat
      BY <1>1, TypedStep DEF Typed, TypeOK, Entry
    <3> QED
      BY <1>1, <2>2, <2>3, <3>1, <3>2
  <2>5. CASE ~Tick
    <3>1. store'[r] = store[r] /\ \A d \in Clients : ~RefersTo(d, w)'
      <4>1. CASE \E c \in Clients : ClientStep(c)
        BY <1>1, <2>1, <4>1, OrphanClient
      <4>2. CASE \E c \in Clients : WatchdogStep(c)
        BY <1>1, <2>1, <4>2, OrphanWatchdog
      <4>3. CASE \E c \in Clients : Crash(c)
        BY <1>1, <2>1, <4>3 DEF Crash, RefersTo, Typed, TypeOK
      <4>4. CASE UNCHANGED vars
        BY <2>1, <4>4 DEF vars, RefersTo
      <4> QED
        BY <1>1, <2>5, <4>1, <4>2, <4>3, <4>4 DEF Next
    <3> QED
      BY <2>2, <2>3, <2>5, <3>1
  <2> QED
    BY <2>4, <2>5
<1>2. Typed /\ [Next]_vars =>
        [\A r \in Resources :
            store[r] # Nil /\ ~Referenced(store[r].owner) =>
                \/ store'[r] = Nil
                \/ /\ store'[r].owner = store[r].owner
                   /\ ~Referenced(store[r].owner)'
                   /\ store'[r].left <= store[r].left
                   /\ Tick => store'[r].left < store[r].left]_vars
  BY <1>1
<1> QED
  BY <1>2, TypedInit, TypedStep, PTL DEF Spec, OrphansAge

----------------------------------------------------------------------------
(* Refinement of the abstract lease *)

LEMMA EntitledInit == Init => Lease!Init
<1> SUFFICES ASSUME Init PROVE \A r \in Resources : Entitled[r] = {}
  BY DEF Lease!Init, Entitled
<1> QED
  BY DEF Init, Entitled, Believes

\* Only the client that takes the step can begin to trust a Lock, and the
\* resource of a Lock in its hands is fixed.
LEMMA BeliefStep ==
    ASSUME Typed, [Next]_vars
    PROVE  \/ \A d \in Clients : Believes(d)' => Believes(d) /\ lock'[d].res = lock[d].res
           \/ \E c \in Clients :
                 /\ Believes(c) /\ Believes(c)' => lock'[c].res = lock[c].res
                 /\ \A d \in Clients \ {c} : pc'[d] = pc[d] /\ lock'[d] = lock[d]
<1>0. /\ \A d \in Clients : pc[d] \in Holding => lock[d] \in Lock
      /\ \A d \in Clients : pc[d] \in Extending => pend[d] \in Renewal
  BY DEF Typed, TypeOK, Shape, Extending
<1>1. ASSUME NEW c \in Clients, ClientStep(c)
      PROVE  /\ pc[c] \in Holding /\ pc'[c] \in Holding => lock'[c].res = lock[c].res
             /\ \A d \in Clients \ {c} : pc'[d] = pc[d] /\ lock'[d] = lock[d]
  <2> USE DEF Typed, TypeOK, Goto, Return, Call
  <2>1. CASE ExtendAssign(c)
    <3>1. /\ pc[c] = "extAssign" /\ lock'[c] = Renewed(lock[c], pend[c].left, pend[c].ttl)
          /\ \A d \in Clients \ {c} : pc'[d] = pc[d] /\ lock'[d] = lock[d]
      BY <2>1 DEF ExtendAssign
    <3>2. lock[c] \in Lock /\ pend[c] \in Renewal
      BY <1>0, <3>1 DEF Extending
    <3>3. pend[c].left \in Left /\ pend[c].ttl \in Durations
      BY ONLY <3>2, RenewalFields
    <3>4. lock'[c].res = lock[c].res
      BY ONLY <3>1, <3>2, <3>3, Relock
    <3> QED
      BY <3>1, <3>4
  <2>2. CASE ~ExtendAssign(c)
    BY <1>1, <2>2
       DEF ClientStep, Acquire, GenToken, NextToken, Stamp, SetNX, SetNXFails, Retry, GiveUp,
           BeginExtend, ExtendValidated, ExtendScript, ExtendFails,
           BeginRelease, ReleaseValidated, ReleaseScript, ReleaseFails, Register
  <2> QED
    BY <2>1, <2>2
<1>2. ASSUME NEW c \in Clients, WatchdogStep(c)
      PROVE  /\ pc[c] \in Holding => lock'[c].res = lock[c].res
             /\ \A d \in Clients \ {c} : pc'[d] = pc[d] /\ lock'[d] = lock[d]
  <2>1. /\ \A d \in Clients \ {c} : pc'[d] = pc[d] /\ lock'[d] = lock[d]
        /\ \/ lock'[c] = lock[c]
           \/ watch[c] # Nil /\ lock'[c] = Renewed(lock[c], watch[c].left, watch[c].ttl)
    BY <1>2 DEF WatchdogStep, WatchdogTick, WatchdogScript, WatchdogAssign, WatchdogFails, Typed, TypeOK
  <2>2. watch[c] # Nil => watch[c] \in Watch
    BY DEF Typed, TypeOK
  <2>3. watch[c] # Nil => watch[c].left \in Left /\ watch[c].ttl \in Durations
    BY ONLY <2>2, WatchFields
  <2>4. lock[c] \in Lock => lock'[c].res = lock[c].res
    BY ONLY <2>1, <2>3, Relock
  <2> QED
    BY <1>0, <2>1, <2>4
<1>3. ASSUME NEW c \in Clients, Crash(c)
      PROVE  \A d \in Clients : Believes(d)' => Believes(d) /\ lock'[d].res = lock[d].res
  BY <1>3 DEF Crash, Goto, Believes, IsExpired, Typed, TypeOK
<1>4. CASE Tick
  <2> SUFFICES ASSUME NEW d \in Clients, Believes(d)' PROVE Believes(d) /\ lock'[d].res = lock[d].res
    OBVIOUS
  <2>1. pc[d] \in Holding /\ lock[d] \in Lock /\ lock'[d].left # Past
    BY <1>0, <1>4 DEF Tick, Believes, IsExpired
  <2>2. lock'[d] = [lock[d] EXCEPT !.left = Aged(lock[d].left)]
    BY <1>4, <2>1, NilAssumption DEF Tick, AgeAll
  <2>3. lock'[d].left = Aged(lock[d].left) /\ lock'[d].res = lock[d].res
    BY ONLY <2>1, <2>2, AgedLock
  <2>4. lock[d].left # Past
    BY <2>1, <2>3 DEF Aged
  <2> QED
    BY <2>1, <2>3, <2>4 DEF Believes, IsExpired
<1>5. CASE UNCHANGED vars
  BY <1>5 DEF vars, Believes, IsExpired
<1> QED
  BY <1>1, <1>2, <1>3, <1>4, <1>5 DEF Next, Believes

LEMMA EntitledStep ==
    ASSUME Typed, Typed', MutualExclusion', [Next]_vars
    PROVE  [Lease!Next]_Entitled
<1>1. CASE \A d \in Clients : Believes(d)' => Believes(d) /\ lock'[d].res = lock[d].res
  <2>1. \A r \in Resources : Entitled'[r] \subseteq Entitled[r]
    BY <1>1 DEF Entitled
  <2>2. Entitled' \in [Resources -> SUBSET Clients]
    BY DEF Entitled
  <2> QED
    BY <2>1, <2>2 DEF Lease!Next, Lease!Leave
<1>2. ASSUME NEW c \in Clients,
             Believes(c) /\ Believes(c)' => lock'[c].res = lock[c].res,
             \A d \in Clients \ {c} : pc'[d] = pc[d] /\ lock'[d] = lock[d]
      PROVE  [Lease!Next]_Entitled
  <2>1. \A d \in Clients \ {c} : Believes(d)' = Believes(d) /\ lock'[d] = lock[d]
    BY <1>2 DEF Believes, IsExpired
  <2>2. CASE Believes(c)' => Believes(c)
    BY <1>1, <1>2, <2>1, <2>2
  <2>3. CASE Believes(c)' /\ ~Believes(c)
    <3>1. lock'[c] \in Lock
      BY <2>3 DEF Believes, Typed, TypeOK, Shape
    <3>2. lock'[c].res \in Resources
      BY ONLY <3>1, LockFields
    <3>3. \A d \in Clients \ {c} : Believes(d) => lock[d].res # lock'[c].res
      BY <2>1, <2>3 DEF MutualExclusion
    <3>4. Entitled[lock'[c].res] = {}
      BY <2>3, <3>2, <3>3 DEF Entitled
    <3>5. Entitled' = [Entitled EXCEPT ![lock'[c].res] = {c}]
      <4> SUFFICES ASSUME NEW r \in Resources
                   PROVE  Entitled'[r] = IF r = lock'[c].res THEN {c} ELSE Entitled[r]
        BY DEF Entitled
      <4>1. Entitled'[r] = {d \in Clients : Believes(d)' /\ lock'[d].res = r}
        BY DEF Entitled
      <4>2. Entitled[r] = {d \in Clients : Believes(d) /\ lock[d].res = r}
        BY DEF Entitled
      <4>3. CASE r = lock'[c].res
        BY <2>1, <2>3, <3>3, <4>1, <4>3
      <4>4. CASE r # lock'[c].res
        BY <2>1, <2>3, <4>1, <4>2, <4>4
      <4> QED
        BY <4>3, <4>4
    <3> QED
      BY <3>2, <3>4, <3>5 DEF Lease!Next, Lease!Enter
  <2> QED
    BY <2>2, <2>3
<1> QED
  BY <1>1, <1>2, BeliefStep

\* The lock service implements the abstract lease: every step of its
\* processes, watchdogs and clock enters, leaves or stutters.
THEOREM Refinement == Extensions \subseteq {TTL} /\ Spec => RefinesLease
<1>1. IInv => MutualExclusion /\ Typed
  BY Exclusive DEF IInv, Typed
<1>2. IInv /\ IInv' /\ [Next]_vars => [Lease!Next]_Entitled
  <2>1. IInv' => MutualExclusion' /\ Typed'
    BY <1>1, PTL
  <2> QED
    BY <1>1, <2>1, EntitledStep
<1>3. CASE Renewing
  BY <1>2, <1>3, IInvInit, IInvStep, EntitledInit, PTL DEF Spec, RefinesLease, Lease!Spec
<1> QED
  BY <1>3 DEF Renewing
=============================================================================
