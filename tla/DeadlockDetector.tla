-------------------------- MODULE DeadlockDetector --------------------------
(***************************************************************************)
(* The wait-for graph of neam/shared/src/coordination and the detector     *)
(* that looks for deadlocks in it (deadlock_detector.go).                  *)
(*                                                                         *)
(* The locks themselves are the environment: owner and waits say who       *)
(* really holds and really waits for what.  Each transaction registers     *)
(* with the detector in the step in which it takes, awaits or frees a      *)
(* lock, which is as favourable to the detector as clients can be; but     *)
(* nothing tells the detector of a wait that fails, after which a          *)
(* transaction goes on with the locks it holds and may wait again.  The    *)
(* detector's goroutine takes the graph's mutex once per operation, so     *)
(* clients register between its cleanup, its search, its choice of a       *)
(* victim and the victim's removal.                                        *)
(***************************************************************************)
EXTENDS WaitForGraph

CONSTANTS
    Txs,            \* transaction IDs, one per transaction
    Resources,
    Takes,          \* the resources each transaction takes when they are free
    Wants,          \* those it waits for when they are not
    Impatient,      \* those whose waits may fail
    None,
    Priority,       \* the priority each transaction registers with
    Strategies,     \* how the detector may be configured (DeadlockConfig)
    TwoPhase,       \* do transactions take no lock after they freed one?
    MaxWaitTime,    \* DeadlockConfig.MaxWaitTime
    StaleAfter      \* the ten minutes of Cleanup

ASSUME ConstAssumption ==
    /\ IsFiniteSet(Txs)
    /\ Takes \in [Txs -> SUBSET Resources] /\ Wants \in [Txs -> SUBSET Resources]
    /\ Impatient \subseteq Txs
    /\ Priority \in [Txs -> Int]
    /\ Strategies \subseteq {"waitDie", "timeout", "priority"}
    /\ TwoPhase \in BOOLEAN
    /\ MaxWaitTime \in Nat
    /\ StaleAfter \in Nat
    /\ MaxWaitTime <= StaleAfter
    /\ None \notin Txs \cup Resources

VARIABLES
    owner,      \* who holds each resource
    waits,      \* the resource each transaction waits for
    phase,      \* a two-phase transaction grows until it frees a resource
    node,       \* LockGraph.nodes
    edges,      \* LockGraph.edges
    strategy,   \* how the detector is configured
    det,        \* where detectAndResolve is
    cycles,     \* cycles it has still to resolve
    blamed,     \* the cycle it is resolving
    victim,     \* the transaction it is about to abort
    asked,      \* history: the resources each transaction ever waited for
    unseen,     \* history: who waits for one that freed another resource since
    forgotten   \* history: transactions whose node was removed by the detector

clients == <<owner, waits, phase, asked, unseen>>
detector == <<strategy, det, cycles, blamed, victim>>
vars == <<clients, node, edges, detector, forgotten>>

Old == StaleAfter + 1                   \* ages are not told apart beyond it
Node == [held : SUBSET Resources, wait : Resources \cup {None},
         age : 0..Old, prio : Int]
ASSUME NodeAssumption == None \notin Node

TypeOK ==
    /\ owner \in [Resources -> Txs \cup {None}]
    /\ waits \in [Txs -> Resources \cup {None}]
    /\ phase \in [Txs -> {"growing", "shrinking"}]
    /\ node \in [Txs -> Node \cup {None}]
    /\ edges \subseteq Txs \X Txs
    /\ strategy \in Strategies
    /\ det \in {"idle", "search", "resolve", "abort"}
    /\ cycles \subseteq SUBSET Txs
    /\ blamed \subseteq Txs
    /\ victim \in Txs \cup {None}
    /\ asked \in [Txs -> SUBSET Resources]
    /\ unseen \subseteq Txs /\ forgotten \subseteq Txs

----------------------------------------------------------------------------
(* LockGraph *)

\* WaitStart is the zero time until the first wait: longer ago than any other.
NewNode == [held |-> {}, wait |-> None, age |-> Old, prio |-> 0]
NodeOf(t) == IF node[t] = None THEN NewNode ELSE node[t]    \* getOrCreateNode
HeldBy(t) == NodeOf(t).held
WantedBy(t) == NodeOf(t).wait

Waiting(n, r, prio) == [n EXCEPT !.wait = r, !.age = 0, !.prio = prio]

AddWaiter(t, r) ==
    /\ node' = [node EXCEPT ![t] = Waiting(NodeOf(t), r, Priority[t])]
    /\ edges' = edges \cup
          {<<t, o>> : o \in {o \in Txs \ {t} : r \in HeldBy(o)}}

\* Mutant of AddHolder: a new holder is not linked to those already waiting.
AddHolderUnlinked(t, r) ==
    /\ node' = [node EXCEPT ![t] = [NodeOf(t) EXCEPT !.held = @ \cup {r}]]
    /\ edges' = edges

AddHolder(t, r) ==
    /\ node' = [node EXCEPT ![t] = [NodeOf(t) EXCEPT !.held = @ \cup {r}]]
    /\ edges' = edges \cup
          {<<o, t>> : o \in {o \in Txs \ {t} : WantedBy(o) = r}}

\* Mutant of RemoveHolder: the edges to the transaction stay.
RemoveHolderLinked(t, r) ==
    IF node[t] = None THEN UNCHANGED <<node, edges>>
    ELSE /\ node' = [node EXCEPT ![t].held = @ \ {r}]
         /\ edges' = edges

\* Every edge to t goes, whatever resource it stands for.
RemoveHolder(t, r) ==
    IF node[t] = None THEN UNCHANGED <<node, edges>>
    ELSE /\ node' = [node EXCEPT ![t].held = @ \ {r}]
         /\ edges' = {e \in edges : e[2] # t \/ e[1] = t}

\* delete of nodes, and of the edges at both ends.
RemoveNodes(gone) ==
    /\ node' = [t \in Txs |-> IF t \in gone THEN None ELSE node[t]]
    /\ edges' = {e \in edges : e[1] \notin gone /\ e[2] \notin gone}

\* The cycles in the graph.
GraphCycles == CyclesOf(edges, Txs)

----------------------------------------------------------------------------
Init ==
    /\ owner = [r \in Resources |-> None]
    /\ waits = [t \in Txs |-> None]
    /\ phase = [t \in Txs |-> "growing"]
    /\ node = [t \in Txs |-> None]
    /\ edges = {}
    /\ strategy \in Strategies
    /\ det = "idle"
    /\ cycles = {}
    /\ blamed = {}
    /\ victim = None
    /\ asked = [t \in Txs |-> {}]
    /\ unseen = {}
    /\ forgotten = {}

(* The transactions *)

Lock(t, r) ==
    /\ phase[t] = "growing"
    /\ waits[t] = None
    /\ r \in Takes[t]
    /\ owner[r] = None
    /\ owner' = [owner EXCEPT ![r] = t]
    /\ AddHolder(t, r)
    /\ UNCHANGED <<waits, phase, asked, unseen, detector, forgotten>>

BeginWait(t, r) ==
    /\ phase[t] = "growing"
    /\ waits[t] = None
    /\ r \in Wants[t]
    /\ owner[r] \notin {None, t}
    /\ waits' = [waits EXCEPT ![t] = r]
    /\ asked' = [asked EXCEPT ![t] = @ \cup {r}]
    /\ AddWaiter(t, r)
    /\ UNCHANGED <<owner, phase, unseen, detector, forgotten>>

Granted(t) ==
    /\ waits[t] # None
    /\ owner[waits[t]] = None
    /\ owner' = [owner EXCEPT ![waits[t]] = t]
    /\ waits' = [waits EXCEPT ![t] = None]
    /\ AddHolder(t, waits[t])
    /\ UNCHANGED <<phase, asked, unseen, detector, forgotten>>

\* The wait fails after its retries; nothing tells the graph.  The transaction
\* keeps what it holds and goes on, perhaps to wait again.
GiveUp(t) ==
    /\ t \in Impatient
    /\ waits[t] # None
    /\ waits' = [waits EXCEPT ![t] = None]
    /\ unseen' = unseen \ {t}
    /\ UNCHANGED <<owner, phase, node, edges, asked, detector, forgotten>>

\* Who waits for another resource of t.
WaitElsewhere(t, r) == {u \in Txs : waits[u] \notin {None, r} /\ owner[waits[u]] = t}

Release(t, r) ==
    /\ waits[t] = None
    /\ owner[r] = t
    /\ owner' = [owner EXCEPT ![r] = None]
    /\ phase' = [phase EXCEPT ![t] = IF TwoPhase THEN "shrinking" ELSE @]
    /\ unseen' = {u \in unseen : waits[u] # r} \cup WaitElsewhere(t, r)
    /\ RemoveHolder(t, r)
    /\ UNCHANGED <<waits, asked, detector, forgotten>>

(* Time *)

Young(t) == WantedBy(t) # None /\ node[t].age < Old

Tick ==
    /\ \E t \in Txs : Young(t)
    /\ node' = [t \in Txs |-> IF Young(t) THEN [node[t] EXCEPT !.age = @ + 1] ELSE node[t]]
    /\ UNCHANGED <<clients, edges, detector, forgotten>>

(* detectAndResolve *)

\* Mutant of Stale: nodes that have waited for nothing are taken for old.
StaleIdle == {t \in Txs : node[t] # None /\ WantedBy(t) = None /\ node[t].age > StaleAfter}

\* Nodes that waited long ago, whether they still wait or not.
Stale == {t \in Txs : WantedBy(t) # None /\ node[t].age > StaleAfter}

Sweep == RemoveNodes(Stale) /\ forgotten' = forgotten \cup Stale

\* The detection ticker; Cleanup does its work at most every five minutes.
Cleanup ==
    /\ det = "idle"
    /\ det' = "search"
    /\ Sweep \/ UNCHANGED <<node, edges, forgotten>>
    /\ UNCHANGED <<clients, strategy, cycles, blamed, victim>>

\* Mutant of SearchResult: sets that merely touch an edge count as cycles.
SearchResultLoose ==
    IF edges = {} THEN {{}} ELSE {{{e[1], e[2]}} : e \in edges}

\* What DetectCycles may return (module CycleSearch has the search itself).
SearchResult == SearchResults(edges, Txs)

Search ==
    /\ det = "search"
    /\ cycles' \in SearchResult
    /\ det' = IF cycles' = {} THEN "idle" ELSE "resolve"
    /\ UNCHANGED <<clients, node, edges, strategy, blamed, victim, forgotten>>

Present(C) == {t \in C : node[t] # None}

\* resolveWaitDie: the highest priority above 0, the first if there are several.
WaitDieVictims(C) ==
    {t \in Present(C) : /\ node[t].prio > 0
                        /\ \A u \in Present(C) : node[u].prio <= node[t].prio}

\* resolveByPriority(cycle, false): the same, whatever the sign.
PriorityVictims(C) ==
    {t \in Present(C) : \A u \in Present(C) : node[u].prio <= node[t].prio}

\* resolveTimeout: the longest waiting, if it waited longer than MaxWaitTime.
TimeoutVictims(C) ==
    {t \in Present(C) : /\ node[t].age > MaxWaitTime
                        /\ \A u \in Present(C) : node[u].age <= node[t].age}

\* resolveDeadlock
Victims(C) ==
    CASE strategy = "waitDie"  -> IF Cardinality(C) < 2 THEN {} ELSE WaitDieVictims(C)
      [] strategy = "timeout"  -> TimeoutVictims(C)
      [] strategy = "priority" -> IF Cardinality(C) < 2 THEN {} ELSE PriorityVictims(C)

After(left) == IF left = {} THEN "idle" ELSE "resolve"

Choose ==
    /\ det = "resolve"
    /\ \E C \in cycles :
          /\ cycles' = cycles \ {C}
          /\ \/ /\ Victims(C) = {}
                /\ det' = After(cycles')
                /\ UNCHANGED <<blamed, victim>>
             \/ \E v \in Victims(C) :
                /\ victim' = v
                /\ blamed' = C
                /\ det' = "abort"
    /\ UNCHANGED <<clients, node, edges, strategy, forgotten>>

\* Mutant of Abort: the victim is noted and stays in the graph.
AbortKeepsNode ==
    /\ det = "abort"
    /\ forgotten' = forgotten \cup {victim}
    /\ victim' = None
    /\ blamed' = {}
    /\ det' = After(cycles)
    /\ UNCHANGED <<clients, node, edges, strategy, cycles>>

\* abortTransaction: the node goes; the transaction itself is not told.
Abort ==
    /\ det = "abort"
    /\ RemoveNodes({victim})
    /\ forgotten' = forgotten \cup {victim}
    /\ victim' = None
    /\ blamed' = {}
    /\ det' = After(cycles)
    /\ UNCHANGED <<clients, strategy, cycles>>

ClientStep(t) ==
    \/ \E r \in Resources : Lock(t, r) \/ BeginWait(t, r) \/ Release(t, r)
    \/ Granted(t) \/ GiveUp(t)

DetectorStep == Cleanup \/ Search \/ Choose \/ Abort

Next == DetectorStep \/ Tick \/ \E t \in Txs : ClientStep(t)

Spec == Init /\ [][Next]_vars

\* The ticker fires again and again, the detector's steps end, and time
\* passes.  Nothing obliges a transaction to give up a wait or a lock.
Fairness == WF_vars(DetectorStep) /\ WF_vars(Tick)

FairSpec == Spec /\ Fairness

----------------------------------------------------------------------------
(* Safety *)

WaitsFor(t, u) == waits[t] # None /\ owner[waits[t]] = u

\* C is made of cycles of transactions that wait for one another.
Real(C) == /\ \A x \in C : waits[x] # None
           /\ {owner[waits[x]] : x \in C} = C

\* t is on a cycle of transactions that really wait for one another.
Deadlocked(t) == \E S \in SUBSET Txs : t \in S /\ Real(S)

\* Who has waited for something that somebody else holds.
Asks == {e \in Txs \X Txs : e[1] # e[2] /\ \E r \in asked[e[1]] : owner[r] = e[2]}

\* All that t ever waited for it holds or waits for: it has given up no wait,
\* or taken it up again.
Loyal(t) == \A r \in asked[t] : waits[t] = r \/ owner[r] = t

\* An edge leads to somebody who holds, now, a resource its transaction has
\* waited for; for a loyal one it is the wait under way.  Waits are given up
\* and overwritten without a word to the graph, and edges of earlier waits
\* are drawn and stay, but to nobody else.
EdgesTrue == edges \subseteq Asks

\* Every wait is there, grants to others, late holders and releases in between
\* included.  Missing are waits for somebody who has freed another resource
\* since they began (RemoveHolder takes all edges), and those of nodes the
\* detector removed.
WaitsShown ==
    \A t, u \in Txs :
        WaitsFor(t, u) /\ t \notin unseen \cup forgotten /\ u \notin forgotten
            => <<t, u>> \in edges

\* The graph agrees with the locks, both ways.
GraphTrue == EdgesTrue /\ WaitsShown

\* So no deadlock escapes the search, when transactions are two-phase.
NoMissedDeadlock ==
    \A S \in SUBSET (Txs \ forgotten) :
        S # {} /\ Real(S) => \E C \in GraphCycles : C \subseteq S

\* When a victim's node is removed, though clients moved on after the search,
\* each of those blamed with it has waited for something the next one holds,
\* and it is in a deadlock if they are all loyal - as long as nobody on the
\* cycle has begun to release.
VictimDeadlocked ==
    victim # None /\ (\A t \in blamed : phase[t] = "growing") =>
        /\ IsCycleOf(Asks, blamed)
        /\ (\A t \in blamed : Loyal(t)) => Deadlocked(victim)

\* A cycle that resolveWaitDie leaves alone: nobody's priority is above 0.
Hopeless(C) == \A t \in C : node[t].prio <= 0

WaitAnew == \E t \in Txs, r \in Resources : BeginWait(t, r)

\* The detector alone sooner or later breaks every cycle in the graph, if it
\* goes by priority.  With waitDie one without a priority above 0 may stay,
\* and any that overlap it; with a timeout they may stay while waits are given
\* up and begun anew, since each time begins again with the wait.
CyclesCleared ==
    /\ strategy = "priority" => []<>(GraphCycles = {})
    /\ strategy = "waitDie" =>
          []<>(GraphCycles = {} \/ \E C \in GraphCycles : Hopeless(C))
    /\ strategy = "timeout" => []<>(GraphCycles = {}) \/ []<><<WaitAnew>>_vars

\* What is left to it Cleanup clears, whatever the strategy and the priorities,
\* if it does its work again and again and waits do not begin for ever.
StaleCleared ==
    []<><<Cleanup /\ Sweep>>_vars /\ <>[][~WaitAnew]_vars => []<>(GraphCycles = {})

----------------------------------------------------------------------------
(* The invariants behind GraphTrue, VictimDeadlocked and NoMissedDeadlock *)

\* What the nodes say of the locks.
NodesTrue ==
    \A t \in Txs :
        /\ \A r \in HeldBy(t) : owner[r] = t
        /\ WantedBy(t) \in asked[t] \cup {None}
        /\ waits[t] \in asked[t] \cup {None}
        /\ t \notin forgotten =>
              /\ \A r \in Resources : owner[r] = t => r \in HeldBy(t)
              /\ waits[t] # None => WantedBy(t) = waits[t]

\* No edge dangles.
EdgesJoinNodes == \A e \in edges : node[e[1]] # None /\ node[e[2]] # None

\* Who waits unseen waits for somebody, who has begun to release.
UnseenWait ==
    \A t \in unseen :
        /\ waits[t] # None /\ owner[waits[t]] # None
        /\ TwoPhase => phase[owner[waits[t]]] = "shrinking"

\* Who waits has not.
WaitersGrow == \A t \in Txs : waits[t] # None => phase[t] = "growing"

VictimBlamed ==
    /\ victim # None => victim \in blamed
    /\ det = "abort" => victim # None

\* The cycles the detector still works on lead around by what was asked for.
CyclesKnit ==
    TwoPhase => \A C \in cycles \cup {blamed} :
        (\A t \in C : phase[t] = "growing") => IsCycleOf(Asks, C)

IInv ==
    /\ TypeOK /\ NodesTrue /\ EdgesJoinNodes /\ EdgesTrue /\ WaitsShown
    /\ UnseenWait /\ (TwoPhase => WaitersGrow) /\ VictimBlamed /\ CyclesKnit
=============================================================================
