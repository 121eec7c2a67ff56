--------------------------- MODULE EvidenceChain ----------------------------
(***************************************************************************)
(* The forensic evidence service of neam/reporting (forensic/service.go):  *)
(* GenerateEvidence, addToChain and SealChain on the maps evidence and     *)
(* chains.  A call reads the map under the read lock, stores under the     *)
(* write lock and enters the chain under the write lock again; these three *)
(* are the steps between which calls overlap.  Go visits a map in random   *)
(* order: the parent is any evidence of the type, not the latest.  An ID   *)
(* is the nanosecond of its making, and two calls may read the same one.   *)
(*                                                                         *)
(* Nothing is written to a database.  When the process dies, killed or by  *)
(* the runtime's check of maps (maintainChains iterates over chains with   *)
(* no lock while addToChain adds to it), all evidence is gone.             *)
(***************************************************************************)
EXTENDS Integers, Sequences

CONSTANTS
    Calls,      \* calls of GenerateEvidence; a call stands for its evidence
    Types,      \* evidence types, each with its chain
    Type,       \* the type each call asks for
    None,       \* no evidence, no root hash
    Stamp,      \* a root hash made by SealChain of the time of day
    MaxClock,   \* bound of the model: ticks of the clock
    MaxDeaths   \* bound of the model: deaths of the process

ASSUME EvidenceAssumption ==
    /\ Type \in [Calls -> Types]
    /\ None \notin Calls /\ Stamp \notin Calls /\ Stamp # None
    /\ MaxClock \in Nat /\ MaxDeaths \in Nat

VARIABLES
    clock,      \* time.Now().UnixNano()
    deaths,     \* deaths of the process so far
    pc,         \* where each call is
    id,         \* Evidence.ID
    parent,     \* the evidence whose ChainHash is its ParentHash, or None
    evidence,   \* Service.evidence: the evidence under each ID
    entries,    \* EvidenceChain.Entries of each type
    sealed,     \* types whose chain has the status "sealed"
    root,       \* the evidence whose ChainHash each RootHash is made of, or Stamp
    prior,      \* history: calls that had returned when each call began
    late        \* history: calls that came to a chain already sealed

store == <<evidence, entries, sealed, root>>
mine  == <<id, parent, prior>>
vars  == <<clock, deaths, pc, mine, store, late>>

\* "gone" are calls that returned to their clients, and "lost" calls that
\* were under way, when the process died.
Places == {"new", "made", "stored", "done", "lost", "gone"}
UnderWay == {"made", "stored"}

InChain(r) == \E i \in 1 .. Len(entries[Type[r]]) : entries[Type[r]][i] = r

TypeOK ==
    /\ clock \in 0 .. MaxClock /\ deaths \in 0 .. MaxDeaths
    /\ pc \in [Calls -> Places]
    /\ id \in [Calls -> 0 .. MaxClock]
    /\ parent \in [Calls -> Calls \cup {None}]
    /\ evidence \in [0 .. MaxClock -> Calls \cup {None}]
    /\ entries \in [Types -> Seq(Calls)]
    /\ sealed \subseteq Types
    /\ root \in [Types -> Calls \cup {None, Stamp}]
    /\ prior \in [Calls -> SUBSET Calls] /\ late \subseteq Calls

NoStore ==
    [evidence |-> [i \in 0 .. MaxClock |-> None], entries |-> [t \in Types |-> <<>>],
     root |-> [t \in Types |-> None]]

Init ==
    /\ clock = 0 /\ deaths = 0
    /\ pc = [r \in Calls |-> "new"]
    /\ id = [r \in Calls |-> 0] /\ parent = [r \in Calls |-> None]
    /\ prior = [r \in Calls |-> {}] /\ late = {}
    /\ evidence = NoStore.evidence /\ entries = NoStore.entries
    /\ root = NoStore.root /\ sealed = {}

-----------------------------------------------------------------------------
(* GenerateEvidence.                                                       *)

Goto(r, place) == pc' = [pc EXCEPT ![r] = place]

\* The evidence of the type of r that is in the map.
SameType(r) == {e \in Calls : Type[e] = Type[r] /\ \E i \in 0 .. MaxClock : evidence[i] = e}

\* Mutant of LatestChainHash: a sealed chain counts as empty.
LatestUnlessSealed(r, e) ==
    IF SameType(r) = {} \/ Type[r] \in sealed THEN e = None ELSE e \in SameType(r)

\* getLatestChainHash: the first evidence of the type that the loop meets.
LatestChainHash(r, e) == IF SameType(r) = {} THEN e = None ELSE e \in SameType(r)

\* The parent is read, and the evidence made of it: ID, hash, proof.
Make(r) ==
    /\ pc[r] = "new"
    /\ \E e \in Calls \cup {None} :
          /\ LatestChainHash(r, e)
          /\ parent' = [parent EXCEPT ![r] = e]
    /\ id' = [id EXCEPT ![r] = clock]
    /\ prior' = [prior EXCEPT ![r] = {q \in Calls : pc[q] = "done"}]
    /\ Goto(r, "made")
    /\ UNCHANGED <<clock, deaths, store, late>>

\* Whatever is in the map under the same ID is replaced.
Store(r) ==
    /\ pc[r] = "made"
    /\ evidence' = [evidence EXCEPT ![id[r]] = r]
    /\ Goto(r, "stored")
    /\ UNCHANGED <<clock, deaths, mine, entries, sealed, root, late>>

\* The call returns; it is late if the chain it came to is sealed.
Came(r) ==
    /\ Goto(r, "done")
    /\ late' = IF Type[r] \in sealed THEN late \cup {r} ELSE late

\* Mutants of AddToChain: evidence without a parent begins the chain; the
\* entry goes in front.
AddFirst(r) ==
    /\ pc[r] = "stored"
    /\ entries' = [entries EXCEPT ![Type[r]] = IF parent[r] = None THEN <<r>> ELSE Append(@, r)]
    /\ root' = [root EXCEPT ![Type[r]] = r]
    /\ Came(r)
    /\ UNCHANGED <<clock, deaths, mine, evidence, sealed>>
AddInFront(r) ==
    /\ pc[r] = "stored"
    /\ entries' = [entries EXCEPT ![Type[r]] = <<r>> \o @]
    /\ root' = [root EXCEPT ![Type[r]] = r]
    /\ Came(r)
    /\ UNCHANGED <<clock, deaths, mine, evidence, sealed>>

\* The status of the chain is not looked at.
AddToChain(r) ==
    /\ pc[r] = "stored"
    /\ entries' = [entries EXCEPT ![Type[r]] = Append(@, r)]
    /\ root' = [root EXCEPT ![Type[r]] = r]
    /\ Came(r)
    /\ UNCHANGED <<clock, deaths, mine, evidence, sealed>>

GenerateEvidence(r) == Make(r) \/ Store(r) \/ AddToChain(r)

-----------------------------------------------------------------------------
(* SealChain, and what happens around the service.                         *)

\* A chain exists once it has an entry.
SealChain(t) ==
    /\ entries[t] # <<>>
    /\ sealed' = sealed \cup {t}
    /\ root' = [root EXCEPT ![t] = Stamp]
    /\ UNCHANGED <<clock, deaths, pc, mine, evidence, entries, late>>

Tick ==
    /\ clock < MaxClock
    /\ clock' = clock + 1
    /\ UNCHANGED <<deaths, pc, mine, store, late>>

Die ==
    /\ deaths < MaxDeaths
    /\ deaths' = deaths + 1
    /\ pc' = [r \in Calls |-> IF pc[r] \in UnderWay THEN "lost"
                              ELSE IF pc[r] = "done" THEN "gone" ELSE pc[r]]
    /\ evidence' = NoStore.evidence /\ entries' = NoStore.entries
    /\ root' = NoStore.root /\ sealed' = {}
    /\ UNCHANGED <<clock, mine, late>>

Next ==
    \/ \E r \in Calls : GenerateEvidence(r)
    \/ \E t \in Types : SealChain(t)
    \/ Tick \/ Die

Spec == Init /\ [][Next]_vars

-----------------------------------------------------------------------------
(* Properties.                                                             *)

\* A call that has returned is in the chain of its type, if it came to it
\* before it was sealed, and what is in a chain is there once and is the
\* evidence of a call of that type that has returned, although storing and
\* chaining are two critical sections (service.go:262-267).
Chained ==
    /\ \A r \in Calls : pc[r] = "done" /\ r \notin late => InChain(r)
    /\ \A t \in Types : \A i \in 1 .. Len(entries[t]) :
          /\ pc[entries[t][i]] = "done" /\ Type[entries[t][i]] = t
          /\ \A j \in 1 .. Len(entries[t]) : entries[t][i] = entries[t][j] => i = j

\* An entry's ID finds the entry's evidence.  Only another call with the
\* same nanosecond takes its place in the map (service.go:251).
EntryFindsEvidence ==
    \A r \in Calls :
        pc[r] = "done" => \/ evidence[id[r]] = r
                          \/ \E q \in Calls \ {r} : id[q] = id[r] /\ evidence[id[r]] = q

\* What a call returned is kept, under its ID and, unless it came after the
\* seal, in the chain of its type, and nothing else is (GenerateEvidence,
\* addToChain).
ReturnedIsKept == Chained /\ EntryFindsEvidence

\* A chain begins once: evidence made after a call for the same type had
\* returned has a parent, unless the ID of that call was taken
\* (service.go:283-294).
BeginsOnce ==
    \A q, r \in Calls :
        q \in prior[r] /\ Type[q] = Type[r] /\ parent[r] = None
            => \E s \in Calls \ {q} : id[s] = id[q]

\* The chain's order is that of the calls: what had returned before a call
\* began stands before it, its parent too unless the two overlapped
\* (service.go:313-342).
OrderKept ==
    \A t \in Types : \A i, j \in 1 .. Len(entries[t]) :
        entries[t][i] \in prior[entries[t][j]] => i < j

\* forensic/README.md:27, "Once sealed, no new evidence can be added", and
\* 28, "The final root hash is recorded as an immutable timestamp": as long as
\* the process lives, a sealed chain stays as it is.  addToChain looks at no
\* status (service.go:313-342).
SealedIsFinal ==
    [][\A t \in Types : t \in sealed /\ t \in sealed' =>
          entries'[t] = entries[t] /\ root'[t] = root[t]]_vars
=============================================================================
