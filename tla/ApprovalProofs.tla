--------------------------- MODULE ApprovalProofs ---------------------------
(***************************************************************************)
(* What ApprovalWorkflow guarantees for every set of users, every request, *)
(* every number of attempts and of failures: it implements the vote of M   *)
(* out of N, the first decision of each user counts, the ledger and the    *)
(* assignments tell of real votes, and a final status is final.            *)
(***************************************************************************)
EXTENDS ApprovalWorkflow, FiniteSetTheorems, TLAPS

Starting == {"none", "insert", "assign"}
Recording == {"record", "update"}
Ending == {"execute", "finalize", "done"}

Voted(b) == {u \in Users : actionsMap[u] = b}

\* The counters are the numbers of voters, all of them approvers.
CountInv ==
    /\ \A u \in Users : actionsMap[u] # None => u \in Approvers
    /\ approvals = Cardinality(Voted("APPROVE"))
    /\ rejections = Cardinality(Voted("REJECT"))

\* Where the workflow is says whether there is a decision and whether there
\* may be a quorum that has not been noticed yet.
FlowInv ==
    /\ creator = "start" => wf = "none"
    /\ decision = None <=> wf \notin Ending
    /\ wf \in Starting => \A u \in Users : actionsMap[u] = None
    /\ wf \in Starting \cup {"wait"} => approvals < request.quorum
    /\ wf = "execute" => decision = "APPROVED"
    /\ executions > 0 => decision = "APPROVED"
    /\ decision = "APPROVED" => approvals >= request.quorum
    /\ IF wf \in Recording THEN voter \in Users /\ actionsMap[voter] # None
                           ELSE voter = None

\* A vote without an entry has used up the attempts of its activity.
LedgerInv ==
    /\ ActedIsRecorded
    /\ wf = "update" => ledger[voter] > 0
    /\ wf = "wait" => tries = 0
    /\ wf \in Recording => tries <= faults
    /\ \A u \in Users : actionsMap[u] # None /\ ledger[u] = 0 /\ u # voter
                            => faults >= MaxAttempts

\* As long as an approver's vote is not counted, the first of the user's
\* decisions in the channel is the first that was accepted.
FirstOf(u, i) ==
    /\ i \in DOMAIN signals
    /\ signals[i].by = u
    /\ \A j \in 1..(i-1) : signals[j].by # u

QueueInv ==
    /\ FirstDecisionCounts
    /\ \A u \in Users : first[u] = None =>
           /\ actionsMap[u] = None
           /\ \A i \in DOMAIN signals : signals[i].by # u
    /\ \A u \in Approvers : actionsMap[u] = None /\ first[u] # None =>
           \E i \in DOMAIN signals : FirstOf(u, i) /\ signals[i].action = first[u]

RowInv ==
    /\ row \in Final => row = decision /\ wf \in {"finalize", "done"}
    /\ ClosedWithDecision

IInv == TypeOK /\ CountInv /\ FlowInv /\ LedgerInv /\ QueueInv /\ RowInv

----------------------------------------------------------------------------
(* Types *)

LEMMA TypeInit == Init => TypeOK
  BY ConstAssumption DEF Init, TypeOK

LEMMA AppendType ==
    ASSUME NEW S, NEW q \in Seq(S), NEW e \in S
    PROVE  Append(q, e) \in Seq(S)
  OBVIOUS

LEMMA OneMore ==
    ASSUME NEW f \in [Users -> Nat], NEW u
    PROVE  [f EXCEPT ![u] = @ + 1] \in [Users -> Nat]
  <1>1. \A v \in Users : f[v] + 1 \in Nat
    OBVIOUS
  <1> QED
    BY <1>1, Zenon

LEMMA TypeStep == TypeOK /\ [Next]_vars => TypeOK'
  <1> SUFFICES ASSUME TypeOK, [Next]_vars PROVE TypeOK'
    OBVIOUS
  <1> USE DEF TypeOK, Goto, Decided, Answers, Fails, Continues, NoFault, Fault
  <1>a. MaxAttempts \in Nat \ {0} /\ request \in Request
    BY ConstAssumption
  <1>1. CASE StartWorkflow
    BY <1>1 DEF StartWorkflow, tables, clients, counts
  <1>2. CASE StoreRequest
    BY <1>2 DEF StoreRequest, InsertRequest, Conflict, clients, counts, flow
  <1>3. CASE StoreAssignment
    <2>1. unacted' \in [Users -> Nat]
      <3>1. \/ unacted' = unacted
            \/ unacted' = [unacted EXCEPT ![request.ids[storing]] = @ + 1]
        BY <1>3 DEF StoreAssignment, InsertAssignment
      <3>2. unacted \in [Users -> Nat]
        OBVIOUS
      <3> QED
        BY ONLY <3>1, <3>2, OneMore
    <2>2. creator' \in {"start", "insert", "assign", "done"} /\ storing' \in Nat \ {0}
      BY <1>3 DEF StoreAssignment
    <2>3. faults' \in Nat
      BY <1>3 DEF StoreAssignment
    <2> QED
      BY <1>3, <2>1, <2>2, <2>3 DEF StoreAssignment, clients, counts, flow
  <1>4. CASE CreatorStops
    BY <1>4 DEF CreatorStops, tables, clients, counts, flow
  <1>5. ASSUME NEW u \in Users, CheckActed(u) PROVE TypeOK'
    BY <1>5 DEF CheckActed, handler, tables, counts, flow
  <1>6. ASSUME NEW u \in Users, NEW d \in Decisions, SendSignal(u, d) PROVE TypeOK'
    <2> DEFINE s == [by |-> u, action |-> d]
    <2>1. s \in Signal
      BY DEF Signal
    <2>2. signals' \in Seq(Signal)
      <3>1. signals' = Append(signals, s) \/ signals' = signals
        BY <1>6 DEF SendSignal
      <3>2. signals \in Seq(Signal)
        OBVIOUS
      <3>3. Append(signals, s) \in Seq(Signal)
        BY ONLY <2>1, <3>2, AppendType
      <3> HIDE DEF s
      <3> QED
        BY ONLY <3>1, <3>2, <3>3
    <2>3. checked' \subseteq Users
      BY <1>6 DEF SendSignal
    <2>4. first' = [first EXCEPT ![u] = d] \/ first' = first
      BY <1>6 DEF SendSignal
    <2>5. first' \in [Users -> Decisions \cup {None}]
      BY <2>4
    <2> QED
      BY <1>6, <2>2, <2>3, <2>5 DEF SendSignal, handler, tables, counts, flow
  <1>7. CASE InitializeRequest
    <2>1. row' \in {row, "PENDING"} /\ faults' \in Nat
      BY <1>7 DEF InitializeRequest, InsertRequest, Conflict
    <2>2. /\ wf' \in {"insert", "assign", "done"}
          /\ slot' = slot /\ voter' = voter
          /\ tries' \in 0..(MaxAttempts - 1)
          /\ decision' \in {decision, "CANCELLED"}
      BY <1>7, <1>a DEF InitializeRequest, InitFails
    <2> QED
      BY <1>7, <2>1, <2>2 DEF InitializeRequest, handler, clients, counts, Final
  <1>8. CASE AssignApprover
    <2>1. unacted' \in [Users -> Nat]
      <3>1. \/ unacted' = unacted
            \/ unacted' = [unacted EXCEPT ![request.ids[slot]] = @ + 1]
        BY <1>8 DEF AssignApprover, InsertAssignment
      <3>2. unacted \in [Users -> Nat]
        OBVIOUS
      <3> QED
        BY ONLY <3>1, <3>2, OneMore
    <2>2. faults' \in Nat
      BY <1>8 DEF AssignApprover
    <2>3. /\ wf' \in {"insert", "assign", "wait", "done"}
          /\ slot' \in {slot, slot + 1} /\ voter' = voter
          /\ tries' \in 0..(MaxAttempts - 1)
          /\ decision' \in {decision, "CANCELLED", "EXPIRED"}
      BY <1>8, <1>a DEF AssignApprover, InitFails, SetTimer
    <2> QED
      BY <1>8, <2>1, <2>2, <2>3 DEF AssignApprover, handler, clients, counts, Final
  <1>9. CASE Receive
    <2>1. signals # <<>> => Head(signals) \in Signal /\ Tail(signals) \in Seq(Signal)
      OBVIOUS
    <2>2. \A s \in Signal : s.by \in Users /\ s.action \in Decisions
      BY DEF Signal
    <2>3. signals' \in Seq(Signal) /\ Head(signals) \in Signal
      BY <1>9, <2>1 DEF Receive
    <2>4. CASE UNCHANGED <<wf, voter, counts>>
      BY <1>9, <2>3, <2>4 DEF Receive, handler, tables, counts
    <2>5. CASE ~UNCHANGED <<wf, voter, counts>>
      <3> DEFINE s == Head(signals)
      <3>1. /\ voter' = s.by
            /\ actionsMap' = [actionsMap EXCEPT ![s.by] = s.action]
            /\ approvals' = approvals + (IF s.action = "APPROVE" THEN 1 ELSE 0)
            /\ rejections' = rejections + (IF s.action = "REJECT" THEN 1 ELSE 0)
            /\ wf' = "record"
        BY <1>9, <2>5 DEF Receive
      <3>2. s.by \in Users /\ s.action \in Decisions
        BY <2>2, <2>3
      <3> HIDE DEF s
      <3>3. approvals' \in Nat /\ rejections' \in Nat
        BY <3>1
      <3>4. actionsMap' \in [Users -> Decisions \cup {None}]
        BY <3>1, <3>2
      <3> QED
        BY <1>9, <2>3, <3>1, <3>2, <3>3, <3>4 DEF Receive, handler, tables
    <2> QED
      BY <2>4, <2>5
  <1>10. CASE RecordAction
    <2>1. ledger' \in [Users -> Nat]
      <3>1. ledger' = ledger \/ ledger' = [ledger EXCEPT ![voter] = @ + 1]
        BY <1>10 DEF RecordAction
      <3>2. ledger \in [Users -> Nat]
        OBVIOUS
      <3> QED
        BY ONLY <3>1, <3>2, OneMore
    <2>2. faults' \in Nat
      BY <1>10 DEF RecordAction
    <2>3. /\ wf' \in {"record", "update", "wait", "execute", "finalize"}
          /\ slot' = slot
          /\ voter' \in {voter, None}
          /\ tries' \in 0..(MaxAttempts - 1)
          /\ decision' \in Final \cup {None}
      BY <1>10, <1>a DEF RecordAction, RecordFails, CheckQuorum, Final
    <2> QED
      BY <1>10, <2>1, <2>2, <2>3 DEF RecordAction, handler, clients, counts
  <1>11. CASE UpdateAssignment
    <2>1. acted' \in [Users -> Nat] /\ unacted' \in [Users -> Nat]
      <3>1. CASE UNCHANGED <<unacted, acted>>
        BY <3>1
      <3>2. CASE MarkActed(voter)
        <4>1. \A u \in Users : acted[u] + unacted[u] \in Nat
          OBVIOUS
        <4> QED
          BY <3>2, <4>1 DEF MarkActed
      <3> QED
        BY <1>11, <3>1, <3>2 DEF UpdateAssignment
    <2>2. faults' \in Nat
      BY <1>11 DEF UpdateAssignment
    <2>3. /\ wf' \in {"record", "wait", "execute", "finalize"}
          /\ slot' = slot
          /\ voter' \in {voter, None}
          /\ tries' \in 0..(MaxAttempts - 1)
          /\ decision' \in Final \cup {None}
      BY <1>11, <1>a DEF UpdateAssignment, RecordFails, CheckQuorum, Final
    <2> QED
      BY <1>11, <2>1, <2>2, <2>3 DEF UpdateAssignment, handler, clients, counts
  <1>12. CASE ExecuteAction
    <2>1. executions' \in Nat /\ faults' \in Nat
      BY <1>12 DEF ExecuteAction
    <2>2. /\ wf' \in {"execute", "finalize"}
          /\ slot' = slot /\ voter' = voter /\ decision' = decision
          /\ tries' \in 0..(MaxAttempts - 1)
      BY <1>12, <1>a DEF ExecuteAction, ExecuteFails
    <2> QED
      BY <1>12, <2>1, <2>2 DEF ExecuteAction, handler, tables, clients, counts
  <1>13. CASE Finalize
    BY <1>13, <1>a DEF Finalize, FinalizeFails, handler, clients, counts
  <1>14. CASE Expire
    BY <1>14 DEF Expire, handler, tables, clients, counts, Final
  <1>15. CASE UNCHANGED vars
    BY <1>15 DEF vars, handler, tables, clients, flow, counts
  <1> QED
    BY <1>1, <1>2, <1>3, <1>4, <1>5, <1>6, <1>7, <1>8, <1>9, <1>10, <1>11, <1>12,
       <1>13, <1>14, <1>15 DEF Next, Creation, Submission, Activity

\* In every reachable state every variable has its type.
THEOREM TypeCorrect == Spec => []TypeOK
  BY TypeInit, TypeStep, PTL DEF Spec

----------------------------------------------------------------------------
(* The counters count the votes *)

LEMMA VotedFinite ==
    ASSUME NEW b PROVE IsFiniteSet(Voted(b)) /\ Cardinality(Voted(b)) \in Nat
  <1>1. Voted(b) \in SUBSET Users
    BY DEF Voted
  <1> QED
    BY <1>1, ConstAssumption, FS_Subset, FS_CardinalityType

LEMMA VotedGrows ==
    ASSUME TypeOK, NEW u \in Users, actionsMap[u] = None, NEW d \in Decisions,
           actionsMap' = [actionsMap EXCEPT ![u] = d], NEW b \in Decisions
    PROVE  Cardinality(Voted(b))' = Cardinality(Voted(b)) + (IF d = b THEN 1 ELSE 0)
  <1>1. actionsMap \in [Users -> Decisions \cup {None}]
    BY DEF TypeOK
  <1>2. b # None
    BY ConstAssumption DEF Decisions
  <1>3. u \notin Voted(b)
    BY <1>2 DEF Voted
  <1>4. CASE d = b
    <2>1. Voted(b)' = Voted(b) \cup {u}
      BY <1>1, <1>2, <1>4 DEF Voted
    <2> QED
      BY <1>3, <1>4, <2>1, VotedFinite, FS_AddElement
  <1>5. CASE d # b
    <2>1. Voted(b)' = Voted(b)
      BY <1>1, <1>2, <1>5 DEF Voted
    <2> QED
      BY <1>5, <2>1, VotedFinite
  <1> QED
    BY <1>4, <1>5

\* What Receive does with a decision it takes up.
LEMMA Taken ==
    ASSUME TypeOK, Receive
    PROVE  \/ UNCHANGED <<wf, voter, counts>>
           \/ /\ signals # <<>>
              /\ Head(signals) \in Signal
              /\ Head(signals).by \in Users \cap Approvers
              /\ Head(signals).action \in Decisions
              /\ actionsMap[Head(signals).by] = None
              /\ voter' = Head(signals).by
              /\ actionsMap' = [actionsMap EXCEPT ![Head(signals).by] = Head(signals).action]
              /\ approvals' = approvals + (IF Head(signals).action = "APPROVE" THEN 1 ELSE 0)
              /\ rejections' = rejections + (IF Head(signals).action = "REJECT" THEN 1 ELSE 0)
              /\ wf' = "record"
  <1>1. signals # <<>> /\ signals \in Seq(Signal)
    BY DEF Receive, TypeOK
  <1>2. Head(signals) \in Signal
    BY <1>1
  <1>3. Head(signals).by \in Users /\ Head(signals).action \in Decisions
    BY <1>2 DEF Signal
  <1> QED
    BY <1>1, <1>2, <1>3 DEF Receive, Ignored

LEMMA CountStep == TypeOK /\ CountInv /\ [Next]_vars => CountInv'
  <1> SUFFICES ASSUME TypeOK, CountInv, [Next]_vars PROVE CountInv'
    OBVIOUS
  <1>1. CASE UNCHANGED <<request, counts>>
    BY <1>1 DEF CountInv, Voted, Approvers, counts
  <1>2. CASE Receive
    <2>1. CASE UNCHANGED <<wf, voter, counts>>
      BY <1>1, <1>2, <2>1 DEF Receive
    <2>2. CASE ~UNCHANGED <<wf, voter, counts>>
      <3> DEFINE u == Head(signals).by  d == Head(signals).action
      <3>1. /\ u \in Users \cap Approvers /\ d \in Decisions /\ actionsMap[u] = None
            /\ actionsMap' = [actionsMap EXCEPT ![u] = d]
            /\ approvals' = approvals + (IF d = "APPROVE" THEN 1 ELSE 0)
            /\ rejections' = rejections + (IF d = "REJECT" THEN 1 ELSE 0)
        BY <1>2, <2>2, Taken
      <3>2. Approvers' = Approvers
        BY <1>2 DEF Receive, Approvers
      <3> HIDE DEF u, d
      <3>3. \A b \in Decisions :
                Cardinality(Voted(b))' = Cardinality(Voted(b)) + (IF d = b THEN 1 ELSE 0)
        BY <3>1, VotedGrows
      <3>4. "APPROVE" \in Decisions /\ "REJECT" \in Decisions
        BY DEF Decisions
      <3>5. approvals' = Cardinality(Voted("APPROVE"))'
        BY <3>1, <3>3, <3>4 DEF CountInv
      <3>6. rejections' = Cardinality(Voted("REJECT"))'
        BY <3>1, <3>3, <3>4 DEF CountInv
      <3>7. \A v \in Users : actionsMap'[v] # None => v \in Approvers'
        BY <3>1, <3>2 DEF CountInv, TypeOK
      <3> QED
        BY <3>5, <3>6, <3>7 DEF CountInv
    <2> QED
      BY <2>1, <2>2
  <1>3. CASE Creation \/ Submission
    BY <1>1, <1>3 DEF Creation, StartWorkflow, StoreRequest, StoreAssignment, CreatorStops,
       Submission, CheckActed, SendSignal
  <1>4. CASE Activity \/ Expire
    BY <1>1, <1>4 DEF Activity, InitializeRequest, AssignApprover, RecordAction,
       UpdateAssignment, ExecuteAction, Finalize, Expire
  <1> QED
    BY <1>1, <1>2, <1>3, <1>4 DEF Next, vars

\* A rejection is declared only when the approvers who are left cannot make a
\* quorum any more, also when an approver is named twice.
LEMMA ApproversBound ==
    ASSUME TypeOK
    PROVE  /\ IsFiniteSet(Approvers)
           /\ Cardinality(Approvers) <= TotalApprovers
           /\ Cardinality(Approvers) \in Nat
           /\ TotalApprovers \in Nat
           /\ request.quorum \in Nat \ {0}
           /\ request.quorum <= TotalApprovers
           /\ Approvers \subseteq Users
  <1>1. request \in Request /\ request.quorum <= Len(request.ids)
    BY ConstAssumption DEF TypeOK
  <1>2. request.ids \in Seq(Users) /\ request.quorum \in Nat \ {0}
    BY <1>1 DEF Request
  <1>3. Len(request.ids) \in Nat /\ DOMAIN request.ids = 1..Len(request.ids)
    BY <1>2
  <1>4. request.ids \in Surjection(1..Len(request.ids), Approvers)
    BY <1>2, <1>3 DEF Surjection, Approvers
  <1>5. IsFiniteSet(1..Len(request.ids)) /\ Cardinality(1..Len(request.ids)) = Len(request.ids)
    BY <1>3, FS_Interval
  <1>6. IsFiniteSet(Approvers) /\ Cardinality(Approvers) <= Len(request.ids)
    BY <1>4, <1>5, FS_Surjection
  <1>7. Approvers \subseteq Users
    BY <1>2, <1>3 DEF Approvers
  <1> QED
    BY <1>1, <1>2, <1>3, <1>6, <1>7, FS_CardinalityType DEF TotalApprovers

LEMMA DisjointUnion ==
    ASSUME NEW S, NEW T, IsFiniteSet(S), IsFiniteSet(T), S \cap T = {}
    PROVE  /\ IsFiniteSet(S \cup T)
           /\ Cardinality(S \cup T) = Cardinality(S) + Cardinality(T)
  <1>1. Cardinality(S) \in Nat /\ Cardinality(T) \in Nat
    BY FS_CardinalityType
  <1>2. Cardinality(S \cap T) = 0
    BY FS_EmptySet
  <1>3. /\ IsFiniteSet(S \cup T)
        /\ Cardinality(S \cup T) =
              Cardinality(S) + Cardinality(T) - Cardinality(S \cap T)
    BY FS_Union, Zenon
  <1> QED
    BY ONLY <1>1, <1>2, <1>3

LEMMA Hopeless ==
    ASSUME TypeOK, CountInv, ~Approved, Rejected
    PROVE  Cardinality(Voted("APPROVE") \cup {u \in Approvers : actionsMap[u] = None})
               < request.quorum
  <1> DEFINE A == Voted("APPROVE")  R == Voted("REJECT")
             O == {u \in Approvers : actionsMap[u] = None}
  <1>1. /\ IsFiniteSet(A) /\ Cardinality(A) \in Nat /\ approvals = Cardinality(A)
        /\ IsFiniteSet(R) /\ Cardinality(R) \in Nat /\ rejections = Cardinality(R)
    BY VotedFinite DEF CountInv
  <1>2. A \subseteq Approvers /\ R \subseteq Approvers /\ O \subseteq Approvers
    BY ConstAssumption DEF Voted, CountInv
  <1>3. A \cap R = {} /\ A \cap O = {} /\ R \cap O = {}
    BY ConstAssumption DEF Voted
  <1> HIDE DEF A, R, O
  <1>4. IsFiniteSet(O) /\ Cardinality(O) \in Nat
    BY <1>2, ApproversBound, FS_Subset, FS_CardinalityType
  <1>5. IsFiniteSet(A \cup O) /\ Cardinality(A \cup O) = Cardinality(A) + Cardinality(O)
    <2>1. A \cap O = {}
      BY <1>3
    <2> QED
      BY ONLY <1>1, <1>4, <2>1, DisjointUnion
  <1>6. Cardinality((A \cup O) \cup R) = Cardinality(A) + Cardinality(O) + Cardinality(R)
    <2>1. (A \cup O) \cap R = {}
      BY <1>3
    <2> QED
      BY ONLY <1>1, <1>5, <2>1, DisjointUnion
  <1>7. Cardinality((A \cup O) \cup R) <= TotalApprovers
    <2>1. (A \cup O) \cup R \in SUBSET Approvers
      BY <1>2
    <2>2. Cardinality((A \cup O) \cup R) <= Cardinality(Approvers)
      BY <2>1, ApproversBound, FS_Subset
    <2> QED
      BY <1>1, <1>4, <1>6, <2>2, ApproversBound
  <1>8. approvals < request.quorum /\ TotalApprovers \in Nat /\ request.quorum \in Nat
    BY <1>1, ApproversBound DEF Approved
  <1>9. Cardinality(A) + Cardinality(O) < request.quorum
    BY <1>1, <1>4, <1>6, <1>7, <1>8 DEF Rejected
  <1> QED
    BY <1>5, <1>9 DEF A, O

----------------------------------------------------------------------------
(* The workflow's places, its decision and its votes *)

LEMMA FlowInit == Init => FlowInv
  <1> SUFFICES ASSUME Init PROVE FlowInv
    OBVIOUS
  <1>1. request.quorum \in Nat \ {0}
    BY TypeInit, ApproversBound
  <1> QED
    BY <1>1, ConstAssumption DEF Init, FlowInv, Starting, Recording, Ending

\* FlowInv after the last statement of the signal callback.
LEMMA CheckQuorumFlow ==
    ASSUME TypeOK, FlowInv, wf \in Recording, CheckQuorum,
           UNCHANGED <<request, creator, counts, executions>>
    PROVE  FlowInv'
  <1>1. decision = None /\ executions = 0
    BY ConstAssumption DEF FlowInv, Recording, Ending, TypeOK
  <1>2. None \notin Final
    BY ConstAssumption DEF Final
  <1>3. approvals \in Nat /\ request.quorum \in Nat
    BY ApproversBound DEF TypeOK
  <1>4. /\ approvals' = approvals /\ request' = request /\ executions' = 0 /\ voter' = None
        /\ creator' # "start"
    BY <1>1 DEF counts, CheckQuorum, FlowInv, Recording
  <1>5. CASE wf' = "wait"
    BY <1>1, <1>3, <1>4, <1>5, ConstAssumption DEF CheckQuorum, Approved, FlowInv, Starting, Recording, Ending
  <1>6. CASE wf' # "wait"
    BY <1>2, <1>3, <1>4, <1>6 DEF CheckQuorum, Approved, FlowInv, Starting, Recording, Ending, Final
  <1> QED
    BY <1>5, <1>6

LEMMA FlowStep == TypeOK /\ FlowInv /\ [Next]_vars => FlowInv'
  <1> SUFFICES ASSUME TypeOK, FlowInv, [Next]_vars PROVE FlowInv'
    OBVIOUS
  <1> USE DEF Starting, Recording, Ending, handler, Goto, Decided, Answers, Fails, Continues
  <1>n. None \notin Final /\ None \notin Decisions /\ None \notin Users
    BY ConstAssumption DEF Final, Decisions
  <1>0. /\ request.quorum \in Nat \ {0} /\ approvals \in Nat /\ executions \in Nat
    BY ApproversBound DEF TypeOK
  <1>1. CASE UNCHANGED <<request, flow, counts, executions>> /\ creator' \in {creator, "assign", "done"}
    BY <1>1 DEF FlowInv, flow, counts
  <1>2. CASE StartWorkflow
    BY <1>2 DEF StartWorkflow, FlowInv, counts
  <1>3. CASE StoreRequest \/ StoreAssignment \/ CreatorStops \/ Submission
    BY <1>1, <1>3 DEF StoreRequest, StoreAssignment, CreatorStops,
       Submission, CheckActed, SendSignal
  <1>4. CASE InitializeRequest
    BY <1>4, <1>0, <1>n DEF InitializeRequest, InitFails, FlowInv, counts, Final
  <1>5. CASE AssignApprover
    BY <1>5, <1>0, <1>n DEF AssignApprover, InitFails, SetTimer, FlowInv, counts, Final
  <1>6. CASE Receive
    <2>1. CASE UNCHANGED <<wf, voter, counts>>
      BY <1>6, <2>1 DEF Receive, FlowInv, counts
    <2>2. CASE ~UNCHANGED <<wf, voter, counts>>
      <3>1. /\ wf = "wait" /\ wf' = "record" /\ voter' \in Users
            /\ actionsMap'[voter'] # None
            /\ UNCHANGED <<request, creator, decision, executions>>
        BY <1>6, <2>2, <1>n, Taken DEF Receive, TypeOK
      <3> QED
        BY <3>1, <1>n DEF FlowInv, Final
    <2> QED
      BY <2>1, <2>2
  <1>7. CASE RecordAction
    BY <1>7, <1>0, <1>n, CheckQuorumFlow DEF RecordAction, RecordFails, FlowInv, counts
  <1>8. CASE UpdateAssignment
    BY <1>8, <1>0, <1>n, CheckQuorumFlow DEF UpdateAssignment, RecordFails, FlowInv, counts
  <1>9. CASE ExecuteAction
    BY <1>9, <1>0, <1>n DEF ExecuteAction, ExecuteFails, FlowInv, counts, Final
  <1>10. CASE Finalize
    BY <1>10, <1>0, <1>n DEF Finalize, FinalizeFails, FlowInv, counts, Final
  <1>11. CASE Expire
    BY <1>11, <1>0, <1>n DEF Expire, FlowInv, counts, Final
  <1> QED
    BY <1>1, <1>2, <1>3, <1>4, <1>5, <1>6, <1>7, <1>8, <1>9, <1>10, <1>11
       DEF Next, Creation, Activity, vars

----------------------------------------------------------------------------
(* The workflow implements the vote of M out of N *)

\* Both modules extend FiniteSets.
LEMMA SameCardinality == \A S : Quorum!Cardinality(S) = Cardinality(S)
  BY DEF Quorum!Cardinality, Cardinality

LEMMA QuorumTerms ==
    ASSUME TypeOK, CountInv
    PROVE  /\ Quorum!QuorumReached <=> Approved
           /\ ~Approved /\ Rejected => ~Quorum!QuorumPossible
  <1>1. Quorum!For("APPROVE") = Voted("APPROVE")
    BY DEF Quorum!For, Voted
  <1>2. Quorum!Open = {u \in Approvers : actionsMap[u] = None}
    BY DEF Quorum!Open
  <1>3. Quorum!QuorumReached <=> Approved
    BY <1>1, SameCardinality DEF Quorum!QuorumReached, Approved, CountInv
  <1>4. ASSUME ~Approved, Rejected PROVE ~Quorum!QuorumPossible
    <2> DEFINE n == Cardinality(Voted("APPROVE") \cup {u \in Approvers : actionsMap[u] = None})
    <2>1. n < request.quorum
      BY <1>4, Hopeless
    <2>2. Quorum!QuorumPossible <=> n >= request.quorum
      BY <1>1, <1>2, SameCardinality DEF Quorum!QuorumPossible
    <2>3. n \in Nat /\ request.quorum \in Nat
      <3>1. Voted("APPROVE") \cup {u \in Approvers : actionsMap[u] = None} \in SUBSET Users
        BY ApproversBound DEF Voted
      <3> QED
        BY <3>1, ConstAssumption, FS_Subset, FS_CardinalityType, ApproversBound
    <2> HIDE DEF n
    <2> QED
      BY <2>1, <2>2, <2>3
  <1> QED
    BY <1>3, <1>4

LEMMA QuorumInit == Init => Quorum!Init
  BY TypeInit, ApproversBound DEF Init, Quorum!Init

\* A step that takes a decision d, or none.
LEMMA DecisionStep ==
    ASSUME TypeOK, CountInv, FlowInv, UNCHANGED <<request, actionsMap, executions>>,
           wf \notin Ending,
           \/ UNCHANGED decision
           \/ decision' = "APPROVED" /\ Approved
           \/ decision' = "REJECTED" /\ ~Approved /\ Rejected
           \/ decision' = "EXPIRED" /\ ~Approved
           \/ decision' = "CANCELLED" /\ wf \in Starting
    PROVE  [Quorum!Next]_Quorum!vars
  <1>1. decision = None
    BY DEF FlowInv
  <1>2. /\ Approvers' = Approvers /\ request.quorum' = request.quorum
        /\ (executions > 0)' = (executions > 0)
    BY DEF Approvers
  <1>3. CASE UNCHANGED decision
    BY <1>2, <1>3 DEF Quorum!vars
  <1>4. CASE decision' = "APPROVED" /\ Approved
    BY <1>1, <1>2, <1>4, QuorumTerms DEF Quorum!Next, Quorum!Approve, Quorum!Decide
  <1>5. CASE decision' = "REJECTED" /\ ~Approved /\ Rejected
    BY <1>1, <1>2, <1>5, QuorumTerms DEF Quorum!Next, Quorum!Reject, Quorum!Decide
  <1>6. CASE decision' = "EXPIRED" /\ ~Approved
    BY <1>1, <1>2, <1>6, QuorumTerms DEF Quorum!Next, Quorum!Expire, Quorum!Decide
  <1>7. CASE decision' = "CANCELLED" /\ wf \in Starting
    <2>1. Quorum!For("APPROVE") = {}
      BY <1>7, ConstAssumption DEF FlowInv, Quorum!For
    <2> QED
      BY <1>1, <1>2, <1>7, <2>1 DEF Quorum!Next, Quorum!Cancel, Quorum!Decide
  <1> QED
    BY <1>3, <1>4, <1>5, <1>6, <1>7

LEMMA QuorumStep ==
    TypeOK /\ CountInv /\ FlowInv /\ [Next]_vars => [Quorum!Next]_Quorum!vars
  <1> SUFFICES ASSUME TypeOK, CountInv, FlowInv, [Next]_vars PROVE [Quorum!Next]_Quorum!vars
    OBVIOUS
  <1> USE DEF Goto, Decided, Answers, Fails, Continues
  <1>a. ~Approved <=> approvals < request.quorum
    BY ApproversBound DEF Approved, TypeOK
  <1>1. CASE UNCHANGED <<request, actionsMap, decision, executions>>
    <2>1. Approvers' = Approvers
      BY <1>1 DEF Approvers
    <2> QED
      BY <1>1, <2>1 DEF Quorum!vars
  <1>2. CASE Creation \/ Submission
    BY <1>1, <1>2 DEF Creation, StartWorkflow, StoreRequest, StoreAssignment, CreatorStops,
       Submission, CheckActed, SendSignal, flow, counts
  <1>3. CASE InitializeRequest
    BY <1>3, DecisionStep DEF InitializeRequest, InitFails, counts, Starting, Ending
  <1>4. CASE AssignApprover
    <2>1. wf = "assign" /\ ~Approved /\ UNCHANGED <<request, actionsMap, executions>>
      BY <1>4, <1>a DEF AssignApprover, counts, FlowInv, Starting
    <2>2. decision' \in {decision, "EXPIRED", "CANCELLED"}
      BY <1>4 DEF AssignApprover, InitFails, SetTimer
    <2> QED
      BY <2>1, <2>2, DecisionStep DEF Starting, Ending
  <1>5. CASE Receive
    <2>1. CASE UNCHANGED <<wf, voter, counts>>
      BY <1>1, <1>5, <2>1 DEF Receive, counts
    <2>2. CASE ~UNCHANGED <<wf, voter, counts>>
      <3> DEFINE u == Head(signals).by  d == Head(signals).action
      <3>1. /\ u \in Users \cap Approvers /\ d \in Decisions /\ actionsMap[u] = None
            /\ actionsMap' = [actionsMap EXCEPT ![u] = d]
            /\ UNCHANGED <<request, decision, executions>>
        BY <1>5, <2>2, Taken DEF Receive
      <3>2. decision = None /\ ~Quorum!QuorumReached
        BY <1>5, <1>a, QuorumTerms DEF Receive, FlowInv, Ending
      <3> HIDE DEF u, d
      <3>3. Approvers' = Approvers /\ u \in Quorum!Open
        BY <3>1 DEF Approvers, Quorum!Open
      <3>4. Quorum!Vote(u, d)
        BY <3>1, <3>2, <3>3 DEF Quorum!Vote
      <3> QED
        BY <3>1, <3>4 DEF Quorum!Next, Quorum!Ballots, Decisions
    <2> QED
      BY <2>1, <2>2
  <1>6. CASE RecordAction
    BY <1>6, DecisionStep DEF RecordAction, RecordFails, CheckQuorum, counts, Ending
  <1>7. CASE UpdateAssignment
    BY <1>7, DecisionStep DEF UpdateAssignment, RecordFails, CheckQuorum, counts, Ending
  <1>8. CASE ExecuteAction
    <2>1. /\ decision = "APPROVED" /\ UNCHANGED <<request, actionsMap, decision>>
          /\ executions' \in {executions, executions + 1}
      BY <1>8 DEF ExecuteAction, ExecuteFails, FlowInv, counts
    <2>2. CASE UNCHANGED executions
      BY <1>1, <2>1, <2>2
    <2>3. CASE executions' = executions + 1
      <3>1. executions' > 0 /\ Approvers' = Approvers
        BY <2>1, <2>3 DEF TypeOK, Approvers
      <3> QED
        BY <2>1, <3>1 DEF Quorum!Next, Quorum!Perform
    <2> QED
      BY <2>1, <2>2, <2>3
  <1>9. CASE Finalize
    BY <1>1, <1>9 DEF Finalize, FinalizeFails, counts
  <1>10. CASE Expire
    BY <1>10, <1>a, DecisionStep DEF Expire, counts, FlowInv, Ending
  <1>11. CASE UNCHANGED vars
    BY <1>1, <1>11 DEF vars, flow, counts
  <1> QED
    BY <1>2, <1>3, <1>4, <1>5, <1>6, <1>7, <1>8, <1>9, <1>10, <1>11 DEF Next, Activity

LEMMA CountInit == Init => CountInv
  <1> SUFFICES ASSUME Init PROVE CountInv
    OBVIOUS
  <1>1. Voted("APPROVE") = {} /\ Voted("REJECT") = {}
    BY ConstAssumption DEF Init, Voted
  <1> QED
    BY <1>1, FS_EmptySet DEF Init, CountInv

\* Whatever fails, is repeated or arrives late: the workflow carries out a vote
\* of M out of N of different people.
THEOREM Refinement == Spec => RefinesQuorum
  <1>1. Init => TypeOK /\ CountInv /\ FlowInv
    BY TypeInit, CountInit, FlowInit
  <1>2. TypeOK /\ CountInv /\ FlowInv /\ [Next]_vars => (TypeOK /\ CountInv /\ FlowInv)'
    BY TypeStep, CountStep, FlowStep
  <1> QED
    BY <1>1, <1>2, QuorumInit, QuorumStep, PTL DEF Spec, RefinesQuorum, Quorum!Spec

----------------------------------------------------------------------------
(* The ledger, the assignments and the status *)

LEMMA RowStep == TypeOK /\ FlowInv /\ RowInv /\ [Next]_vars => RowInv'
  <1> SUFFICES ASSUME TypeOK, FlowInv, RowInv, [Next]_vars PROVE RowInv'
    OBVIOUS
  <1> USE DEF Goto, Decided, Answers, Fails, Continues, Fault, NoFault, RowInv, ClosedWithDecision
  <1>n. None \notin Final /\ "PENDING" # None
    BY ConstAssumption DEF Final
  <1>p. "PENDING" \notin Final /\ faults \in Nat
    BY DEF Final, TypeOK
  <1>d. decision = None <=> wf \notin Ending
    BY DEF FlowInv
  <1>1. CASE UNCHANGED <<request, row, flow>> /\ faults' \in {faults, faults + 1}
    BY <1>1, <1>p DEF flow
  <1>2. CASE StartWorkflow
    <2>1. wf = "none" /\ wf' \in {"none", "insert"} /\ UNCHANGED <<request, row, decision>>
      BY <1>2 DEF StartWorkflow, FlowInv, tables
    <2> QED
      BY <2>1
  <1>3. CASE StoreRequest
    <2>1. CASE UNCHANGED row
      BY <1>1, <1>3, <2>1 DEF StoreRequest
    <2>2. CASE row = None /\ row' = "PENDING" /\ UNCHANGED faults
      BY <1>3, <1>n, <1>p, <1>d, <2>2 DEF StoreRequest, flow, Ending
    <2> QED
      BY <1>3, <2>1, <2>2 DEF StoreRequest, InsertRequest, Conflict
  <1>4. CASE StoreAssignment \/ CreatorStops \/ Submission
    BY <1>1, <1>4 DEF StoreAssignment, CreatorStops, Submission, CheckActed, SendSignal, tables
  <1>5. CASE InitializeRequest
    <2>1. row \notin Final /\ row' \notin Final
      BY <1>5, <1>n, <1>p DEF InitializeRequest, InsertRequest, Conflict
    <2>2. wf' = "done" => decision' = "CANCELLED"
      BY <1>5 DEF InitializeRequest, InitFails
    <2> QED
      BY <2>1, <2>2
  <1>6. CASE AssignApprover
    <2>1. UNCHANGED row /\ row \notin Final /\ request' = request
      BY <1>6 DEF AssignApprover
    <2>2. wf' = "done" => decision' = "CANCELLED" \/ ~(request.hours > 0)
      BY <1>6 DEF AssignApprover, InitFails, SetTimer
    <2> QED
      BY <2>1, <2>2
  <1>7. CASE Receive
    BY <1>7 DEF Receive, tables
  <1>8. CASE RecordAction
    BY <1>8 DEF RecordAction, RecordFails, CheckQuorum
  <1>9. CASE UpdateAssignment
    BY <1>9 DEF UpdateAssignment, RecordFails, CheckQuorum
  <1>10. CASE ExecuteAction
    BY <1>10 DEF ExecuteAction, ExecuteFails, tables
  <1>11. CASE Finalize
    <2>1. decision' = decision /\ row' \in {row, decision} /\ wf' \in {"finalize", "done"}
      BY <1>11 DEF Finalize, FinalizeFails
    <2>2. wf' = "done" => row' = decision \/ faults' > 0
      BY <1>11, <1>p DEF Finalize, FinalizeFails
    <2> QED
      BY <1>11, <2>1, <2>2 DEF Finalize
  <1>12. CASE Expire
    BY <1>12 DEF Expire, tables
  <1>13. CASE UNCHANGED vars
    BY <1>1, <1>13 DEF vars, tables
  <1> QED
    BY <1>2, <1>3, <1>4, <1>5, <1>6, <1>7, <1>8, <1>9, <1>10, <1>11, <1>12, <1>13
       DEF Next, Creation, Activity

\* LedgerInv when a vote's recording is over, in whichever way.
LEMMA RecordedLedger ==
    ASSUME TypeOK, LedgerInv, CheckQuorum, tries' = 0, UNCHANGED counts,
           faults' \in Nat, faults' >= faults,
           \A u \in Users : ledger'[u] \in Nat /\ ledger'[u] >= ledger[u],
           \A u \in Users : acted'[u] > 0 => ledger'[u] > 0,
           \A u \in Users : ledger'[u] > 0 => actionsMap[u] # None,
           voter \in Users => ledger'[voter] > 0 \/ faults' >= MaxAttempts
    PROVE  LedgerInv'
  <1>1. wf' \notin Recording /\ voter' = None /\ actionsMap' = actionsMap
    BY DEF CheckQuorum, Recording, counts
  <1>2. ActedIsRecorded'
    BY <1>1 DEF ActedIsRecorded
  <1>3. ASSUME NEW u \in Users, actionsMap[u] # None, ledger'[u] = 0 PROVE faults' >= MaxAttempts
    <2>1. ledger[u] = 0 /\ ~(ledger'[u] > 0)
      BY <1>3 DEF TypeOK
    <2>2. u = voter \/ faults >= MaxAttempts
      BY <1>3, <2>1 DEF LedgerInv
    <2>3. faults \in Nat /\ MaxAttempts \in Nat
      BY ConstAssumption DEF TypeOK
    <2> QED
      BY <1>3, <2>1, <2>2, <2>3
  <1> QED
    BY <1>1, <1>2, <1>3 DEF LedgerInv, Recording

LEMMA LedgerStep == TypeOK /\ FlowInv /\ LedgerInv /\ [Next]_vars => LedgerInv'
  <1> SUFFICES ASSUME TypeOK, FlowInv, LedgerInv, [Next]_vars PROVE LedgerInv'
    OBVIOUS
  <1> USE DEF Goto, Decided, Answers, Fails, Continues, Fault, NoFault
  <1>0. /\ faults \in Nat /\ tries \in Nat /\ MaxAttempts \in Nat \ {0}
        /\ acted \in [Users -> Nat] /\ unacted \in [Users -> Nat] /\ ledger \in [Users -> Nat]
    BY ConstAssumption DEF TypeOK
  <1>v. wf \in Recording => voter \in Users /\ actionsMap[voter] # None
    BY DEF FlowInv
  <1>1. CASE /\ UNCHANGED <<acted, ledger, actionsMap, voter>>
             /\ UNCHANGED <<wf, tries>> \/ (wf' \notin Recording \cup {"wait"})
             /\ faults' \in {faults, faults + 1}
    <2>1. faults' \in Nat /\ faults' >= faults
      BY <1>0, <1>1
    <2>2. ActedIsRecorded'
      BY <1>1 DEF ActedIsRecorded, LedgerInv
    <2>3. \A u \in Users : actionsMap'[u] # None /\ ledger'[u] = 0 /\ u # voter'
                                => faults' >= MaxAttempts
      BY <1>0, <1>1, <2>1 DEF LedgerInv
    <2>4. /\ wf' = "update" => ledger'[voter'] > 0
          /\ wf' = "wait" => tries' = 0
          /\ wf' \in Recording => tries' <= faults'
      BY <1>0, <1>1, <2>1 DEF LedgerInv, Recording
    <2> QED
      BY <2>2, <2>3, <2>4 DEF LedgerInv
  <1>2. CASE StartWorkflow
    BY <1>1, <1>2 DEF StartWorkflow, tables, counts, Recording
  <1>3. CASE StoreRequest \/ StoreAssignment \/ CreatorStops \/ Submission
    BY <1>1, <1>3 DEF StoreRequest, StoreAssignment, CreatorStops, Submission, CheckActed,
       SendSignal, tables, flow, counts
  <1>4. CASE InitializeRequest
    BY <1>1, <1>4 DEF InitializeRequest, InitFails, counts, Recording
  <1>5. CASE AssignApprover
    <2>1. CASE wf' = "wait"
      <3>1. /\ UNCHANGED <<acted, ledger, actionsMap, voter, faults>> /\ tries' = 0
        BY <1>5, <2>1 DEF AssignApprover, InitFails, SetTimer, counts
      <3> QED
        BY <2>1, <3>1 DEF LedgerInv, ActedIsRecorded, Recording
    <2>2. CASE wf' # "wait"
      <3>1. /\ UNCHANGED <<acted, ledger, actionsMap, voter>>
            /\ wf' \notin Recording /\ faults' \in {faults, faults + 1}
        BY <1>5, <2>2 DEF AssignApprover, InitFails, SetTimer, counts, Recording
      <3> QED
        BY <1>1, <2>2, <3>1
    <2> QED
      BY <2>1, <2>2
  <1>6. CASE Receive
    <2>1. CASE UNCHANGED <<wf, voter, counts>>
      BY <1>1, <1>6, <2>1 DEF Receive, tables, counts
    <2>2. CASE ~UNCHANGED <<wf, voter, counts>>
      <3> DEFINE v == Head(signals).by  d == Head(signals).action
      <3>1. /\ v \in Users /\ d # None /\ voter' = v /\ wf' = "record"
            /\ actionsMap' = [actionsMap EXCEPT ![v] = d]
            /\ UNCHANGED <<acted, ledger, tries, faults>> /\ tries = 0
        BY <1>6, <2>2, Taken, ConstAssumption DEF Receive, tables, LedgerInv, Decisions
      <3>2. actionsMap \in [Users -> Decisions \cup {None}] /\ voter = None
        BY <1>6 DEF TypeOK, FlowInv, Receive, Recording
      <3> HIDE DEF v, d
      <3>3. ActedIsRecorded'
        BY <3>1, <3>2 DEF LedgerInv, ActedIsRecorded
      <3>4. \A u \in Users : actionsMap'[u] # None /\ ledger'[u] = 0 /\ u # voter'
                                => faults' >= MaxAttempts
        BY <3>1, <3>2, ConstAssumption DEF LedgerInv
      <3> QED
        BY <1>0, <3>1, <3>3, <3>4 DEF LedgerInv, Recording
    <2> QED
      BY <2>1, <2>2
  <1>7. CASE RecordAction
    <2>1. UNCHANGED <<acted, counts>> /\ faults' \in {faults, faults + 1} /\ wf \in Recording
      BY <1>7 DEF RecordAction, Recording
    <2>2. ledger' = ledger \/ ledger' = [ledger EXCEPT ![voter] = @ + 1]
      BY <1>7 DEF RecordAction
    <2>3. /\ \A u \in Users : ledger'[u] \in Nat /\ ledger'[u] >= ledger[u]
          /\ \A u \in Users : acted'[u] > 0 => ledger'[u] > 0
          /\ \A u \in Users : ledger'[u] > 0 => actionsMap[u] # None
      BY <1>0, <1>v, <2>1, <2>2 DEF LedgerInv, ActedIsRecorded
    <2>4. CASE CheckQuorum /\ tries' = 0
      <3>1. tries + 1 = MaxAttempts /\ faults' = faults + 1
        BY <1>7, <2>4 DEF RecordAction, RecordFails, CheckQuorum
      <3>2. faults' >= MaxAttempts
        BY <1>0, <2>1, <3>1 DEF LedgerInv
      <3> QED
        BY <1>0, <2>1, <2>3, <2>4, <3>1, <3>2, RecordedLedger
    <2>5. CASE ~(CheckQuorum /\ tries' = 0)
      <3>1. /\ \/ wf' = "update" /\ UNCHANGED tries /\ ledger'[voter] > 0
               \/ wf' = "record" /\ tries' = tries + 1 /\ faults' = faults + 1
            /\ voter' = voter
        BY <1>0, <1>7, <1>v, <2>1, <2>5 DEF RecordAction, RecordFails
      <3>2. tries' <= faults'
        BY <1>0, <2>1, <3>1 DEF LedgerInv
      <3>3. \A u \in Users : actionsMap[u] # None /\ ledger'[u] = 0 /\ u # voter
                                => faults' >= MaxAttempts
        BY <1>0, <2>1, <2>2 DEF LedgerInv
      <3> QED
        BY <2>1, <2>3, <3>1, <3>2, <3>3 DEF LedgerInv, ActedIsRecorded, counts
    <2> QED
      BY <2>4, <2>5
  <1>8. CASE UpdateAssignment
    <2>1. UNCHANGED <<ledger, counts>> /\ faults' \in {faults, faults + 1} /\ wf = "update"
      BY <1>8 DEF UpdateAssignment
    <2>2. ledger[voter] > 0 /\ voter \in Users
      BY <1>v, <2>1 DEF LedgerInv, Recording
    <2>3. acted' = acted \/ acted' = [acted EXCEPT ![voter] = @ + unacted[voter]]
      BY <1>8 DEF UpdateAssignment, MarkActed
    <2>4. /\ \A u \in Users : ledger'[u] \in Nat /\ ledger'[u] >= ledger[u]
          /\ \A u \in Users : acted'[u] > 0 => ledger'[u] > 0
          /\ \A u \in Users : ledger'[u] > 0 => actionsMap[u] # None
      BY <1>0, <2>1, <2>2, <2>3 DEF LedgerInv, ActedIsRecorded
    <2>5. CASE CheckQuorum /\ tries' = 0
      BY <1>0, <2>1, <2>2, <2>4, <2>5, RecordedLedger
    <2>6. CASE ~(CheckQuorum /\ tries' = 0)
      <3>1. /\ wf' = "record" /\ tries' = tries + 1 /\ faults' = faults + 1 /\ voter' = voter
        BY <1>8, <2>6 DEF UpdateAssignment, RecordFails
      <3>2. tries' <= faults'
        BY <1>0, <2>1, <3>1 DEF LedgerInv, Recording
      <3>3. \A u \in Users : actionsMap[u] # None /\ ledger'[u] = 0 /\ u # voter
                                => faults' >= MaxAttempts
        BY <1>0, <2>1 DEF LedgerInv
      <3> QED
        BY <2>1, <2>4, <3>1, <3>2, <3>3 DEF LedgerInv, ActedIsRecorded, counts
    <2> QED
      BY <2>5, <2>6
  <1>9. CASE ExecuteAction
    <2>1. wf' \in {"execute", "finalize"}
      BY <1>9 DEF ExecuteAction, ExecuteFails
    <2> QED
      BY <1>1, <1>9, <2>1 DEF ExecuteAction, ExecuteFails, tables, counts, Recording
  <1>10. CASE Finalize
    BY <1>1, <1>10 DEF Finalize, FinalizeFails, counts, Recording
  <1>11. CASE Expire
    BY <1>1, <1>11 DEF Expire, tables, counts, Recording
  <1>12. CASE UNCHANGED vars
    BY <1>1, <1>12 DEF vars, tables, flow, counts
  <1> QED
    BY <1>2, <1>3, <1>4, <1>5, <1>6, <1>7, <1>8, <1>9, <1>10, <1>11, <1>12
       DEF Next, Creation, Activity

----------------------------------------------------------------------------
(* The channel: first come, first counted *)

LEMMA QueueSend ==
    ASSUME TypeOK, QueueInv, NEW u \in Users, NEW d \in Decisions,
           signals' = Append(signals, [by |-> u, action |-> d]),
           first' = IF first[u] = None THEN [first EXCEPT ![u] = d] ELSE first,
           UNCHANGED <<request, actionsMap>>
    PROVE  QueueInv'
  <1> DEFINE n == Len(signals)
  <1>n. None \notin Decisions
    BY ConstAssumption DEF Decisions
  <1>1. /\ n \in Nat /\ DOMAIN signals = 1..n /\ DOMAIN signals' = 1..(n+1)
        /\ \A i \in 1..n : signals'[i] = signals[i]
        /\ signals'[n+1].by = u /\ signals'[n+1].action = d
    BY DEF TypeOK
  <1>2. first \in [Users -> Decisions \cup {None}] /\ Approvers' = Approvers
    BY DEF TypeOK, Approvers
  <1> HIDE DEF n
  <1>3. \A v \in Users : first[v] # None => first'[v] = first[v]
    BY <1>2
  <1>4. \A v \in Users : v # u => first'[v] = first[v]
    BY <1>2
  <1>5. first'[u] # None
    BY <1>2, <1>n
  <1>6. FirstDecisionCounts'
    BY <1>3 DEF QueueInv, FirstDecisionCounts
  <1>7. ASSUME NEW v \in Users, first'[v] = None
        PROVE  actionsMap'[v] = None /\ \A i \in DOMAIN signals' : signals'[i].by # v
    <2>1. v # u /\ first[v] = None
      BY <1>4, <1>5, <1>7
    <2>2. actionsMap[v] = None /\ \A i \in 1..n : signals[i].by # v
      BY <1>1, <2>1 DEF QueueInv
    <2> QED
      BY <1>1, <2>1, <2>2
  <1>8. ASSUME NEW v \in Approvers', actionsMap'[v] = None, first'[v] # None
        PROVE  \E i \in DOMAIN signals' : FirstOf(v, i)' /\ signals'[i].action = first'[v]
    <2>0. v \in Approvers /\ v \in Users
      BY <1>2, <1>8, ApproversBound
    <2>1. CASE first[v] # None
      <3>1. PICK i \in DOMAIN signals : FirstOf(v, i) /\ signals[i].action = first[v]
        BY <1>8, <2>0, <2>1 DEF QueueInv
      <3>2. i \in 1..n /\ signals[i].by = v /\ \A j \in 1..(i-1) : signals[j].by # v
        BY <1>1, <3>1 DEF FirstOf
      <3>3. /\ i \in DOMAIN signals' /\ signals'[i] = signals[i]
            /\ \A j \in 1..(i-1) : signals'[j].by # v
        BY <1>1, <3>2
      <3> QED
        BY <1>3, <2>0, <2>1, <3>1, <3>2, <3>3 DEF FirstOf
    <2>2. CASE first[v] = None
      <3>1. v = u /\ first'[v] = d
        BY <1>2, <1>4, <1>8, <2>0, <2>2
      <3>2. \A i \in 1..n : signals[i].by # v
        BY <1>1, <2>0, <2>2 DEF QueueInv
      <3>3. /\ n+1 \in DOMAIN signals' /\ \A j \in 1..((n+1)-1) : signals'[j].by # v
        BY <1>1, <3>2
      <3> QED
        BY <1>1, <3>1, <3>3 DEF FirstOf
    <2> QED
      BY <2>1, <2>2
  <1> QED
    BY <1>6, <1>7, <1>8 DEF QueueInv

LEMMA QueueReceive ==
    ASSUME TypeOK, QueueInv, Receive
    PROVE  QueueInv'
  <1> DEFINE n == Len(signals)  h == Head(signals)
  <1>n. None \notin Decisions
    BY ConstAssumption DEF Decisions
  <1>1. /\ n \in Nat \ {0} /\ DOMAIN signals = 1..n /\ DOMAIN signals' = 1..(n-1)
        /\ \A i \in 1..(n-1) : signals'[i] = signals[i+1]
        /\ h = signals[1]
    BY DEF TypeOK, Receive
  <1>2. /\ first' = first /\ Approvers' = Approvers
        /\ first \in [Users -> Decisions \cup {None}]
        /\ actionsMap \in [Users -> Decisions \cup {None}]
    BY DEF TypeOK, Receive, Approvers
  <1>3. \/ actionsMap' = actionsMap /\ (h.by \in Approvers => actionsMap[h.by] # None)
        \/ /\ h.by \in Users \cap Approvers /\ actionsMap[h.by] = None
           /\ actionsMap' = [actionsMap EXCEPT ![h.by] = h.action]
    <2>1. h \in Signal
      BY <1>1 DEF TypeOK
    <2>2. h.by \in Users
      BY <2>1 DEF Signal
    <2>3. \/ Ignored(h) /\ actionsMap' = actionsMap
          \/ ~Ignored(h) /\ actionsMap' = [actionsMap EXCEPT ![h.by] = h.action]
      BY DEF Receive, counts
    <2> QED
      BY <2>2, <2>3 DEF Ignored
  <1> HIDE DEF n, h
  <1>4. ASSUME NEW v \in Approvers, actionsMap[v] = None, first[v] # None
        PROVE  \E i \in 1..n : /\ signals[i].by = v /\ signals[i].action = first[v]
                               /\ \A j \in 1..(i-1) : signals[j].by # v
    BY <1>1, <1>4 DEF QueueInv, FirstOf
  <1>5. ASSUME h.by \in Users \cap Approvers, actionsMap[h.by] = None
        PROVE  h.action = first[h.by] /\ first[h.by] # None
    <2>1. first[h.by] # None
      BY <1>1, <1>5 DEF QueueInv
    <2>2. PICK i \in 1..n : /\ signals[i].by = h.by /\ signals[i].action = first[h.by]
                            /\ \A j \in 1..(i-1) : signals[j].by # h.by
      BY <1>4, <1>5, <2>1
    <2>3. i = 1
      BY <1>1, <2>2
    <2> QED
      BY <1>1, <2>1, <2>2, <2>3
  <1>6. FirstDecisionCounts'
    BY <1>2, <1>3, <1>5 DEF QueueInv, FirstDecisionCounts
  <1>7. ASSUME NEW v \in Users, first'[v] = None
        PROVE  actionsMap'[v] = None /\ \A i \in DOMAIN signals' : signals'[i].by # v
    <2>1. actionsMap[v] = None /\ \A i \in 1..n : signals[i].by # v
      BY <1>1, <1>2, <1>7 DEF QueueInv
    <2>2. h.by # v
      BY <1>1, <2>1
    <2>3. actionsMap'[v] = None
      BY <1>2, <1>3, <2>1, <2>2
    <2> QED
      BY <1>1, <2>1, <2>3
  <1>8. ASSUME NEW v \in Approvers', actionsMap'[v] = None, first'[v] # None
        PROVE  \E i \in DOMAIN signals' : FirstOf(v, i)' /\ signals'[i].action = first'[v]
    <2>0. v \in Approvers /\ v \in Users /\ first[v] # None
      BY <1>2, <1>8, ApproversBound
    <2>1. actionsMap[v] = None /\ h.by # v
      BY <1>2, <1>3, <1>5, <1>8, <1>n, <2>0
    <2>2. PICK i \in 1..n : /\ signals[i].by = v /\ signals[i].action = first[v]
                            /\ \A j \in 1..(i-1) : signals[j].by # v
      BY <1>4, <2>0, <2>1
    <2>3. i # 1
      BY <1>1, <2>1, <2>2
    <2>4. /\ i-1 \in 1..(n-1) /\ signals'[i-1] = signals[i]
          /\ \A j \in 1..((i-1)-1) : signals'[j].by # v
      <3>1. i-1 \in 1..(n-1) /\ signals'[i-1] = signals[i]
        BY <1>1, <2>2, <2>3
      <3>2. ASSUME NEW j \in 1..((i-1)-1) PROVE signals'[j].by # v
        <4>1. j \in 1..(n-1) /\ j+1 \in 1..(i-1)
          BY <1>1, <2>2, <3>2
        <4> QED
          BY <1>1, <2>2, <4>1
      <3> QED
        BY <3>1, <3>2
    <2> QED
      BY <1>1, <1>2, <2>2, <2>4 DEF FirstOf
  <1> QED
    BY <1>6, <1>7, <1>8 DEF QueueInv

LEMMA QueueStep == TypeOK /\ QueueInv /\ [Next]_vars => QueueInv'
  <1> SUFFICES ASSUME TypeOK, QueueInv, [Next]_vars PROVE QueueInv'
    OBVIOUS
  <1>1. CASE UNCHANGED <<request, signals, first, actionsMap>>
    BY <1>1 DEF QueueInv, FirstDecisionCounts, FirstOf, Approvers
  <1>2. ASSUME NEW u \in Users, NEW d \in Decisions, SendSignal(u, d) PROVE QueueInv'
    BY <1>1, <1>2, QueueSend DEF SendSignal, counts
  <1>3. CASE Creation
    BY <1>1, <1>3 DEF Creation, StartWorkflow, StoreRequest, StoreAssignment, CreatorStops,
       clients, counts
  <1>4. ASSUME NEW u \in Users, CheckActed(u) PROVE QueueInv'
    BY <1>1, <1>4 DEF CheckActed, counts
  <1>5. CASE Activity \/ Expire
    BY <1>1, <1>5 DEF Activity, InitializeRequest, AssignApprover, RecordAction,
       UpdateAssignment, ExecuteAction, Finalize, Expire, clients, counts
  <1>6. CASE UNCHANGED vars
    BY <1>1, <1>6 DEF vars, clients, counts
  <1> QED
    BY <1>2, <1>3, <1>4, <1>5, <1>6, QueueReceive DEF Next, Submission

----------------------------------------------------------------------------
(* The invariant and what follows from it *)

LEMMA IInvInit == Init => IInv
  <1> SUFFICES ASSUME Init PROVE IInv
    OBVIOUS
  <1>1. LedgerInv
    BY ConstAssumption DEF Init, LedgerInv, ActedIsRecorded, Recording
  <1>2. QueueInv
    BY DEF Init, QueueInv, FirstDecisionCounts
  <1>3. RowInv
    BY ConstAssumption DEF Init, RowInv, ClosedWithDecision, Final
  <1> QED
    BY <1>1, <1>2, <1>3, TypeInit, CountInit, FlowInit DEF IInv

LEMMA IInvStep == IInv /\ [Next]_vars => IInv'
  BY TypeStep, CountStep, FlowStep, LedgerStep, QueueStep, RowStep DEF IInv

LEMMA IInvAlways == Spec => []IInv
  BY IInvInit, IInvStep, PTL DEF Spec

\* What a user decided first is what is counted, however many of the user's
\* decisions slipped past hasApproverActed.
THEOREM FirstDecision == Spec => []FirstDecisionCounts
  <1>1. IInv => FirstDecisionCounts
    BY DEF IInv, QueueInv
  <1> QED
    BY <1>1, IInvAlways, PTL

\* Assignments that show an action have an entry in the ledger, and entries
\* belong to votes, although recording is repeated and may fail half-way.
THEOREM Recorded == Spec => []ActedIsRecorded
  <1>1. IInv => ActedIsRecorded
    BY DEF IInv, LedgerInv
  <1> QED
    BY <1>1, IInvAlways, PTL

\* The action is executed on the strength of a quorum that is in the ledger, as
\* long as there were fewer failures than an activity has attempts.
THEOREM OnRecord == Spec => []ExecutedOnRecord
  <1>1. ASSUME IInv, executions > 0, faults < MaxAttempts
        PROVE  Cardinality({u \in Approvers : actionsMap[u] = "APPROVE" /\ ledger[u] > 0})
                   >= request.quorum
    <2>1. decision = "APPROVED" /\ approvals >= request.quorum
      BY <1>1 DEF IInv, FlowInv
    <2>2. wf \notin Recording /\ voter = None
      BY <2>1, <1>1, ConstAssumption DEF IInv, FlowInv, Recording, Ending
    <2>3. ASSUME NEW u \in Users, actionsMap[u] = "APPROVE" PROVE ledger[u] > 0 /\ u \in Approvers
      <3>1. actionsMap[u] # None /\ u # voter
        BY <2>2, <2>3, ConstAssumption
      <3>2. ~(faults >= MaxAttempts) /\ ledger[u] \in Nat
        BY <1>1, ConstAssumption DEF IInv, TypeOK
      <3> QED
        BY <1>1, <3>1, <3>2 DEF IInv, LedgerInv, CountInv
    <2>4. {u \in Approvers : actionsMap[u] = "APPROVE" /\ ledger[u] > 0} = Voted("APPROVE")
      BY <1>1, <2>3, ApproversBound DEF IInv, Voted
    <2> QED
      BY <1>1, <2>1, <2>4 DEF IInv, CountInv
  <1>2. IInv => ExecutedOnRecord
    BY <1>1 DEF ExecutedOnRecord
  <1> QED
    BY <1>2, IInvAlways, PTL

\* Without failures the end of the workflow closes the request, outside the two
\* cases the property names.
THEOREM Closed == Spec => []ClosedWithDecision
  <1>1. IInv => ClosedWithDecision
    BY DEF IInv, RowInv
  <1> QED
    BY <1>1, IInvAlways, PTL

\* No step of either handler or of the workflow changes a final status.
THEOREM FinalStays == Spec => StatusFinal
  <1>1. ASSUME IInv, [Next]_vars, row \in Final PROVE UNCHANGED row
    <2>1. row = decision /\ wf \in {"finalize", "done"} /\ row # None
      BY <1>1, ConstAssumption DEF IInv, RowInv, Final
    <2> QED
      BY <1>1, <2>1 DEF Next, Creation, StartWorkflow, StoreRequest, InsertRequest, Conflict,
         StoreAssignment, CreatorStops, Submission, CheckActed, SendSignal, Activity,
         InitializeRequest, AssignApprover, Receive, RecordAction, UpdateAssignment,
         ExecuteAction, Finalize, Expire, vars, tables
  <1> QED
    BY <1>1, IInvAlways, PTL DEF Spec, StatusFinal

\* What is shown as done is on record.
THEOREM AllOnRecord == Spec => []VotesOnRecord
  <1>1. ActedIsRecorded /\ ExecutedOnRecord => VotesOnRecord
    BY DEF VotesOnRecord
  <1> QED
    BY <1>1, Recorded, OnRecord, PTL
=============================================================================
