-------------------------- MODULE ApprovalWorkflow --------------------------
(***************************************************************************)
(* The life of one approval request of neam/approval/backend: the handler  *)
(* that creates it, the Temporal workflow that collects the decisions, the *)
(* activities through which the workflow writes to the database, and the   *)
(* handler that passes decisions on as signals.                            *)
(*                                                                         *)
(* The creating handler starts the workflow and then writes the request    *)
(* and the assignments; the workflow's first activity writes the same      *)
(* rows.  The two run concurrently.  An activity runs at least once and at *)
(* most MaxAttempts times: an attempt may fail before or after the effect  *)
(* of any of its statements, and the next attempt starts from the top.     *)
(***************************************************************************)
EXTENDS Naturals, FiniteSets, Sequences

CONSTANTS
    Users,          \* user IDs
    None,
    Requests,       \* requests that may be created, with their policy
    MaxAttempts,    \* RetryPolicy.MaximumAttempts
    MaxFaults,      \* bound on failing statements and handlers, per request
    MaxPending      \* bound on decisions on their way to the workflow

Request == [ids : Seq(Users), quorum : Nat \ {0}, hours : Nat]

ASSUME ConstAssumption ==
    /\ IsFiniteSet(Users)
    /\ None \notin Users
    /\ None \notin {"APPROVE", "REJECT", "ABSTAIN", "PENDING",
                    "APPROVED", "REJECTED", "EXPIRED", "CANCELLED"}
    /\ Requests \subseteq Request
    /\ \A r \in Requests : r.quorum <= Len(r.ids)
    /\ MaxAttempts \in Nat \ {0}
    /\ MaxFaults \in [Requests -> Nat]
    /\ MaxPending \in Nat

VARIABLES
    request,    \* the request and its policy (ApprovalWorkflowInput)
    creator,    \* where CreateApprovalRequest is
    storing,    \* the next assignment it writes
    row,        \* approval_requests.status, None while there is no row
    unacted,    \* approver_assignments with has_acted = false, per user
    acted,      \* and with has_acted = true
    ledger,     \* approval_actions: number of entries per user
    checked,    \* users whose SubmitDecision has passed hasApproverActed
    signals,    \* the channel approval_decision
    first,      \* history: the first decision of each user that was accepted
    wf,         \* where ExecuteApprovalWorkflow is
    slot,       \* the next assignment its first activity writes
    voter,      \* whose decision is being recorded
    tries,      \* failed attempts of the running activity
    actionsMap,
    approvals,  \* approvalsReceived
    rejections, \* rejectionsReceived
    decision,   \* output.FinalStatus
    executions, \* how often the approved action was executed
    faults      \* failures so far

handler == <<creator, storing>>
tables == <<row, unacted, acted, ledger>>
clients == <<checked, signals, first>>
flow == <<wf, slot, voter, tries, decision>>
counts == <<actionsMap, approvals, rejections>>
vars == <<request, handler, tables, clients, flow, counts, executions, faults>>

Decisions == {"APPROVE", "REJECT", "ABSTAIN"}
Final == {"APPROVED", "REJECTED", "EXPIRED", "CANCELLED"}
Signal == [by : Users, action : Decisions]
Approvers == {request.ids[i] : i \in DOMAIN request.ids}
TotalApprovers == Len(request.ids)

TypeOK ==
    /\ request \in Requests
    /\ creator \in {"start", "insert", "assign", "done"}
    /\ storing \in Nat \ {0}
    /\ row \in Final \cup {"PENDING", None}
    /\ unacted \in [Users -> Nat]
    /\ acted \in [Users -> Nat]
    /\ ledger \in [Users -> Nat]
    /\ checked \subseteq Users
    /\ signals \in Seq(Signal)
    /\ first \in [Users -> Decisions \cup {None}]
    /\ wf \in {"none", "insert", "assign", "wait", "record", "update",
               "execute", "finalize", "done"}
    /\ slot \in Nat \ {0}
    /\ tries \in 0..(MaxAttempts - 1)
    /\ voter \in Users \cup {None}
    /\ actionsMap \in [Users -> Decisions \cup {None}]
    /\ approvals \in Nat
    /\ rejections \in Nat
    /\ decision \in Final \cup {None}
    /\ executions \in Nat
    /\ faults \in Nat

Init ==
    /\ request \in Requests
    /\ creator = "start"
    /\ storing = 1
    /\ row = None
    /\ unacted = [u \in Users |-> 0]
    /\ acted = [u \in Users |-> 0]
    /\ ledger = [u \in Users |-> 0]
    /\ checked = {}
    /\ signals = <<>>
    /\ first = [u \in Users |-> None]
    /\ wf = "none"
    /\ slot = 1
    /\ tries = 0
    /\ voter = None
    /\ actionsMap = [u \in Users |-> None]
    /\ approvals = 0
    /\ rejections = 0
    /\ decision = None
    /\ executions = 0
    /\ faults = 0

NoFault == UNCHANGED faults
Fault == faults < MaxFaults[request] /\ faults' = faults + 1

----------------------------------------------------------------------------
(* Rows of the database *)

\* INSERT INTO approval_requests: id is the primary key.
InsertRequest == row = None /\ row' = "PENDING"
Conflict == row # None /\ UNCHANGED row

\* INSERT INTO approver_assignments: needs the request's row, allows doubles.
InsertAssignment(i) ==
    /\ row # None
    /\ unacted' = [unacted EXCEPT ![request.ids[i]] = @ + 1]

----------------------------------------------------------------------------
(* CreateApprovalRequest *)

\* The call may fail before or after the workflow was started.
StartWorkflow ==
    /\ creator = "start"
    /\ \/ wf' = "insert" /\ creator' = "insert" /\ NoFault
       \/ wf' \in {"none", "insert"} /\ creator' = "done" /\ Fault
    /\ UNCHANGED <<request, storing, tables, clients, slot, voter, tries,
                   decision, counts, executions>>

\* Mutant of StoreRequest: ON CONFLICT (id) DO UPDATE.
StoreRequestUpsert ==
    /\ creator = "insert"
    /\ creator' = "assign"
    /\ \/ row' = "PENDING" /\ NoFault
       \/ UNCHANGED row /\ Fault
    /\ UNCHANGED <<request, storing, unacted, acted, ledger, clients, flow,
                   counts, executions>>

\* An error is logged and the handler goes on.
StoreRequest ==
    /\ creator = "insert"
    /\ creator' = "assign"
    /\ \/ (InsertRequest \/ Conflict) /\ NoFault
       \/ UNCHANGED row /\ Fault
    /\ UNCHANGED <<request, storing, unacted, acted, ledger, clients, flow,
                   counts, executions>>

StoreAssignment ==
    /\ creator = "assign"
    /\ \/ InsertAssignment(storing) /\ NoFault
       \/ row = None /\ UNCHANGED unacted /\ NoFault    \* foreign key
       \/ UNCHANGED unacted /\ Fault
    /\ IF storing < TotalApprovers
       THEN storing' = storing + 1 /\ UNCHANGED creator
       ELSE creator' = "done" /\ UNCHANGED storing
    /\ UNCHANGED <<request, row, acted, ledger, clients, flow, counts,
                   executions>>

\* The server stops between two statements of the handler.
CreatorStops ==
    /\ creator \in {"insert", "assign"}
    /\ creator' = "done"
    /\ Fault
    /\ UNCHANGED <<request, storing, tables, clients, flow, counts, executions>>

----------------------------------------------------------------------------
(* SubmitDecision.  A delegation is checked and recorded, no more: the vote   *)
(* is that of the user who hands it in, who must be an approver.              *)

\* hasApproverActed reads one of the user's assignments; without any it fails.
CheckActed(u) ==
    /\ wf # "done"                      \* later ones change nothing
    /\ Cardinality(checked) + Len(signals) < MaxPending
    /\ u \notin checked
    /\ unacted[u] > 0
    /\ checked' = checked \cup {u}
    /\ UNCHANGED <<request, handler, tables, signals, first, flow, counts,
                   executions, faults>>

\* SignalWorkflow delivers to a running workflow only.
SendSignal(u, action) ==
    /\ u \in checked
    /\ checked' = checked \ {u}
    /\ \/ /\ wf # "done"
          /\ signals' = Append(signals, [by |-> u, action |-> action])
          /\ first' = IF first[u] = None THEN [first EXCEPT ![u] = action]
                                         ELSE first
       \/ wf = "done" /\ UNCHANGED <<signals, first>>
    /\ UNCHANGED <<request, handler, tables, flow, counts, executions, faults>>

----------------------------------------------------------------------------
(* ExecuteApprovalWorkflow *)

\* The workflow goes on at another place, with or without a decision.
Goto(next) == wf' = next /\ UNCHANGED <<slot, voter, decision>>
Decided(d, next) == decision' = d /\ wf' = next /\ UNCHANGED <<slot, voter>>

\* An activity answers, and the workflow goes on with step; or an attempt
\* fails and is repeated from the activity's first statement, or was the last.
Answers(step) == tries' = 0 /\ step /\ NoFault
Fails(begin, giveUp) ==
    \/ tries + 1 < MaxAttempts /\ tries' = tries + 1 /\ Goto(begin)
    \/ tries + 1 = MaxAttempts /\ tries' = 0 /\ giveUp
Continues(next) == UNCHANGED tries /\ Goto(next) /\ NoFault

InitFails == Fails("insert", Decided("CANCELLED", "done"))

\* InitializeApprovalRequestActivity
InitializeRequest ==
    /\ wf = "insert"
    /\ \/ InsertRequest /\ (Continues("assign") \/ (InitFails /\ Fault))
       \/ Conflict /\ InitFails /\ NoFault
       \/ UNCHANGED row /\ InitFails /\ Fault
    /\ UNCHANGED <<request, handler, unacted, acted, ledger, clients, counts,
                   executions>>

\* The first notifications change nothing that is modelled; then the timer is
\* set, unless the deadline has passed already.
SetTimer ==
    IF request.hours > 0 THEN Goto("wait") ELSE Decided("EXPIRED", "done")

\* The row is this attempt's own: only it gets as far as the assignments.
AssignApprover ==
    /\ wf = "assign"
    /\ \/ /\ InsertAssignment(slot)
          /\ \/ /\ slot < TotalApprovers
                /\ slot' = slot + 1
                /\ NoFault
                /\ UNCHANGED <<wf, voter, tries, decision>>
             \/ slot = TotalApprovers /\ Answers(SetTimer)
             \/ InitFails /\ Fault
       \/ UNCHANGED unacted /\ InitFails /\ Fault
    /\ UNCHANGED <<request, handler, row, acted, ledger, clients, counts,
                   executions>>

\* Mutant of Ignored: a second decision is not recognised.
IgnoredOutsider(s) == s.by \notin Approvers

\* The signal callback up to the activity.
Ignored(s) == s.by \notin Approvers \/ actionsMap[s.by] # None

Receive ==
    /\ wf = "wait"
    /\ signals # <<>>
    /\ signals' = Tail(signals)
    /\ LET s == Head(signals) IN
       \/ Ignored(s) /\ UNCHANGED <<wf, voter, counts>>
       \/ /\ ~Ignored(s)
          /\ voter' = s.by
          /\ actionsMap' = [actionsMap EXCEPT ![s.by] = s.action]
          /\ approvals' = approvals + (IF s.action = "APPROVE" THEN 1 ELSE 0)
          /\ rejections' = rejections + (IF s.action = "REJECT" THEN 1 ELSE 0)
          /\ wf' = "record"
    /\ UNCHANGED <<request, handler, tables, checked, first, slot, tries,
                   decision, executions, faults>>

\* The rest of the callback; the activity's error is not looked at.
Approved == approvals >= request.quorum
\* Mutant of Rejected: one rejection too early.
RejectedEarly ==
    \/ rejections >= TotalApprovers - request.quorum
    \/ approvals + rejections >= TotalApprovers
Rejected ==
    \/ rejections > TotalApprovers - request.quorum
    \/ approvals + rejections >= TotalApprovers

CheckQuorum ==
    /\ voter' = None
    /\ UNCHANGED slot
    /\ \/ Approved /\ decision' = "APPROVED" /\ wf' = "execute"
       \/ ~Approved /\ Rejected /\ decision' = "REJECTED" /\ wf' = "finalize"
       \/ ~Approved /\ ~Rejected /\ UNCHANGED decision /\ wf' = "wait"

RecordFails == Fails("record", CheckQuorum)

\* Mutant of RecordAction: an error of the ledger is not looked at.
RecordActionAnyway ==
    /\ wf = "record"
    /\ \/ ledger' = [ledger EXCEPT ![voter] = @ + 1] /\ NoFault
       \/ UNCHANGED ledger /\ Fault
    /\ UNCHANGED tries
    /\ Goto("update")
    /\ UNCHANGED <<request, handler, row, unacted, acted, clients, counts,
                   executions>>

\* RecordApprovalActionActivity: first the ledger, then the assignments.
RecordAction ==
    /\ wf = "record"
    /\ \/ /\ ledger' = [ledger EXCEPT ![voter] = @ + 1]
          /\ Continues("update") \/ (RecordFails /\ Fault)
       \/ UNCHANGED ledger /\ RecordFails /\ Fault
    /\ UNCHANGED <<request, handler, row, unacted, acted, clients, counts,
                   executions>>

MarkActed(u) ==
    /\ acted' = [acted EXCEPT ![u] = @ + unacted[u]]
    /\ unacted' = [unacted EXCEPT ![u] = 0]

UpdateAssignment ==
    /\ wf = "update"
    /\ \/ MarkActed(voter) /\ (Answers(CheckQuorum) \/ (RecordFails /\ Fault))
       \/ UNCHANGED <<unacted, acted>> /\ RecordFails /\ Fault
    /\ UNCHANGED <<request, handler, row, ledger, clients, counts, executions>>

\* Mutants of Expire: an expired request is not finalized; the deadline is
\* looked at only as long as nobody has approved.
ExpireUnfinalized ==
    /\ wf = "wait"
    /\ Decided("EXPIRED", "done")
    /\ UNCHANGED <<request, handler, tables, clients, tries, counts,
                   executions, faults>>
ExpireUntouched ==
    /\ wf = "wait"
    /\ approvals = 0
    /\ Decided("EXPIRED", "finalize")
    /\ UNCHANGED <<request, handler, tables, clients, tries, counts,
                   executions, faults>>

\* The timer's callback: runs only when the loop selects it.
Expire ==
    /\ wf = "wait"
    /\ Decided("EXPIRED", "finalize")
    /\ UNCHANGED <<request, handler, tables, clients, tries, counts,
                   executions, faults>>

\* ExecuteApprovedActionActivity: its failure is noted, no more.
ExecuteFails == Fails("execute", Goto("finalize"))

ExecuteAction ==
    /\ wf = "execute"
    /\ \/ /\ executions' = executions + 1
          /\ Answers(Goto("finalize")) \/ (ExecuteFails /\ Fault)
       \/ UNCHANGED executions /\ ExecuteFails /\ Fault
    /\ UNCHANGED <<request, handler, tables, clients, counts>>

\* FinalizeApprovalWorkflowActivity: UPDATE approval_requests.
FinalizeFails == Fails("finalize", Goto("done"))

Finalize ==
    /\ wf = "finalize"
    /\ \/ /\ row' = decision
          /\ Answers(Goto("done")) \/ (FinalizeFails /\ Fault)
       \/ UNCHANGED row /\ FinalizeFails /\ Fault
    /\ UNCHANGED <<request, handler, unacted, acted, ledger, clients, counts,
                   executions>>

Creation == StartWorkflow \/ StoreRequest \/ StoreAssignment \/ CreatorStops
Submission ==
    \/ \E u \in Users : CheckActed(u)
    \/ \E u \in Users, action \in Decisions : SendSignal(u, action)
Activity ==
    \/ InitializeRequest \/ AssignApprover
    \/ RecordAction \/ UpdateAssignment
    \/ ExecuteAction \/ Finalize

Next == Creation \/ Submission \/ Activity \/ Receive \/ Expire

Spec == Init /\ [][Next]_vars

\* Temporal repeats an activity until it has answered, and its timers fire.
FairSpec == Spec /\ WF_vars(Activity) /\ WF_vars(Expire)

----------------------------------------------------------------------------
(* Properties *)

\* The workflow keeps the promises of a vote of M out of N, whatever fails,
\* is repeated or arrives late, and although it counts in counters, takes a
\* vote in several steps and lets the timer in between (ExecuteApprovalWorkflow).
Quorum == INSTANCE QuorumDecision WITH
    members <- Approvers, quorum <- request.quorum, votes <- actionsMap,
    performed <- executions > 0
RefinesQuorum == Quorum!Spec

\* The decision that counts is the first one the user handed in, however many
\* passed hasApproverActed before the first was recorded (SubmitDecision).
FirstDecisionCounts ==
    \A u \in Users : actionsMap[u] # None => actionsMap[u] = first[u]

\* Whoever is shown as having acted has an entry in the ledger, and whoever has
\* an entry has voted (RecordApprovalActionActivity).
ActedIsRecorded ==
    \A u \in Users : /\ acted[u] > 0 => ledger[u] > 0
                     /\ ledger[u] > 0 => actionsMap[u] # None

\* The approved action runs on the strength of a quorum whose entries are all in
\* the ledger, unless recording one of them has failed for good; the first vote
\* missing takes MaxAttempts faults.
ExecutedOnRecord ==
    executions > 0 /\ faults < MaxAttempts =>
        Cardinality({u \in Approvers : actionsMap[u] = "APPROVE"
                                      /\ ledger[u] > 0}) >= request.quorum

\* What is shown as done is on record (RecordApprovalActionActivity).
VotesOnRecord == ActedIsRecorded /\ ExecutedOnRecord

\* The status in the database, once final, is the workflow's decision and stays,
\* although the creating handler may write the row at any time.
StatusFinal == [][(row \in Final) => UNCHANGED row]_vars

\* Without failures a request whose workflow has ended is closed in the database
\* with the workflow's decision, unless the workflow lost the race to create the
\* row or was given no time.
ClosedWithDecision ==
    wf = "done" /\ faults = 0 /\ decision # "CANCELLED" /\ request.hours > 0
        => row = decision

\* Every workflow that is started ends, although approvers may abstain or stay
\* silent and every activity may fail (the timer and the bounded retries).
WorkflowEnds == (wf # "none") ~> (wf = "done")

\* docs/README.md, "Automatic expiration handling": a request does not stay
\* pending when its workflow is over.
NotLeftPending == ~(wf = "done" /\ creator = "done" /\ row = "PENDING")
=============================================================================
