--------------------------- MODULE TimeCorrections ---------------------------
(***************************************************************************)
(* Time-correction requests and the timesheet they are applied to.         *)
(*                                                                         *)
(* A request asks to change an entry (target) or to add the log of a day   *)
(* (target None).  The final approval writes the timesheet first, through  *)
(* applyCorrection of TimeEntries, and then saves the request; no step of  *)
(* it runs in a transaction.                                               *)
(*                                                                         *)
(* Left out: reason, decision note, and the columns that record who acted; *)
(* the events; deleted requests, which no code produces.                   *)
(***************************************************************************)
EXTENDS TimeEntries, FiniteSets

CONSTANTS
    Proposals,   \* the [date, in, out] an employee proposes
    Edits,       \* the patches HR edits a request with
    Chains,      \* the approval chains HR may configure
    Deactivable, \* users HR may deactivate or reactivate
    MaxReq,      \* bound on the number of requests
    MaxCalls     \* bound on the number of handlers that ever start

ReqIds == 1..MaxReq

ASSUME CorrectionConstants == MaxReq \in Nat /\ MaxCalls \in Nat /\ Deactivable \subseteq Users

VARIABLES
    req,      \* time_correction_requests: the row of each id, or None
    calls,    \* handlers started so far
    chain,    \* active approval chain of each employee
    signed,   \* history: who has decided to approve each request
    applied,  \* history: requests whose correction was written to the timesheet
    checked,  \* history: requests that existed when a request's duplicate check ran
    revived   \* history: requests that a stale save made active again

reqVars == <<req, chain, signed, applied, checked, revived>>
vars == <<entry, raced, now, active, proc, calls, req, chain, signed, applied, checked, revived>>
-----------------------------------------------------------------------------
PendingStatuses == {"pending_l1", "pending_l2"}
ActiveStatuses  == PendingStatuses \cup {"approved"}
Statuses        == ActiveStatuses \cup {"rejected", "cancelled"}

ReqRow == [emp : Employees, target : EntryIds \cup {None}, date : WorkDates, in : Ticks,
           out : Ticks \cup {None}, status : Statuses, l1 : Users, l2 : Users \cup {None}]

\* A patch of a request: a decision or the HR edit, which leaves the snapshot alone.
ReqPatch(patch) ==
    /\ DOMAIN patch \subseteq {"date", "in", "out", "status"}
    /\ "date" \in DOMAIN patch => patch.date \in WorkDates
    /\ "in" \in DOMAIN patch => patch.in \in Ticks
    /\ "out" \in DOMAIN patch => patch.out \in Ticks \cup {None}
    /\ "status" \in DOMAIN patch => patch.status \in Statuses

ASSUME CorrectionInputs ==
    /\ Proposals \subseteq [date : WorkDates, in : Ticks, out : Ticks \cup {None}]
    /\ \A patch \in Edits : ReqPatch(patch) /\ "status" \notin DOMAIN patch
    /\ Chains \subseteq [l1 : Users \cup {None}, l2 : Users \cup {None}]
    /\ None \notin ReqRow

Requests        == Present(req, None)
IsPending(id) == id \in Requests /\ req[id].status \in PendingStatuses
IsActive(id)  == id \in Requests /\ req[id].status \in ActiveStatuses

FindActiveForEntry_PendingOnly(t) == {id \in ReqIds : IsPending(id) /\ req[id].target = t}  \* mutant
FindActiveForEntry(t) == {id \in ReqIds : IsActive(id) /\ req[id].target = t}
FindActiveForEmployeeDate(e, d) ==
    {id \in ReqIds : IsActive(id) /\ req[id].emp = e /\ req[id].date = d}
ActiveNewLogs(e, d) == {id \in FindActiveForEmployeeDate(e, d) : req[id].target = None}

\* A new log needs a time_out and a day that is not in the future.
NewLogContract(row) == row.target = None => row.out # None /\ row.date <= DayOf(now)
-----------------------------------------------------------------------------
(***************************************************************************)
(* submit                                                                  *)
(***************************************************************************)
Submitting == {p \in Procs : proc[p].pc \in {"tc_owner", "tc_entry", "tc_date", "tc_day", "tc_insert"}}

\* Up to the chain snapshot, which must have a first step.
Submit(p, e, target, w) ==
    /\ proc[p] = Idle /\ MayCall(e, "TIME_CORRECTION:Create")
    /\ Cardinality(Requests) + Cardinality(Submitting) < MaxReq  \* bound
    /\ ValidWindow(w.in, w.out)
    /\ chain[e].l1 # None
    /\ Goto(p, [pc  |-> IF target # None THEN "tc_owner" ELSE "tc_date",
                row |-> [emp |-> e, target |-> target, date |-> w.date, in |-> w.in, out |-> w.out,
                         status |-> "pending_l1", l1 |-> chain[e].l1, l2 |-> chain[e].l2]])
    /\ UNCHANGED <<entryVars, now, active, reqVars>>

\* The target must be an entry of the submitter.
SubmitCheckOwner(p) ==
    /\ proc[p].pc = "tc_owner"
    /\ LET row == proc[p].row IN
        IF NotDeleted(row.target) /\ entry[row.target].emp = row.emp
        THEN Goto(p, [pc |-> "tc_entry", row |-> row])
        ELSE Finish(p)
    /\ UNCHANGED <<entryVars, now, active, reqVars>>

\* One active correction per entry, one active new log per date.
SubmitCheckDuplicate(p) ==
    /\ proc[p].pc \in {"tc_entry", "tc_date"}
    /\ LET row == proc[p].row
           same == IF row.target # None THEN FindActiveForEntry(row.target)
                                        ELSE ActiveNewLogs(row.emp, row.date)
       IN IF same = {} /\ NewLogContract(row)
          THEN Goto(p, [pc |-> IF row.target # None THEN "tc_insert" ELSE "tc_day",
                        row |-> row, saw |-> Requests])
          ELSE Finish(p)
    /\ UNCHANGED <<entryVars, now, active, reqVars>>

\* A new log is for a day without an entry.
SubmitCheckDay(p) ==
    /\ proc[p].pc = "tc_day"
    /\ LET row == proc[p].row IN
        IF ExistsForEmployeeDate(row.emp, row.date)
        THEN Finish(p)
        ELSE Goto(p, [pc |-> "tc_insert", row |-> row, saw |-> proc[p].saw])
    /\ UNCHANGED <<entryVars, now, active, reqVars>>

SubmitInsert(p) ==
    /\ proc[p].pc = "tc_insert"
    /\ \E id \in NextId(req, None) :
        /\ req' = [req EXCEPT ![id] = proc[p].row]
        /\ checked' = [checked EXCEPT ![id] = proc[p].saw]
    /\ Finish(p)
    /\ UNCHANGED <<entryVars, now, active, chain, signed, applied, revived>>
-----------------------------------------------------------------------------
(***************************************************************************)
(* Decisions                                                               *)
(***************************************************************************)
SaveState(id, patch) == [pc |-> "tc_load", id |-> id, patch |-> patch]

Holds(u, code) == u \in Can[code]
Overrides(u) == u \in SysAdmins \/ Holds(u, "TIME_CORRECTION:ApproveAny")
CurrentStepApprover(row) ==
    CASE row.status = "pending_l1" -> row.l1
      [] row.status = "pending_l2" -> row.l2
      [] OTHER -> None
IsActionableBy_AnyStep(row, u) ==                                          \* mutant
    Overrides(u) \/ (Holds(u, "TIME_CORRECTION:Approve") /\ u \in {row.l1, row.l2})
IsActionableBy(row, u) ==
    Overrides(u) \/ (Holds(u, "TIME_CORRECTION:Approve") /\ u = CurrentStepApprover(row))
NextStatusAfterApproval(row, override) ==
    IF ~ override /\ row.status = "pending_l1" /\ row.l2 # None THEN "pending_l2" ELSE "approved"

\* applyApproval; the final one goes to the timesheet before it is saved.
DecidedGoto_RequestFirst(p, id, row, next) == Goto(p, SaveState(id, [status |-> next]))   \* mutant
DecidedGoto(p, id, row, next) ==
    IF next = "approved"
    THEN ApplyCorrection(p, [emp |-> row.emp, target |-> row.target, date |-> row.date,
                             in |-> row.in, out |-> row.out], SaveState(id, [status |-> next]))
    ELSE Goto(p, SaveState(id, [status |-> next]))
ApplyApproval(p, id, row, u) ==
    /\ DecidedGoto(p, id, row, NextStatusAfterApproval(row, Overrides(u)))
    /\ signed' = [signed EXCEPT ![id] = @ \cup {u}]

Approve(p, u, id) ==
    /\ proc[p] = Idle /\ u \in active
    /\ IsPending(id) /\ IsActionableBy(req[id], u)
    /\ IF Overrides(u)
       THEN ApplyApproval(p, id, req[id], u)
       ELSE Goto(p, [pc |-> "tc_approver", id |-> id, row |-> req[id], by |-> u])
            /\ UNCHANGED signed
    /\ UNCHANGED <<entryVars, now, active, req, chain, applied, checked, revived>>

\* The approver of the step must still be active.
ApproveCheckApprover(p) ==
    /\ proc[p].pc = "tc_approver"
    /\ LET row == proc[p].row IN
        IF CurrentStepApprover(row) \in active
        THEN ApplyApproval(p, proc[p].id, row, proc[p].by)
        ELSE Finish(p) /\ UNCHANGED signed
    /\ UNCHANGED <<entryVars, now, active, req, chain, applied, checked, revived>>

Reject(p, u, id) ==
    /\ proc[p] = Idle /\ u \in active
    /\ IsPending(id) /\ IsActionableBy(req[id], u)
    /\ Goto(p, SaveState(id, [status |-> "rejected"]))
    /\ UNCHANGED <<entryVars, now, active, reqVars>>

\* Only a pending request can be cancelled, by its owner or by HR.
MayCancel(row, u) ==
    u = row.emp \/ u \in SysAdmins \/ Holds(u, "TIME_CORRECTION:Delete")
Cancel(p, u, id) ==
    /\ proc[p] = Idle /\ u \in active
    /\ IsPending(id) /\ MayCancel(req[id], u)
    /\ Goto(p, SaveState(id, [status |-> "cancelled"]))
    /\ UNCHANGED <<entryVars, now, active, reqVars>>

\* The HR edit of a pending request: any of its columns, or only the reason.
Update(p, u, id, patch) ==
    /\ proc[p] = Idle /\ MayCall(u, "TIME_CORRECTION:Update")
    /\ IsPending(id)
    /\ ValidWindow(Patched(req[id], patch).in, Patched(req[id], patch).out)
    /\ Goto(p, SaveState(id, patch))
    /\ UNCHANGED <<entryVars, now, active, reqVars>>
-----------------------------------------------------------------------------
(***************************************************************************)
(* The repository                                                          *)
(***************************************************************************)
ReqLoad(p) ==
    /\ proc[p].pc = "tc_load"
    /\ Goto(p, [pc |-> "tc_diff", id |-> proc[p].id, row |-> Patched(req[proc[p].id], proc[p].patch)])
    /\ UNCHANGED <<entryVars, now, active, reqVars>>

ReqDiff(p) ==
    /\ proc[p].pc = "tc_diff"
    /\ Goto(p, [pc |-> "tc_write", id |-> proc[p].id, patch |-> Delta(proc[p].row, req[proc[p].id])])
    /\ UNCHANGED <<entryVars, now, active, reqVars>>

\* The UPDATE, which the CHECK of the window may refuse.
ReqWrite(p) ==
    /\ proc[p].pc = "tc_write"
    /\ LET id  == proc[p].id
           row == Patched(req[id], proc[p].patch) IN
        IF ValidWindow(row.in, row.out)
        THEN /\ req' = [req EXCEPT ![id] = row]
             /\ revived' = IF ~ IsActive(id) /\ row.status \in ActiveStatuses
                           THEN revived \cup {id} ELSE revived
        ELSE UNCHANGED <<req, revived>>
    /\ Finish(p)
    /\ UNCHANGED <<entryVars, now, active, chain, signed, applied, checked>>

\* A step of TimeEntries; when it ends the write of a correction, the request is
\* the one the handler goes on to save.
Timesheet(p) ==
    /\ EntryStep(p)
    /\ applied' = IF proc'[p].pc = "tc_load" THEN applied \cup {proc'[p].id} ELSE applied
    /\ UNCHANGED <<req, chain, signed, checked, revived>>
-----------------------------------------------------------------------------
(***************************************************************************)
(* The rest of the system                                                  *)
(***************************************************************************)
\* systemCancel of a schedule change: one UPDATE guarded by the status.
SystemCancel(ids) ==
    /\ ids # {} /\ \A id \in ids : IsActive(id)
    /\ req' = [id \in ReqIds |->
                IF id \in ids THEN [req[id] EXCEPT !.status = "cancelled"] ELSE req[id]]
    /\ UNCHANGED <<entryVars, now, active, proc, chain, signed, applied, checked, revived>>

SetChain(e, c) ==
    /\ c # chain[e] /\ e \notin {c.l1, c.l2}
    /\ chain' = [chain EXCEPT ![e] = c]
    /\ UNCHANGED <<entryVars, now, active, proc, req, signed, applied, checked, revived>>

SetActive(u) ==
    /\ active' = IF u \in active THEN active \ {u} ELSE active \cup {u}
    /\ UNCHANGED <<entryVars, now, proc, reqVars>>

\* A query fails or the server stops; what was written stays.
Abort(p) ==
    /\ proc[p] # Idle
    /\ Finish(p)
    /\ UNCHANGED <<entryVars, now, active, reqVars>>
-----------------------------------------------------------------------------
Init ==
    /\ EntryInit
    /\ calls = 0
    /\ req = [id \in ReqIds |-> None]
    /\ chain \in [Employees -> {c \in Chains : c.l1 \notin Employees /\ c.l2 \notin Employees}]
    /\ signed = [id \in ReqIds |-> {}]
    /\ applied = {}
    /\ checked = [id \in ReqIds |-> {}]
    /\ revived = {}

ReqStep(p) ==
    \/ SubmitCheckOwner(p) \/ SubmitCheckDuplicate(p) \/ SubmitCheckDay(p) \/ SubmitInsert(p)
    \/ ApproveCheckApprover(p)
    \/ ReqLoad(p) \/ ReqDiff(p) \/ ReqWrite(p)

\* The routes of the three controllers.
MeCorrections(p) ==
    \E e \in Employees :
        \/ \E t \in EntryIds \cup {None}, w \in Proposals : Submit(p, e, t, w)
        \/ \E id \in ReqIds : Cancel(p, e, id)
Corrections(p)   == \E u \in Users, id \in ReqIds : Approve(p, u, id) \/ Reject(p, u, id)
AdminCorrections(p) ==
    \E u \in Users, id \in ReqIds : Cancel(p, u, id) \/ \E patch \in Edits : Update(p, u, id, patch)

Environment ==
    \/ \E ids \in SUBSET ReqIds : SystemCancel(ids)
    \/ \E e \in Employees, c \in Chains : SetChain(e, c)
    \/ \E u \in Deactivable : SetActive(u)
    \/ Tick /\ UNCHANGED reqVars

Request(p) ==
    /\ calls < MaxCalls                                      \* bound
    /\ calls' = calls + 1
    /\ \/ (MeTimeEntries(p) \/ AdminTimeEntries(p)) /\ UNCHANGED reqVars
       \/ MeCorrections(p) \/ Corrections(p) \/ AdminCorrections(p)

Next ==
    \/ \E p \in Procs : Request(p)
    \/ (\E p \in Procs : Timesheet(p) \/ ReqStep(p) \/ Abort(p)) /\ UNCHANGED calls
    \/ Environment /\ UNCHANGED calls

Spec == Init /\ [][Next]_vars
-----------------------------------------------------------------------------
\* Every variable has its type.
TypeOK ==
    /\ EntryTypeOK /\ calls \in 0..MaxCalls
    /\ req \in [ReqIds -> ReqRow \cup {None}]
    /\ chain \in [Employees -> [l1 : Users \cup {None}, l2 : Users \cup {None}]]
    /\ signed \in [ReqIds -> SUBSET Users]
    /\ applied \subseteq Requests /\ revived \subseteq Requests
    /\ checked \in [ReqIds -> SUBSET ReqIds]

\* An approved request always has been written to the timesheet, wherever a
\* handler failed and however its decision raced with others.
ApprovedIsApplied == \A id \in Requests : req[id].status = "approved" => id \in applied

\* The timesheet is never written for a request that lacks the approval of someone
\* its snapshot of the chain names, however stale the row an approver decided on.
AppliedIsSigned ==
    \A id \in applied :
        \/ \E u \in signed[id] : Overrides(u)
        \/ req[id].l1 \in signed[id] /\ (req[id].l2 = None \/ req[id].l2 \in signed[id])

\* Two active requests correct the same entry only when neither existed as the
\* other's duplicate check ran, or a stale save revived one of them.
DuplicatesOnlyUnseen ==
    \A i, j \in Requests \ revived :
        (/\ i # j /\ IsActive(i) /\ IsActive(j)
         /\ req[i].target # None /\ req[i].target = req[j].target)
        => i \notin checked[j]
=============================================================================
