---------------------------- MODULE LeaveRequests ----------------------------
(***************************************************************************)
(* The life of a leave request: submit with its balance reservation,       *)
(* two-step approval, rejection, cancellation, the HR edit, and the bulk   *)
(* cancel of a schedule change.                                            *)
(*                                                                         *)
(* A request handler is an async function: between two awaits of a query   *)
(* any other handler may run.  A handler in flight is a process p; proc[p] *)
(* is what it has read and intends to write.  PostgreSQL runs READ         *)
(* COMMITTED.  Only submit opens a transaction.                            *)
(*                                                                         *)
(* Repository.save of TypeORM is three steps: the row is loaded and the    *)
(* patch laid over it (Load), save selects the row again and keeps the     *)
(* columns that differ (Diff), one UPDATE writes those columns (Write).    *)
(*                                                                         *)
(* Left out: texts, timestamps and the columns that only record who acted, *)
(* notifications, the objects of an attachment.  working_days is counted   *)
(* in half days, and day_portion is read off it: a half day is the only    *)
(* request of one half.                                                    *)
(***************************************************************************)
EXTENDS Integers, FiniteSets, Totals

CONSTANTS
    Procs,            \* handlers that may be in flight at once
    Employees, Users, \* Employees \subseteq Users
    Types,            \* leave types
    HalfDayTypes,     \* HALF_DAY_LEAVE_TYPES
    WorkDays,         \* days on the employee's active schedule
    SysAdmins,        \* users with system_admin
    ApproveAny,       \* users with LEAVE:ApproveAny
    Approvers,        \* users with LEAVE:Approve
    Deleters,         \* users with LEAVE:Delete
    Editors,          \* users with LEAVE:Update
    Chains,           \* the approval chains HR may configure
    InitAllowance,    \* allocation of an employee at creation, per type
    GrantAmounts,     \* amounts HR grants
    Deactivable,      \* users HR may deactivate or reactivate
    MaxReq,           \* bound on the number of requests
    MaxDay,           \* bound on the calendar
    LastToday,        \* bound on the clock
    MaxAllowance,     \* bound on the allowance of a key
    None              \* SQL null, an absent row, no process

Days   == 1..MaxDay
ReqIds == 1..MaxReq
Keys   == Employees \X Types
Steps  == [l1 : Users \cup {None}, l2 : Users \cup {None}]

ASSUME ConstantsAssumption ==
    /\ Employees \subseteq Users
    /\ SysAdmins \subseteq Users /\ Editors \subseteq Users
    /\ Chains \subseteq Steps
    /\ None \notin Users \cup Procs \cup ReqIds
    /\ MaxReq \in Nat /\ MaxDay \in Nat \ {0} /\ LastToday \in Days /\ MaxAllowance \in Nat
    /\ WorkDays \subseteq Days /\ Deactivable \subseteq Users
    /\ GrantAmounts \subseteq Nat \ {0}
    /\ InitAllowance \in [Types -> Nat]

VARIABLES
    req,        \* leave_requests: the row of each id, or None
    allowance,  \* SUM(leave_allocations.amount) of each (employee, type)
    lock,       \* holder of the FOR UPDATE lock on the allocation rows of a key
    chain,      \* active approval chain of each employee
    active,     \* users with is_active
    today,      \* LeaveDayCountService.today()
    proc,       \* handlers in flight
    signed,     \* history: who has decided to approve each request
    touched,    \* history: requests whose booking was edited or revived
    checked     \* history: rows that existed when a request's overlap check ran

history == <<signed, touched, checked>>
environment == <<allowance, chain, active, today>>
vars == <<req, allowance, lock, chain, active, today, proc, signed, touched, checked>>
-----------------------------------------------------------------------------
(***************************************************************************)
(* Rows                                                                    *)
(***************************************************************************)
PendingStatuses == {"pending_l1", "pending_l2"}
ActiveStatuses  == PendingStatuses \cup {"approved"}
Statuses        == ActiveStatuses \cup {"rejected", "cancelled"}

Row == [emp : Employees, type : Types, start : Days, end : Days, days : Nat \ {0},
        status : Statuses, l1 : Users, l2 : Users \cup {None}]

ASSUME NoneAssumption == None \notin Row

\* The columns an update may name; the others are written at insert only.
Columns == {"type", "start", "end", "days", "status"}

\* The row that takes the columns cols from new and the others from old.
Merge(cols, new, old) ==
    [emp    |-> old.emp, l1 |-> old.l1, l2 |-> old.l2,
     type   |-> IF "type" \in cols THEN new.type ELSE old.type,
     start  |-> IF "start" \in cols THEN new.start ELSE old.start,
     end    |-> IF "end" \in cols THEN new.end ELSE old.end,
     days   |-> IF "days" \in cols THEN new.days ELSE old.days,
     status |-> IF "status" \in cols THEN new.status ELSE old.status]

Exists(id)   == req[id] # None
IsActive(id) == Exists(id) /\ req[id].status \in ActiveStatuses
KeyOf(row)   == <<row.emp, row.type>>

\* Rows that count against the balance of key k, and their working days.
Consuming(k) == {id \in ReqIds : IsActive(id) /\ KeyOf(req[id]) = k}
DaysOf(ids)  == [id \in ReqIds |-> IF id \in ids THEN req[id].days ELSE 0]
Consumed(k)  == Total(DaysOf(Consuming(k)), MaxReq)

\* Two ranges overlap unless one ends before the other starts.
Overlap_Strict(s1, e1, s2, e2) == ~ (e1 <= s2 \/ s1 >= e2)                 \* mutant
Overlap(s1, e1, s2, e2) == ~ (e1 < s2 \/ s1 > e2)
FindOverlapping(e, s, f) ==
    {id \in ReqIds : IsActive(id) /\ req[id].emp = e
                        /\ Overlap(req[id].start, req[id].end, s, f)}

\* The working days a submittable range charges: the scheduled days, or half
\* a day on a single date of a type that may be halved.
Charges(t, s, e) ==
    {2 * Cardinality(WorkDays \cap s..e)} \cup (IF s = e /\ t \in HalfDayTypes THEN {1} ELSE {})
SubmittableRange(s, e) == s <= e /\ s >= today /\ s \in WorkDays /\ e \in WorkDays
-----------------------------------------------------------------------------
(***************************************************************************)
(* Handlers in flight                                                      *)
(***************************************************************************)
Idle == [pc |-> "idle"]
Rows == {id \in ReqIds : Exists(id)}
SubmitPcs == {"overlap", "lock", "balance", "insert"}
Submitting == {p \in Procs : proc[p].pc \in SubmitPcs}

Goto(p, r)  == proc' = [proc EXCEPT ![p] = r]
Finish(p)   == Goto(p, Idle)
Unlock(p)   == lock' = [k \in Keys |-> IF lock[k] = p THEN None ELSE lock[k]]

\* The employee's chain has a first step, without which nobody may submit.
HasFirstStep_Unchecked(e) == TRUE                                          \* mutant
HasFirstStep(e) == chain[e].l1 # None

\* submit, up to the chain snapshot: the range rules, then a chain with an L1.
SubmitBegin(p) ==
    /\ proc[p] = Idle
    /\ Cardinality(Rows) + Cardinality(Submitting) < MaxReq   \* bound
    /\ \E e \in Employees \cap active, t \in Types, s \in Days, f \in Days :
        /\ SubmittableRange(s, f)
        /\ HasFirstStep(e)
        /\ \E d \in Charges(t, s, f) :
            Goto(p, [pc  |-> "overlap",
                     row |-> [emp |-> e, type |-> t, start |-> s, end |-> f, days |-> d,
                              status |-> "pending_l1", l1 |-> chain[e].l1, l2 |-> chain[e].l2]])
    /\ UNCHANGED <<req, lock, environment, history>>

\* submit: findOverlapping, outside the transaction.
SubmitCheckOverlap(p) ==
    /\ proc[p].pc = "overlap"
    /\ LET row == proc[p].row IN
        IF FindOverlapping(row.emp, row.start, row.end) = {}
        THEN Goto(p, [pc |-> "lock", row |-> row, saw |-> Rows])
        ELSE Finish(p)
    /\ UNCHANGED <<req, lock, environment, history>>

\* sumForUpdate: with no allocation row there is nothing to lock and the sum is 0.
LockFree_NoLock(k) == TRUE                                                \* mutant
LockFree(k) == lock[k] = None
SubmitLock(p) ==
    /\ proc[p].pc = "lock"
    /\ LET k == KeyOf(proc[p].row) IN
        /\ IF allowance[k] > 0
           THEN LockFree(k) /\ lock' = [lock EXCEPT ![k] = p]
           ELSE UNCHANGED lock
        /\ Goto(p, [pc |-> "balance", row |-> proc[p].row, saw |-> proc[p].saw,
                    sum |-> allowance[k]])
    /\ UNCHANGED <<req, environment, history>>

\* sumConsumedForEmployeeType and the balance rule; a refusal rolls back.
RollBack_KeepsLock(p) == UNCHANGED lock                                   \* mutant
RollBack(p) == Unlock(p)
SubmitCheckBalance(p) ==
    /\ proc[p].pc = "balance"
    /\ LET row == proc[p].row
           k   == KeyOf(row) IN
        IF proc[p].sum - Consumed(k) < row.days
        THEN Finish(p) /\ RollBack(p)
        ELSE Goto(p, [pc |-> "insert", row |-> row, saw |-> proc[p].saw]) /\ UNCHANGED lock
    /\ UNCHANGED <<req, environment, history>>

\* The insert and the commit that releases the locks.
SubmitInsert(p) ==
    /\ proc[p].pc = "insert"
    /\ \E id \in ReqIds :
        /\ ~ Exists(id) /\ \A j \in 1..(id - 1) : Exists(j)
        /\ req' = [req EXCEPT ![id] = proc[p].row]
        /\ checked' = [checked EXCEPT ![id] = proc[p].saw]
    /\ Finish(p)
    /\ Unlock(p)
    /\ UNCHANGED <<environment, signed, touched>>
-----------------------------------------------------------------------------
(***************************************************************************)
(* Decisions.  ReadRow: findById or findAggregateById; the caller's account *)
(* was active when the request was authenticated.                          *)
(***************************************************************************)
ReadRow(p, u, id) == proc[p] = Idle /\ u \in active /\ Exists(id)

\* The handler will save the columns cols of new over row id.
SavePatch(p, id, cols, new) == Goto(p, [pc |-> "load", id |-> id, cols |-> cols, row |-> new])

Overrides(u) == u \in SysAdmins \cup ApproveAny
StepApprover(row) ==
    CASE row.status = "pending_l1" -> row.l1
      [] row.status = "pending_l2" -> row.l2
      [] OTHER -> None
IsActionableBy(row, u) == Overrides(u) \/ (u \in Approvers /\ u = StepApprover(row))

NextStatus_NoSecondStep(row, override) == "approved"                      \* mutant
NextStatus_AlwaysSecondStep(row, override) ==                             \* mutant
    IF ~ override /\ row.status = "pending_l1" THEN "pending_l2" ELSE "approved"
NextStatusAfterApproval(row, override) ==
    IF ~ override /\ row.status = "pending_l1" /\ row.l2 # None THEN "pending_l2" ELSE "approved"

Signature(row, u) ==
    IF Overrides(u) THEN "override" ELSE IF row.status = "pending_l1" THEN "l1" ELSE "l2"

\* applyApproval on the row as it was read, then the update.
ApplyApproval(p, id, row, u) ==
    /\ SavePatch(p, id, {"status"},
                 [row EXCEPT !.status = NextStatusAfterApproval(row, Overrides(u))])
    /\ signed' = [signed EXCEPT ![id] = @ \cup {Signature(row, u)}]

\* approve: assertApprovable; an override skips the check of the step approver.
Approve(p, u, id) ==
    /\ ReadRow(p, u, id)
    /\ req[id].status \in PendingStatuses
    /\ IsActionableBy(req[id], u)
    /\ IF Overrides(u)
       THEN ApplyApproval(p, id, req[id], u)
       ELSE Goto(p, [pc |-> "approver", id |-> id, row |-> req[id]]) /\ UNCHANGED signed
    /\ UNCHANGED <<req, lock, environment, touched, checked>>

\* approve: the step approver, who is the caller, must still be active.
ApproveCheckApprover(p) ==
    /\ proc[p].pc = "approver"
    /\ LET row == proc[p].row IN
        IF StepApprover(row) \in active
        THEN ApplyApproval(p, proc[p].id, row, StepApprover(row))
        ELSE Finish(p) /\ UNCHANGED signed
    /\ UNCHANGED <<req, lock, environment, touched, checked>>

Reject(p, u, id) ==
    /\ ReadRow(p, u, id)
    /\ req[id].status \in PendingStatuses
    /\ IsActionableBy(req[id], u)
    /\ SavePatch(p, id, {"status"}, [req[id] EXCEPT !.status = "rejected"])
    /\ UNCHANGED <<req, lock, environment, history>>

MayCancel(row, u) == u = row.emp \/ u \in SysAdmins \cup Deleters
Cancel(p, u, id) ==
    /\ ReadRow(p, u, id)
    /\ req[id].status \in ActiveStatuses
    /\ req[id].end >= today
    /\ MayCancel(req[id], u)
    /\ SavePatch(p, id, {"status"}, [req[id] EXCEPT !.status = "cancelled"])
    /\ UNCHANGED <<req, lock, environment, history>>

\* The HR edit, pending only.  A patch that names a date, the type or the portion
\* re-validates the range and recounts the days from the row as it was read; any
\* other patch (the reason) names no modelled column and is saved all the same.
Edit(p, id, cols, new) ==
    /\ SubmittableRange(new.start, new.end)
    /\ \E d \in Charges(new.type, new.start, new.end) :
        SavePatch(p, id, cols \cup {"days"}, [new EXCEPT !.days = d])

Update(p, u, id) ==
    /\ ReadRow(p, u, id)
    /\ u \in Editors
    /\ req[id].status \in PendingStatuses
    /\ \/ SavePatch(p, id, {}, req[id])
       \/ \E cols \in SUBSET {"type", "start", "end"}, t \in Types, s \in Days, e \in Days :
            Edit(p, id, cols, Merge(cols, [req[id] EXCEPT !.type = t, !.start = s, !.end = e], req[id]))
    /\ UNCHANGED <<req, lock, environment, history>>
-----------------------------------------------------------------------------
(***************************************************************************)
(* repository.update: findOneOrFail, Object.assign, save.                  *)
(***************************************************************************)
SaveLoad(p) ==
    /\ proc[p].pc = "load"
    /\ Goto(p, [pc |-> "diff", id |-> proc[p].id,
                row |-> Merge(proc[p].cols, proc[p].row, req[proc[p].id])])
    /\ UNCHANGED <<req, lock, environment, history>>

SaveDiff(p) ==
    /\ proc[p].pc = "diff"
    /\ LET id   == proc[p].id
           cols == {c \in Columns : proc[p].row[c] # req[id][c]} IN
        IF cols = {} THEN Finish(p)
        ELSE Goto(p, [pc |-> "write", id |-> id, cols |-> cols, row |-> proc[p].row])
    /\ UNCHANGED <<req, lock, environment, history>>

\* A write that makes a request hold days it did not hold before.
Rebooks(old, new) ==
    \/ old.status \notin ActiveStatuses /\ new.status \in ActiveStatuses
    \/ <<old.type, old.start, old.end, old.days>> # <<new.type, new.start, new.end, new.days>>

\* The CHECKs of the table: an ordered range, half a day on a single date.
Storable(row) == row.start <= row.end /\ (row.days = 1 => row.start = row.end)

\* The UPDATE, which fails when a CHECK refuses the row it would leave.
SaveWrite(p) ==
    /\ proc[p].pc = "write"
    /\ LET id  == proc[p].id
           new == Merge(proc[p].cols, proc[p].row, req[id]) IN
        IF Storable(new)
        THEN /\ req' = [req EXCEPT ![id] = new]
             /\ touched' = IF Rebooks(req[id], new) THEN touched \cup {id} ELSE touched
        ELSE UNCHANGED <<req, touched>>
    /\ Finish(p)
    /\ UNCHANGED <<lock, environment, signed, checked>>
-----------------------------------------------------------------------------
(***************************************************************************)
(* The rest of the system                                                  *)
(***************************************************************************)
\* systemCancel of a schedule change: one UPDATE guarded by the status.
SystemCancel(ids) ==
    /\ ids # {}
    /\ \A id \in ids : IsActive(id)
    /\ req' = [id \in ReqIds |->
                IF id \in ids
                THEN [req[id] EXCEPT !.status = "cancelled"]
                ELSE req[id]]
    /\ UNCHANGED <<lock, environment, proc, history>>

\* LeaveAllocationsService.grant appends a row.
Grant(k, n) ==
    /\ allowance[k] + n <= MaxAllowance                      \* bound
    /\ allowance' = [allowance EXCEPT ![k] = @ + n]
    /\ UNCHANGED <<req, lock, chain, active, today, proc, history>>

SetChain(e, c) ==
    /\ c # chain[e] /\ e \notin {c.l1, c.l2}
    /\ chain' = [chain EXCEPT ![e] = c]
    /\ UNCHANGED <<req, lock, allowance, active, today, proc, history>>

SetActive(u) ==
    /\ active' = IF u \in active THEN active \ {u} ELSE active \cup {u}
    /\ UNCHANGED <<req, lock, allowance, chain, today, proc, history>>

NextDay ==
    /\ today < LastToday                                     \* bound
    /\ today' = today + 1
    /\ UNCHANGED <<req, lock, allowance, chain, active, proc, history>>

\* A query fails, or the server stops: an open transaction rolls back and
\* nothing else of the handler remains.
Abort(p) ==
    /\ proc[p] # Idle
    /\ Finish(p)
    /\ Unlock(p)
    /\ UNCHANGED <<req, environment, history>>
-----------------------------------------------------------------------------
Init ==
    /\ req = [id \in ReqIds |-> None]
    /\ allowance = [k \in Keys |-> InitAllowance[k[2]]]
    /\ lock = [k \in Keys |-> None]
    /\ chain \in [Employees -> {c \in Chains : c.l1 \notin Employees /\ c.l2 \notin Employees}]
    /\ active = Users
    /\ today = 1
    /\ proc = [p \in Procs |-> Idle]
    /\ signed = [id \in ReqIds |-> {}]
    /\ touched = {}
    /\ checked = [id \in ReqIds |-> {}]

HandlerStep(p) ==
    \/ SubmitCheckOverlap(p) \/ SubmitLock(p) \/ SubmitCheckBalance(p) \/ SubmitInsert(p)
    \/ ApproveCheckApprover(p)
    \/ SaveLoad(p) \/ SaveDiff(p) \/ SaveWrite(p)

Request(p) ==
    \/ SubmitBegin(p)
    \/ \E u \in Users, id \in ReqIds :
        \/ Approve(p, u, id) \/ Reject(p, u, id) \/ Cancel(p, u, id) \/ Update(p, u, id)

Environment ==
    \/ \E ids \in SUBSET ReqIds : SystemCancel(ids)
    \/ \E k \in Keys, n \in GrantAmounts : Grant(k, n)
    \/ \E e \in Employees, c \in Chains : SetChain(e, c)
    \/ \E u \in Deactivable : SetActive(u)
    \/ NextDay

Next ==
    \/ \E p \in Procs : Request(p) \/ HandlerStep(p) \/ Abort(p)
    \/ Environment

Spec == Init /\ [][Next]_vars

\* A query that is sent is answered; PostgreSQL queues the waiters of a row lock.
Fairness ==
    \A p \in Procs : WF_vars(HandlerStep(p)) /\ SF_vars(SubmitLock(p))

FairSpec == Spec /\ Fairness
-----------------------------------------------------------------------------
(***************************************************************************)
(* Properties                                                              *)
(***************************************************************************)
NewRow == {row \in Row : row.status = "pending_l1"}
ProcStates ==
    [pc : {"idle"}]
      \cup [pc : {"overlap"}, row : NewRow]
      \cup [pc : {"lock", "insert"}, row : NewRow, saw : SUBSET ReqIds]
      \cup [pc : {"balance"}, row : NewRow, saw : SUBSET ReqIds, sum : Nat]
      \cup [pc : {"approver"}, id : ReqIds, row : Row]
      \cup [pc : {"load", "write"}, id : ReqIds, cols : SUBSET Columns, row : Row]
      \cup [pc : {"diff"}, id : ReqIds, row : Row]

\* Every variable has its type; what a handler means to save is a whole row.
TypeOK ==
    /\ req \in [ReqIds -> Row \cup {None}]
    /\ allowance \in [Keys -> Nat]
    /\ lock \in [Keys -> Procs \cup {None}]
    /\ chain \in [Employees -> Steps]
    /\ active \subseteq Users
    /\ today \in Days
    /\ proc \in [Procs -> ProcStates]
    /\ signed \in [ReqIds -> SUBSET {"l1", "l2", "override"}]
    /\ touched \subseteq ReqIds
    /\ checked \in [ReqIds -> SUBSET ReqIds]

\* Reserve-on-submit: requests that hold days as their own submit booked them
\* never take more than the employee was allotted for the type, whatever other
\* submits, cancellations, grants, approvals and edits ran in between.
ReservationsFitAllowance ==
    \A k \in Keys :
        Total(DaysOf(Consuming(k) \ touched), MaxReq) <= allowance[k]

\* Two active requests of an employee overlap only when neither row existed as
\* the other's overlap check ran (or an edit or a stale save moved one of them).
OverlapsOnlyUnseen ==
    \A i, j \in ReqIds :
        (/\ i # j /\ {i, j} \cap touched = {} /\ IsActive(i) /\ IsActive(j)
         /\ req[i].emp = req[j].emp
         /\ req[i].start <= req[j].end /\ req[j].start <= req[i].end)
        => i \notin checked[j]

\* No request is approved without the decisions its snapshot of the chain asks
\* for, however stale the row each handler decided on and saved over.
FullySigned(id) ==
    \/ "override" \in signed[id]
    \/ "l1" \in signed[id] /\ (req[id].l2 = None \/ "l2" \in signed[id])
ApprovedIsSigned ==
    \A id \in ReqIds : Exists(id) /\ req[id].status = "approved" => FullySigned(id)

\* No request is parked on a second step that has no approver, where only an
\* override could move it.
NoStepWithoutApprover ==
    \A id \in ReqIds : Exists(id) /\ req[id].status = "pending_l2" => req[id].l2 # None

\* Every handler answers: no submit waits for ever on the allocation rows that
\* another one locked, refused or not.
HandlersFinish == \A p \in Procs : (proc[p] # Idle) ~> (proc[p] = Idle)

\* What submit's comment promises: two active requests never share a day.
NoDoubleBooking ==
    \A i, j \in ReqIds :
        (i # j /\ IsActive(i) /\ IsActive(j) /\ req[i].emp = req[j].emp)
        => ~ Overlap(req[i].start, req[i].end, req[j].start, req[j].end)

\* What LeaveStatus promises: rejected and cancelled are terminal.
TerminalIsFinal ==
    [][\A id \in ReqIds :
        Exists(id) /\ req[id].status \notin ActiveStatuses => req'[id].status = req[id].status]_req
=============================================================================
