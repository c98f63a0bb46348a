------------------------- MODULE LeaveRequestsProofs -------------------------
(***************************************************************************)
(* Proofs about LeaveRequests, for any number of handlers, employees,      *)
(* types, requests, chains and days.                                       *)
(***************************************************************************)
EXTENDS LeaveRequests, FiniteSetTheorems, TLAPS

-----------------------------------------------------------------------------
(***************************************************************************)
(* What a handler holds, by its program counter.                           *)
(***************************************************************************)
LEMMA HandlerState ==
    ASSUME TypeOK, NEW p \in Procs
    PROVE  /\ proc[p].pc \in {"overlap", "lock", "balance", "insert"} =>
                proc[p].row \in NewRow /\ proc[p].row \in Row
           /\ proc[p].pc \in {"lock", "balance", "insert"} => proc[p].saw \in SUBSET ReqIds
           /\ proc[p].pc = "balance" => proc[p].sum \in Nat
           /\ proc[p].pc \in {"approver", "load", "diff", "write"} =>
                proc[p].id \in ReqIds /\ proc[p].row \in Row
           /\ proc[p].pc \in {"load", "write"} => proc[p].cols \subseteq Columns
<1>1. proc[p] \in ProcStates
  BY DEF TypeOK
<1> QED BY <1>1 DEF ProcStates, NewRow

\* Merging two rows gives a row of the old row's employee and approvers.
LEMMA MergeType ==
    ASSUME NEW cols, NEW new \in Row, NEW old \in Row
    PROVE  /\ Merge(cols, new, old) \in Row
           /\ Merge(cols, new, old).emp = old.emp
           /\ Merge(cols, new, old).l2 = old.l2
           /\ Merge(cols, new, old).status \in {new.status, old.status}
           /\ "status" \notin cols => Merge(cols, new, old).status = old.status
BY DEF Merge, Row

\* A submittable range charges at least half a day.
LEMMA ChargesPositive ==
    ASSUME NEW t, NEW s \in Days, NEW e \in Days, s \in WorkDays, s <= e
    PROVE  Charges(t, s, e) \subseteq Nat \ {0}
<1> USE ConstantsAssumption
<1> DEFINE W == WorkDays \cap s..e
<1>1. IsFiniteSet(s..e)
  BY FS_Interval DEF Days
<1>2. IsFiniteSet(W)
  BY <1>1, FS_Subset
<1>3. Cardinality(W) \in Nat /\ (Cardinality(W) = 0 <=> W = {})
  BY <1>2, FS_CardinalityType, FS_EmptySet
<1>4. s \in W
  BY DEF Days
<1>5. Cardinality(W) # 0
  BY <1>3, <1>4
<1>6. 2 * Cardinality(W) \in Nat \ {0}
  BY <1>3, <1>5
<1> QED BY <1>6 DEF Charges

\* A handler's next state is well typed when what it stores is.
LEMMA GotoType ==
    ASSUME TypeOK, NEW p \in Procs, NEW r \in ProcStates, Goto(p, r)
    PROVE  proc' \in [Procs -> ProcStates]
BY DEF TypeOK, Goto

\* A handler that answers leaves well-typed handlers.
LEMMA FinishType ==
    ASSUME TypeOK, NEW p \in Procs, Finish(p)
    PROVE  proc' \in [Procs -> ProcStates]
<1>1. Idle \in ProcStates
  BY DEF Idle, ProcStates
<1> QED BY <1>1, GotoType DEF Finish

\* Unlocking leaves a well-typed lock table.
LEMMA UnlockType ==
    ASSUME TypeOK, NEW p \in Procs, Unlock(p)
    PROVE  lock' \in [Keys -> Procs \cup {None}]
BY DEF TypeOK, Unlock

\* What SavePatch stores.
LEMMA SavePatchType ==
    ASSUME TypeOK, NEW p \in Procs, NEW id \in ReqIds, NEW cols \in SUBSET Columns,
           NEW new \in Row, SavePatch(p, id, cols, new)
    PROVE  proc' \in [Procs -> ProcStates]
<1>1. [pc |-> "load", id |-> id, cols |-> cols, row |-> new] \in ProcStates
  BY DEF ProcStates
<1> QED BY <1>1, GotoType DEF SavePatch

\* An approval parks a request on its second step or approves it.
LEMMA NextStatusType ==
    ASSUME NEW row, NEW o
    PROVE  NextStatusAfterApproval(row, o) \in {"pending_l2", "approved"}
BY DEF NextStatusAfterApproval

\* A row with another status is a row.
LEMMA RowWithStatus ==
    ASSUME NEW row \in Row, NEW s \in Statuses
    PROVE  [row EXCEPT !.status = s] \in Row
BY DEF Row

\* A decision leaves well-typed handlers and signatures.
LEMMA ApplyApprovalType ==
    ASSUME TypeOK, NEW p \in Procs, NEW id \in ReqIds, NEW row \in Row, NEW u,
           ApplyApproval(p, id, row, u)
    PROVE  /\ proc' \in [Procs -> ProcStates]
           /\ signed' \in [ReqIds -> SUBSET {"l1", "l2", "override"}]
<1> DEFINE s == NextStatusAfterApproval(row, Overrides(u))
<1>1. s \in Statuses
  BY NextStatusType DEF Statuses, ActiveStatuses, PendingStatuses
<1>2. [row EXCEPT !.status = s] \in Row
  <2> HIDE DEF s
  <2> QED BY <1>1, RowWithStatus
<1>3. proc' \in [Procs -> ProcStates]
  <2>1. SavePatch(p, id, {"status"}, [row EXCEPT !.status = s])
    BY DEF ApplyApproval
  <2> HIDE DEF s
  <2> QED BY <2>1, <1>2, SavePatchType DEF Columns
<1>4. Signature(row, u) \in {"l1", "l2", "override"}
  BY DEF Signature
<1>5. signed' \in [ReqIds -> SUBSET {"l1", "l2", "override"}]
  BY <1>4 DEF ApplyApproval, TypeOK
<1> QED BY <1>3, <1>5
-----------------------------------------------------------------------------
(***************************************************************************)
(* Types, one lemma per action.                                            *)
(***************************************************************************)
LEMMA SubmitBeginType ==
    ASSUME TypeOK, NEW p \in Procs, SubmitBegin(p)
    PROVE  TypeOK'
<1>a. PICK e \in Employees, t \in Types, s \in Days, f \in Days :
        /\ SubmittableRange(s, f)
        /\ HasFirstStep(e)
        /\ \E d \in Charges(t, s, f) :
            Goto(p, [pc  |-> "overlap",
                     row |-> [emp |-> e, type |-> t, start |-> s, end |-> f, days |-> d,
                              status |-> "pending_l1", l1 |-> chain[e].l1, l2 |-> chain[e].l2]])
  BY DEF SubmitBegin
<1>1. PICK d \in Charges(t, s, f) :
        Goto(p, [pc  |-> "overlap",
                 row |-> [emp |-> e, type |-> t, start |-> s, end |-> f, days |-> d,
                          status |-> "pending_l1", l1 |-> chain[e].l1, l2 |-> chain[e].l2]])
  BY <1>a
<1> DEFINE row == [emp |-> e, type |-> t, start |-> s, end |-> f, days |-> d,
                   status |-> "pending_l1", l1 |-> chain[e].l1, l2 |-> chain[e].l2]
           r == [pc |-> "overlap", row |-> row]
<1>2. d \in Nat \ {0}
  BY <1>a, ChargesPositive DEF SubmittableRange
<1>3. chain[e].l1 \in Users /\ chain[e].l2 \in Users \cup {None}
  BY <1>a DEF HasFirstStep, TypeOK, Steps
<1>4. row \in NewRow
  BY <1>2, <1>3 DEF NewRow, Row, Statuses, ActiveStatuses, PendingStatuses
<1>5. r \in ProcStates
  <2> HIDE DEF row
  <2> QED BY <1>4 DEF ProcStates
<1>6. proc' \in [Procs -> ProcStates]
  <2>1. Goto(p, r)
    BY <1>1
  <2> HIDE DEF r
  <2> QED BY <1>5, <2>1, GotoType
<1> QED BY <1>6 DEF SubmitBegin, TypeOK, environment, history

\* The overlap check keeps the types.
LEMMA SubmitCheckOverlapType ==
    ASSUME TypeOK, NEW p \in Procs, SubmitCheckOverlap(p)
    PROVE  TypeOK'
<1>1. proc[p].row \in NewRow
  BY HandlerState DEF SubmitCheckOverlap
<1>2. [pc |-> "lock", row |-> proc[p].row, saw |-> Rows] \in ProcStates
  BY <1>1 DEF ProcStates, Rows
<1>3. proc' \in [Procs -> ProcStates]
  BY <1>2, GotoType, FinishType DEF SubmitCheckOverlap
<1> QED BY <1>3 DEF SubmitCheckOverlap, TypeOK, environment, history

\* Locking the allocation rows keeps the types.
LEMMA SubmitLockType ==
    ASSUME TypeOK, NEW p \in Procs, SubmitLock(p)
    PROVE  TypeOK'
<1> DEFINE k == KeyOf(proc[p].row)
<1>1. proc[p].row \in NewRow /\ proc[p].row \in Row /\ proc[p].saw \in SUBSET ReqIds
  BY HandlerState DEF SubmitLock
<1>2. k \in Keys
  BY <1>1 DEF KeyOf, Keys, Row
<1>3. allowance[k] \in Nat
  BY <1>2 DEF TypeOK
<1>4. [pc |-> "balance", row |-> proc[p].row, saw |-> proc[p].saw, sum |-> allowance[k]]
        \in ProcStates
  BY <1>1, <1>3 DEF ProcStates
<1>5. proc' \in [Procs -> ProcStates]
  BY <1>4, GotoType DEF SubmitLock
<1>6. lock' \in [Keys -> Procs \cup {None}]
  BY <1>2 DEF SubmitLock, TypeOK
<1> QED BY <1>5, <1>6 DEF SubmitLock, TypeOK, environment, history

\* The balance rule keeps the types.
LEMMA SubmitCheckBalanceType ==
    ASSUME TypeOK, NEW p \in Procs, SubmitCheckBalance(p)
    PROVE  TypeOK'
<1>1. proc[p].row \in NewRow /\ proc[p].row \in Row /\ proc[p].saw \in SUBSET ReqIds
  BY HandlerState DEF SubmitCheckBalance
<1>2. [pc |-> "insert", row |-> proc[p].row, saw |-> proc[p].saw] \in ProcStates
  BY <1>1 DEF ProcStates
<1>3. \/ Finish(p) /\ Unlock(p)
      \/ Goto(p, [pc |-> "insert", row |-> proc[p].row, saw |-> proc[p].saw]) /\ UNCHANGED lock
  BY DEF SubmitCheckBalance, RollBack
<1>4. proc' \in [Procs -> ProcStates] /\ lock' \in [Keys -> Procs \cup {None}]
  BY <1>2, <1>3, GotoType, FinishType, UnlockType DEF TypeOK
<1> QED BY <1>4 DEF SubmitCheckBalance, TypeOK, environment, history

\* The insert keeps the types.
LEMMA SubmitInsertType ==
    ASSUME TypeOK, NEW p \in Procs, SubmitInsert(p)
    PROVE  TypeOK'
<1>1. proc[p].row \in NewRow /\ proc[p].row \in Row /\ proc[p].saw \in SUBSET ReqIds
  BY HandlerState DEF SubmitInsert
<1>2. req' \in [ReqIds -> Row \cup {None}] /\ checked' \in [ReqIds -> SUBSET ReqIds]
  BY <1>1 DEF SubmitInsert, TypeOK
<1>3. proc' \in [Procs -> ProcStates] /\ lock' \in [Keys -> Procs \cup {None}]
  BY FinishType, UnlockType DEF SubmitInsert
<1> QED BY <1>2, <1>3 DEF SubmitInsert, TypeOK, environment, history

\* An approval keeps the types.
LEMMA ApproveType ==
    ASSUME TypeOK, NEW p \in Procs, NEW u \in Users, NEW id \in ReqIds, Approve(p, u, id)
    PROVE  TypeOK'
<1>1. req[id] \in Row
  BY DEF Approve, ReadRow, Exists, TypeOK
<1>2. [pc |-> "approver", id |-> id, row |-> req[id]] \in ProcStates
  BY <1>1 DEF ProcStates
<1>3. proc' \in [Procs -> ProcStates] /\ signed' \in [ReqIds -> SUBSET {"l1", "l2", "override"}]
  BY <1>1, <1>2, GotoType, ApplyApprovalType DEF Approve, TypeOK
<1> QED BY <1>3 DEF Approve, TypeOK, environment

\* The check of the step approver keeps the types.
LEMMA ApproveCheckApproverType ==
    ASSUME TypeOK, NEW p \in Procs, ApproveCheckApprover(p)
    PROVE  TypeOK'
<1>1. proc[p].id \in ReqIds /\ proc[p].row \in Row
  BY HandlerState DEF ApproveCheckApprover
<1>2. proc' \in [Procs -> ProcStates] /\ signed' \in [ReqIds -> SUBSET {"l1", "l2", "override"}]
  BY <1>1, FinishType, ApplyApprovalType DEF ApproveCheckApprover, TypeOK
<1> QED BY <1>2 DEF ApproveCheckApprover, TypeOK, environment

\* A rejection keeps the types.
LEMMA RejectType ==
    ASSUME TypeOK, NEW p \in Procs, NEW u \in Users, NEW id \in ReqIds, Reject(p, u, id)
    PROVE  TypeOK'
<1>1. req[id] \in Row
  BY DEF Reject, ReadRow, Exists, TypeOK
<1>2. [req[id] EXCEPT !.status = "rejected"] \in Row
  BY <1>1, RowWithStatus DEF Statuses
<1>3. proc' \in [Procs -> ProcStates]
  BY <1>2, SavePatchType DEF Reject, Columns
<1> QED BY <1>3 DEF Reject, TypeOK, environment, history

\* A cancellation keeps the types.
LEMMA CancelType ==
    ASSUME TypeOK, NEW p \in Procs, NEW u \in Users, NEW id \in ReqIds, Cancel(p, u, id)
    PROVE  TypeOK'
<1>1. req[id] \in Row
  BY DEF Cancel, ReadRow, Exists, TypeOK
<1>2. [req[id] EXCEPT !.status = "cancelled"] \in Row
  BY <1>1, RowWithStatus DEF Statuses
<1>3. proc' \in [Procs -> ProcStates]
  BY <1>2, SavePatchType DEF Cancel, Columns
<1> QED BY <1>3 DEF Cancel, TypeOK, environment, history

\* The row an HR edit means to save keeps the employee, the approvers and the
\* status of the row it read, and holds at least half a day.
LEMMA UpdateSaves ==
    ASSUME TypeOK, NEW p \in Procs, NEW u \in Users, NEW id \in ReqIds, Update(p, u, id)
    PROVE  \E cols \in SUBSET {"type", "start", "end", "days"}, new \in Row :
                /\ SavePatch(p, id, cols, new)
                /\ new.l2 = req[id].l2 /\ new.status = req[id].status
<1>1. req[id] \in Row
  BY DEF Update, ReadRow, Exists, TypeOK
<1>2. CASE SavePatch(p, id, {}, req[id])
  BY <1>1, <1>2
<1>3. ASSUME NEW cols \in SUBSET {"type", "start", "end"},
             NEW t \in Types, NEW s \in Days, NEW e \in Days,
             Edit(p, id, cols, Merge(cols, [req[id] EXCEPT !.type = t, !.start = s, !.end = e], req[id]))
      PROVE  \E c \in SUBSET {"type", "start", "end", "days"}, n \in Row :
                /\ SavePatch(p, id, c, n)
                /\ n.l2 = req[id].l2 /\ n.status = req[id].status
  <2> DEFINE given == [req[id] EXCEPT !.type = t, !.start = s, !.end = e]
             new == Merge(cols, given, req[id])
  <2>1. given \in Row /\ given.status = req[id].status
    BY <1>1 DEF Row
  <2>2. new \in Row /\ new.l2 = req[id].l2 /\ new.status = req[id].status
    <3> HIDE DEF given
    <3> QED BY <1>1, <2>1, MergeType
  <2>3. Edit(p, id, cols, new)
    BY <1>3
  <2> HIDE DEF new
  <2>4. new.start \in Days /\ new.end \in Days
    BY <2>2 DEF Row
  <2>5. PICK d \in Charges(new.type, new.start, new.end) :
            SavePatch(p, id, cols \cup {"days"}, [new EXCEPT !.days = d])
    BY <2>3 DEF Edit
  <2>6. d \in Nat \ {0}
    BY <2>3, <2>4, ChargesPositive DEF Edit, SubmittableRange
  <2> DEFINE n == [new EXCEPT !.days = d]
  <2>7. n \in Row /\ n.l2 = new.l2 /\ n.status = new.status
    BY <2>2, <2>6 DEF Row
  <2>8. SavePatch(p, id, cols \cup {"days"}, n)
    BY <2>5
  <2> HIDE DEF n
  <2>9. cols \cup {"days"} \in SUBSET {"type", "start", "end", "days"}
    OBVIOUS
  <2> QED BY <2>2, <2>7, <2>8, <2>9
<1> QED BY <1>2, <1>3 DEF Update

\* An HR edit keeps the types.
LEMMA UpdateType ==
    ASSUME TypeOK, NEW p \in Procs, NEW u \in Users, NEW id \in ReqIds, Update(p, u, id)
    PROVE  TypeOK'
<1>1. PICK cols \in SUBSET {"type", "start", "end", "days"}, new \in Row :
        SavePatch(p, id, cols, new)
  BY UpdateSaves
<1>2. proc' \in [Procs -> ProcStates]
  BY <1>1, SavePatchType DEF Columns
<1> QED BY <1>2 DEF Update, TypeOK, environment, history

\* A row that a handler has found stays: requests are never deleted.
HoldsRow(p) == proc[p].pc \in {"approver", "load", "diff", "write"}
HeldRowsExist == \A p \in Procs : HoldsRow(p) => Exists(proc[p].id)

\* The load of a save keeps the types: the row it reads is there.
LEMMA SaveLoadType ==
    ASSUME TypeOK, HeldRowsExist, NEW p \in Procs, SaveLoad(p)
    PROVE  TypeOK'
<1> DEFINE id == proc[p].id
           new == Merge(proc[p].cols, proc[p].row, req[id])
<1>1. id \in ReqIds /\ proc[p].row \in Row
  BY HandlerState DEF SaveLoad
<1>2. req[id] \in Row
  BY <1>1 DEF HeldRowsExist, HoldsRow, SaveLoad, Exists, TypeOK
<1>3. new \in Row
  BY <1>1, <1>2, MergeType
<1>4. [pc |-> "diff", id |-> id, row |-> new] \in ProcStates
  <2> HIDE DEF new
  <2> QED BY <1>1, <1>3 DEF ProcStates
<1>5. proc' \in [Procs -> ProcStates]
  BY <1>4, GotoType DEF SaveLoad
<1> QED BY <1>5 DEF SaveLoad, TypeOK, environment, history

\* The diff of a save keeps the types.
LEMMA SaveDiffType ==
    ASSUME TypeOK, NEW p \in Procs, SaveDiff(p)
    PROVE  TypeOK'
<1> DEFINE id == proc[p].id
           cols == {c \in Columns : proc[p].row[c] # req[id][c]}
<1>1. id \in ReqIds /\ proc[p].row \in Row
  BY HandlerState DEF SaveDiff
<1>2. [pc |-> "write", id |-> id, cols |-> cols, row |-> proc[p].row] \in ProcStates
  BY <1>1 DEF ProcStates
<1>3. \/ Finish(p)
      \/ Goto(p, [pc |-> "write", id |-> id, cols |-> cols, row |-> proc[p].row])
  BY DEF SaveDiff
<1>4. proc' \in [Procs -> ProcStates]
  <2> HIDE DEF cols
  <2> QED BY <1>2, <1>3, GotoType, FinishType
<1> QED BY <1>4 DEF SaveDiff, TypeOK, environment, history

\* The UPDATE of a save keeps the types.
LEMMA SaveWriteType ==
    ASSUME TypeOK, HeldRowsExist, NEW p \in Procs, SaveWrite(p)
    PROVE  TypeOK'
<1> DEFINE id == proc[p].id
           new == Merge(proc[p].cols, proc[p].row, req[id])
<1>1. id \in ReqIds /\ proc[p].row \in Row
  BY HandlerState DEF SaveWrite
<1>2. req[id] \in Row
  BY <1>1 DEF HeldRowsExist, HoldsRow, SaveWrite, Exists, TypeOK
<1>3. new \in Row
  BY <1>1, <1>2, MergeType
<1>4. \/ req' = [req EXCEPT ![id] = new]
      \/ UNCHANGED req
  BY DEF SaveWrite
<1>5. req' \in [ReqIds -> Row \cup {None}]
  <2> HIDE DEF new
  <2> QED BY <1>1, <1>3, <1>4 DEF TypeOK
<1>6. touched' \subseteq ReqIds
  BY <1>1 DEF SaveWrite, TypeOK
<1>7. proc' \in [Procs -> ProcStates]
  BY FinishType DEF SaveWrite
<1> QED BY <1>5, <1>6, <1>7 DEF SaveWrite, TypeOK, environment

\* The bulk cancel of a schedule change keeps the types.
LEMMA SystemCancelType ==
    ASSUME TypeOK, NEW ids \in SUBSET ReqIds, SystemCancel(ids)
    PROVE  TypeOK'
<1>1. \A id \in ids : [req[id] EXCEPT !.status = "cancelled"] \in Row
  <2> TAKE id \in ids
  <2>1. req[id] \in Row
    BY DEF SystemCancel, IsActive, Exists, TypeOK
  <2> QED BY <2>1, RowWithStatus DEF Statuses
<1>2. req' \in [ReqIds -> Row \cup {None}]
  BY <1>1 DEF SystemCancel, TypeOK
<1> QED BY <1>2 DEF SystemCancel, TypeOK, environment, history

\* Grants, chains, accounts and the clock keep the types.
LEMMA EnvironmentType ==
    ASSUME TypeOK, Environment
    PROVE  TypeOK'
<1> USE ConstantsAssumption
<1>1. ASSUME NEW ids \in SUBSET ReqIds, SystemCancel(ids) PROVE TypeOK'
  BY <1>1, SystemCancelType
<1>2. ASSUME NEW k \in Keys, NEW n \in GrantAmounts, Grant(k, n) PROVE TypeOK'
  <2>1. allowance' \in [Keys -> Nat]
    BY <1>2 DEF Grant, TypeOK
  <2> QED BY <1>2, <2>1 DEF Grant, TypeOK, history
<1>3. ASSUME NEW e \in Employees, NEW c \in Chains, SetChain(e, c) PROVE TypeOK'
  <2>1. chain' \in [Employees -> Steps]
    BY <1>3 DEF SetChain, TypeOK
  <2> QED BY <1>3, <2>1 DEF SetChain, TypeOK, history
<1>4. ASSUME NEW u \in Deactivable, SetActive(u) PROVE TypeOK'
  BY <1>4 DEF SetActive, TypeOK, history
<1>5. ASSUME NextDay PROVE TypeOK'
  BY <1>5 DEF NextDay, TypeOK, history, Days
<1> QED BY <1>1, <1>2, <1>3, <1>4, <1>5 DEF Environment

\* A failed handler keeps the types.
LEMMA AbortType ==
    ASSUME TypeOK, NEW p \in Procs, Abort(p)
    PROVE  TypeOK'
BY FinishType, UnlockType DEF Abort, TypeOK, environment, history

\* The types hold initially.
LEMMA InitType == Init => TypeOK
<1> USE ConstantsAssumption
<1>1. SUFFICES ASSUME Init PROVE TypeOK
  OBVIOUS
<1>2. allowance \in [Keys -> Nat]
  BY <1>1 DEF Init, Keys
<1>3. Idle \in ProcStates
  BY DEF Idle, ProcStates
<1> QED BY <1>1, <1>2, <1>3 DEF Init, TypeOK, Days
-----------------------------------------------------------------------------
(***************************************************************************)
(* Decisions.  What has to hold of every row, stored or held by a handler, *)
(* given who has signed the request.  A held row may be stale; it is       *)
(* justified all the same, because signatures are never taken back.        *)
(***************************************************************************)
JustifiedBy(s, row) ==
    /\ row.status = "pending_l2" => "l1" \in s /\ row.l2 # None
    /\ row.status = "approved" =>
        "override" \in s \/ ("l1" \in s /\ (row.l2 = None \/ "l2" \in s))

HeldOK(r, rows, sigs) ==
    r.pc \in {"approver", "load", "diff", "write"} =>
        /\ rows[r.id] # None
        /\ r.row.l2 = rows[r.id].l2
        /\ JustifiedBy(sigs[r.id], r.row)
        /\ r.pc = "approver" => r.row.status \in PendingStatuses

DecisionInv ==
    /\ \A id \in ReqIds : req[id] # None => JustifiedBy(signed[id], req[id])
    /\ \A p \in Procs : HeldOK(proc[p], req, signed)

\* Part of the decision invariant: the row a handler works on exists.
LEMMA HeldRows == DecisionInv => HeldRowsExist
BY DEF DecisionInv, HeldOK, HeldRowsExist, HoldsRow, Exists

\* More signatures justify no less.
LEMMA JustifiedGrows ==
    ASSUME NEW s, NEW t, s \subseteq t, NEW row, JustifiedBy(s, row)
    PROVE  JustifiedBy(t, row)
BY DEF JustifiedBy

\* A step of handler p that changes no row keeps the invariant when its next
\* state is a sound one.
LEMMA DecisionGoto ==
    ASSUME TypeOK, DecisionInv, NEW p \in Procs, NEW r, Goto(p, r), UNCHANGED req,
           \A id \in ReqIds : signed[id] \subseteq signed'[id],
           HeldOK(r, req, signed')
    PROVE  DecisionInv'
<1>1. \A id \in ReqIds : req'[id] # None => JustifiedBy(signed'[id], req'[id])
  BY JustifiedGrows DEF DecisionInv
<1>2. ASSUME NEW q \in Procs PROVE HeldOK(proc'[q], req', signed')
  <2>1. CASE q = p
    BY <2>1 DEF Goto, TypeOK
  <2>2. CASE q # p
    <3>1. proc'[q] = proc[q]
      BY <2>2 DEF Goto, TypeOK
    <3>2. proc[q].pc \in {"approver", "load", "diff", "write"} => proc[q].id \in ReqIds
      BY HandlerState
    <3>3. HeldOK(proc[q], req, signed)
      BY DEF DecisionInv
    <3> QED BY <3>1, <3>2, <3>3, JustifiedGrows DEF HeldOK
  <2> QED BY <2>1, <2>2
<1> QED BY <1>1, <1>2 DEF DecisionInv

\* A handler that answers leaves every decision justified.
LEMMA DecisionFinish ==
    ASSUME TypeOK, DecisionInv, NEW p \in Procs, Finish(p), UNCHANGED <<req, signed>>
    PROVE  DecisionInv'
<1>1. HeldOK(Idle, req, signed')
  BY DEF HeldOK, Idle
<1> QED BY <1>1, DecisionGoto DEF Finish

\* What SavePatch needs of the row it saves.
LEMMA DecisionSavePatch ==
    ASSUME TypeOK, DecisionInv, NEW p \in Procs, NEW id \in ReqIds, NEW cols, NEW new,
           SavePatch(p, id, cols, new), UNCHANGED req, req[id] # None,
           \A j \in ReqIds : signed[j] \subseteq signed'[j],
           new.l2 = req[id].l2, JustifiedBy(signed'[id], new)
    PROVE  DecisionInv'
<1> DEFINE r == [pc |-> "load", id |-> id, cols |-> cols, row |-> new]
<1>1. HeldOK(r, req, signed')
  BY DEF HeldOK
<1>2. Goto(p, r)
  BY DEF SavePatch
<1> HIDE DEF r
<1> QED BY <1>1, <1>2, DecisionGoto

\* A decision to approve signs for the step that the row it read is at.
LEMMA DecisionApply ==
    ASSUME TypeOK, DecisionInv, NEW p \in Procs, NEW id \in ReqIds, NEW row \in Row, NEW u,
           ApplyApproval(p, id, row, u), UNCHANGED req, req[id] # None,
           row.l2 = req[id].l2, row.status \in PendingStatuses, JustifiedBy(signed[id], row)
    PROVE  DecisionInv'
<1> DEFINE s == NextStatusAfterApproval(row, Overrides(u))
           new == [row EXCEPT !.status = s]
<1>1. /\ SavePatch(p, id, {"status"}, new)
      /\ signed' = [signed EXCEPT ![id] = @ \cup {Signature(row, u)}]
  BY DEF ApplyApproval
<1>2. \A j \in ReqIds : signed[j] \subseteq signed'[j]
  BY <1>1 DEF TypeOK
<1>3. Signature(row, u) \in signed'[id] /\ signed[id] \subseteq signed'[id]
  BY <1>1, <1>2 DEF TypeOK
<1>4. s \in Statuses
  BY NextStatusType DEF Statuses, ActiveStatuses, PendingStatuses
<1>5. new.l2 = row.l2 /\ new.status = s
  BY <1>4 DEF Row
<1>6. JustifiedBy(signed'[id], new)
  <2>1. CASE Overrides(u)
    <3>1. s = "approved" /\ "override" \in signed'[id]
      BY <2>1, <1>3 DEF NextStatusAfterApproval, Signature
    <3> HIDE DEF new, s
    <3> QED BY <3>1, <1>5 DEF JustifiedBy
  <2>2. CASE ~ Overrides(u) /\ row.status = "pending_l1"
    <3>1. "l1" \in signed'[id]
      BY <2>2, <1>3 DEF Signature
    <3>2. IF row.l2 # None THEN s = "pending_l2" ELSE s = "approved"
      BY <2>2 DEF NextStatusAfterApproval
    <3> HIDE DEF new, s
    <3> QED BY <3>1, <3>2, <1>5 DEF JustifiedBy
  <2>3. CASE ~ Overrides(u) /\ row.status = "pending_l2"
    <3>1. "l2" \in signed'[id] /\ "l1" \in signed'[id]
      BY <2>3, <1>3 DEF Signature, JustifiedBy
    <3>2. s = "approved"
      BY <2>3 DEF NextStatusAfterApproval
    <3> HIDE DEF new, s
    <3> QED BY <3>1, <3>2, <1>5 DEF JustifiedBy
  <2> QED BY <2>1, <2>2, <2>3 DEF PendingStatuses
<1> HIDE DEF new
<1> QED BY <1>1, <1>2, <1>5, <1>6, DecisionSavePatch

\* A submit that reads and checks leaves every decision justified.
LEMMA SubmitDecision ==
    ASSUME TypeOK, DecisionInv, NEW p \in Procs,
           \/ SubmitBegin(p) \/ SubmitCheckOverlap(p) \/ SubmitLock(p)
           \/ SubmitCheckBalance(p)
    PROVE  DecisionInv'
<1>1. PICK r : Goto(p, r) /\ r.pc \in {"idle", "overlap", "lock", "balance", "insert"}
  <2>1. CASE SubmitBegin(p)
    BY <2>1 DEF SubmitBegin
  <2>2. CASE SubmitCheckOverlap(p)
    BY <2>2 DEF SubmitCheckOverlap, Finish, Idle
  <2>3. CASE SubmitLock(p)
    BY <2>3 DEF SubmitLock
  <2>4. CASE SubmitCheckBalance(p)
    BY <2>4 DEF SubmitCheckBalance, Finish, Idle
  <2> QED BY <2>1, <2>2, <2>3, <2>4
<1>2. HeldOK(r, req, signed')
  BY <1>1 DEF HeldOK
<1>3. UNCHANGED <<req, signed>>
  BY DEF SubmitBegin, SubmitCheckOverlap, SubmitLock, SubmitCheckBalance, history
<1> QED BY <1>1, <1>2, <1>3, DecisionGoto

\* A new request is pending, so needs no decision.
LEMMA InsertDecision ==
    ASSUME TypeOK, DecisionInv, NEW p \in Procs, SubmitInsert(p)
    PROVE  DecisionInv'
<1>1. PICK id \in ReqIds : req[id] = None /\ req' = [req EXCEPT ![id] = proc[p].row]
  BY DEF SubmitInsert, Exists
<1>2. proc' = [proc EXCEPT ![p] = Idle] /\ signed' = signed
  BY DEF SubmitInsert, Finish, Goto
<1>3. proc[p].row \in Row /\ proc[p].row.status = "pending_l1"
  BY HandlerState DEF SubmitInsert, NewRow
<1>4. proc[p].row # None
  BY <1>3, NoneAssumption
<1>5. \A j \in ReqIds : req'[j] # None => JustifiedBy(signed'[j], req'[j])
  BY <1>1, <1>2, <1>3 DEF DecisionInv, JustifiedBy, TypeOK
<1>6. ASSUME NEW q \in Procs PROVE HeldOK(proc'[q], req', signed')
  <2>1. CASE q = p
    BY <2>1, <1>2 DEF HeldOK, Idle, TypeOK
  <2>2. CASE q # p
    <3>1. proc'[q] = proc[q]
      BY <2>2, <1>2 DEF TypeOK
    <3>2. \A j \in ReqIds : req[j] # None => req'[j] = req[j]
      BY <1>1 DEF TypeOK
    <3>3. proc[q].pc \in {"approver", "load", "diff", "write"} => proc[q].id \in ReqIds
      BY HandlerState
    <3>4. HeldOK(proc[q], req, signed)
      BY DEF DecisionInv
    <3> QED BY <3>1, <3>2, <3>3, <3>4, <1>2 DEF HeldOK
  <2> QED BY <2>1, <2>2
<1> QED BY <1>5, <1>6 DEF DecisionInv

\* A handler that read a row holds a change its signatures justify.
LEMMA ReadDecision ==
    ASSUME TypeOK, DecisionInv, NEW p \in Procs, NEW u \in Users, NEW id \in ReqIds,
           Approve(p, u, id) \/ Reject(p, u, id) \/ Cancel(p, u, id) \/ Update(p, u, id)
    PROVE  DecisionInv'
<1>1. req[id] # None /\ req[id] \in Row /\ JustifiedBy(signed[id], req[id])
  BY DEF Approve, Reject, Cancel, Update, ReadRow, Exists, DecisionInv, TypeOK
<1>2. UNCHANGED req
  BY DEF Approve, Reject, Cancel, Update
<1>3. CASE Approve(p, u, id)
  <2>1. req[id].status \in PendingStatuses
    BY <1>3 DEF Approve
  <2>2. CASE ApplyApproval(p, id, req[id], u)
    BY <2>1, <2>2, <1>1, <1>2, DecisionApply
  <2>3. CASE Goto(p, [pc |-> "approver", id |-> id, row |-> req[id]]) /\ UNCHANGED signed
    <3> DEFINE r == [pc |-> "approver", id |-> id, row |-> req[id]]
    <3>1. HeldOK(r, req, signed')
      BY <1>1, <2>1, <2>3 DEF HeldOK
    <3>2. Goto(p, r)
      BY <2>3
    <3> HIDE DEF r
    <3> QED BY <3>1, <3>2, <2>3, <1>2, DecisionGoto
  <2> QED BY <1>3, <2>2, <2>3 DEF Approve
<1>4. CASE Reject(p, u, id) \/ Cancel(p, u, id)
  <2>1. PICK s \in {"rejected", "cancelled"} :
            SavePatch(p, id, {"status"}, [req[id] EXCEPT !.status = s])
    BY <1>4 DEF Reject, Cancel
  <2> DEFINE new == [req[id] EXCEPT !.status = s]
  <2>2. new.l2 = req[id].l2 /\ new.status = s
    BY <1>1 DEF Row
  <2>3. JustifiedBy(signed'[id], new)
    <3> HIDE DEF new
    <3> QED BY <2>2, <2>1 DEF JustifiedBy
  <2>4. SavePatch(p, id, {"status"}, new) /\ UNCHANGED signed
    BY <2>1, <1>4 DEF Reject, Cancel, history
  <2> HIDE DEF new
  <2> QED BY <2>2, <2>3, <2>4, <1>1, <1>2, DecisionSavePatch
<1>5. CASE Update(p, u, id)
  <2>1. PICK cols \in SUBSET {"type", "start", "end", "days"}, new \in Row :
            /\ SavePatch(p, id, cols, new)
            /\ new.l2 = req[id].l2 /\ new.status = req[id].status
    BY <1>5, UpdateSaves
  <2>2. UNCHANGED signed
    BY <1>5 DEF Update, history
  <2>3. JustifiedBy(signed'[id], new)
    BY <2>1, <2>2, <1>1 DEF JustifiedBy
  <2> QED BY <2>1, <2>2, <2>3, <1>1, <1>2, DecisionSavePatch
<1> QED BY <1>3, <1>4, <1>5

\* The check of the step approver ends in a signature or in nothing.
LEMMA CheckApproverDecision ==
    ASSUME TypeOK, DecisionInv, NEW p \in Procs, ApproveCheckApprover(p)
    PROVE  DecisionInv'
<1>1. proc[p].id \in ReqIds /\ proc[p].row \in Row
  BY HandlerState DEF ApproveCheckApprover
<1>2. /\ req[proc[p].id] # None
      /\ proc[p].row.l2 = req[proc[p].id].l2
      /\ JustifiedBy(signed[proc[p].id], proc[p].row)
      /\ proc[p].row.status \in PendingStatuses
  BY DEF DecisionInv, HeldOK, ApproveCheckApprover
<1>3. UNCHANGED req
  BY DEF ApproveCheckApprover
<1>4. CASE ApplyApproval(p, proc[p].id, proc[p].row, StepApprover(proc[p].row))
  BY <1>1, <1>2, <1>3, <1>4, DecisionApply
<1>5. CASE Finish(p) /\ UNCHANGED signed
  BY <1>3, <1>5, DecisionFinish
<1> QED BY <1>4, <1>5 DEF ApproveCheckApprover

\* Rows may change and handlers finish, as long as no approver changes.
LEMMA DecisionRows ==
    ASSUME TypeOK, DecisionInv, UNCHANGED signed,
           \A q \in Procs : proc'[q] = proc[q] \/ proc'[q] = Idle,
           \A id \in ReqIds : req[id] # None =>
                req'[id] # None /\ req'[id].l2 = req[id].l2,
           \A id \in ReqIds : req'[id] # None => JustifiedBy(signed[id], req'[id])
    PROVE  DecisionInv'
<1>1. ASSUME NEW q \in Procs PROVE HeldOK(proc'[q], req', signed')
  <2>1. CASE proc'[q] = Idle
    BY <2>1 DEF HeldOK, Idle
  <2>2. CASE proc'[q] = proc[q]
    <3>1. proc[q].pc \in {"approver", "load", "diff", "write"} => proc[q].id \in ReqIds
      BY HandlerState
    <3>2. HeldOK(proc[q], req, signed)
      BY DEF DecisionInv
    <3> QED BY <2>2, <3>1, <3>2 DEF HeldOK
  <2> QED BY <2>1, <2>2
<1> QED BY <1>1 DEF DecisionInv

\* Merging a justified held row into the stored one gives a justified row.
LEMMA MergeJustified ==
    ASSUME TypeOK, DecisionInv, NEW p \in Procs, proc[p].pc \in {"load", "write"}
    PROVE  LET id  == proc[p].id
               new == Merge(proc[p].cols, proc[p].row, req[id])
           IN  /\ id \in ReqIds /\ req[id] \in Row /\ new \in Row
               /\ new.l2 = req[id].l2
               /\ JustifiedBy(signed[id], new)
<1> DEFINE id == proc[p].id
           new == Merge(proc[p].cols, proc[p].row, req[id])
<1>1. id \in ReqIds /\ proc[p].row \in Row
  BY HandlerState
<1>2. /\ req[id] # None /\ proc[p].row.l2 = req[id].l2
      /\ JustifiedBy(signed[id], proc[p].row)
  BY DEF DecisionInv, HeldOK
<1>3. req[id] \in Row /\ JustifiedBy(signed[id], req[id])
  BY <1>1, <1>2 DEF DecisionInv, TypeOK
<1>4. /\ new \in Row /\ new.l2 = req[id].l2
      /\ new.status \in {req[id].status, proc[p].row.status}
  <2> DEFINE old == req[id]
             patch == proc[p].row
  <2>1. old \in Row /\ patch \in Row
    BY <1>1, <1>3
  <2> HIDE DEF old, patch
  <2>2. Merge(proc[p].cols, patch, old).l2 = old.l2
    BY <2>1, MergeType
  <2>3. Merge(proc[p].cols, patch, old).status \in {patch.status, old.status}
    BY <2>1, MergeType
  <2>4. Merge(proc[p].cols, patch, old) \in Row
    BY <2>1, MergeType
  <2> QED BY <2>2, <2>3, <2>4 DEF old, patch
<1>5. JustifiedBy(signed[id], new)
  <2> HIDE DEF new
  <2> QED BY <1>2, <1>3, <1>4 DEF JustifiedBy
<1> QED BY <1>1, <1>3, <1>4, <1>5

\* Each step of a save carries only justified statuses to the row.
LEMMA SaveDecision ==
    ASSUME TypeOK, DecisionInv, NEW p \in Procs, SaveLoad(p) \/ SaveDiff(p) \/ SaveWrite(p)
    PROVE  DecisionInv'
<1> DEFINE id == proc[p].id
           new == Merge(proc[p].cols, proc[p].row, req[id])
<1>1. CASE SaveLoad(p)
  <2> DEFINE r == [pc |-> "diff", id |-> id, row |-> new]
  <2>1. req[id] # None
    BY <1>1 DEF SaveLoad, DecisionInv, HeldOK
  <2>2. UNCHANGED <<req, signed>> /\ Goto(p, r)
    BY <1>1 DEF SaveLoad, history
  <2>3. new.l2 = req[id].l2 /\ JustifiedBy(signed[id], new)
    BY <1>1, MergeJustified DEF SaveLoad
  <2>4. HeldOK(r, req, signed')
    <3> HIDE DEF new
    <3> QED BY <2>1, <2>2, <2>3 DEF HeldOK
  <2> HIDE DEF r
  <2> QED BY <2>2, <2>4, DecisionGoto
<1>2. CASE SaveDiff(p)
  <2>1. UNCHANGED <<req, signed>>
    BY <1>2 DEF SaveDiff, history
  <2>2. CASE Finish(p)
    BY <2>1, <2>2, DecisionFinish
  <2>3. ASSUME NEW cols, Goto(p, [pc |-> "write", id |-> id, cols |-> cols, row |-> proc[p].row])
        PROVE  DecisionInv'
    <3> DEFINE r == [pc |-> "write", id |-> id, cols |-> cols, row |-> proc[p].row]
    <3>1. /\ req[id] # None /\ proc[p].row.l2 = req[id].l2
          /\ JustifiedBy(signed[id], proc[p].row)
      BY <1>2 DEF SaveDiff, DecisionInv, HeldOK
    <3>2. HeldOK(r, req, signed')
      BY <3>1, <2>1 DEF HeldOK
    <3>3. Goto(p, r)
      BY <2>3
    <3> HIDE DEF r
    <3> QED BY <2>1, <3>2, <3>3, DecisionGoto
  <2> QED BY <1>2, <2>2, <2>3 DEF SaveDiff
<1>3. CASE SaveWrite(p)
  <2>1. /\ id \in ReqIds /\ req[id] \in Row /\ new \in Row
        /\ new.l2 = req[id].l2 /\ JustifiedBy(signed[id], new)
    BY <1>3, MergeJustified DEF SaveWrite
  <2>2. UNCHANGED signed /\ proc' = [proc EXCEPT ![p] = Idle]
    BY <1>3 DEF SaveWrite, Finish, Goto
  <2>3. req' = [req EXCEPT ![id] = new] \/ UNCHANGED req
    BY <1>3 DEF SaveWrite
  <2> HIDE DEF new, id
  <2>4. \A j \in ReqIds : req[j] # None => req'[j] # None /\ req'[j].l2 = req[j].l2
    BY <2>1, <2>3, NoneAssumption DEF TypeOK
  <2>5. \A j \in ReqIds : req'[j] # None => JustifiedBy(signed[j], req'[j])
    BY <2>1, <2>3 DEF DecisionInv, TypeOK
  <2>6. \A q \in Procs : proc'[q] = proc[q] \/ proc'[q] = Idle
    BY <2>2 DEF TypeOK
  <2> QED BY <2>2, <2>4, <2>5, <2>6, DecisionRows
<1> QED BY <1>1, <1>2, <1>3

\* The rest of the system changes no row but to cancel it.
LEMMA EnvironmentDecision ==
    ASSUME TypeOK, DecisionInv, Environment
    PROVE  DecisionInv'
<1>1. UNCHANGED <<signed, proc>>
  BY DEF Environment, SystemCancel, Grant, SetChain, SetActive, NextDay, history
<1>2. ASSUME NEW ids \in SUBSET ReqIds, SystemCancel(ids) PROVE DecisionInv'
  <2>1. ASSUME NEW id \in ReqIds, req[id] # None
        PROVE  /\ req'[id] # None /\ req'[id].l2 = req[id].l2
               /\ req'[id].status = req[id].status \/ req'[id].status = "cancelled"
    <3>1. req[id] \in Row
      BY <2>1 DEF TypeOK
    <3>2. [req[id] EXCEPT !.status = "cancelled"] \in Row
      BY <3>1, RowWithStatus DEF Statuses
    <3>3. /\ [req[id] EXCEPT !.status = "cancelled"].l2 = req[id].l2
          /\ [req[id] EXCEPT !.status = "cancelled"].status = "cancelled"
      BY <3>1 DEF Row
    <3>4. req'[id] = IF id \in ids THEN [req[id] EXCEPT !.status = "cancelled"] ELSE req[id]
      BY <1>2 DEF SystemCancel
    <3> QED BY <3>1, <3>2, <3>3, <3>4, NoneAssumption
  <2>2. \A id \in ReqIds : req'[id] # None => req[id] # None
    BY <1>2 DEF SystemCancel, IsActive, Exists
  <2>3. \A id \in ReqIds : req'[id] # None => JustifiedBy(signed[id], req'[id])
    BY <2>1, <2>2 DEF DecisionInv, JustifiedBy
  <2> QED BY <1>1, <2>1, <2>3, DecisionRows
<1>3. CASE UNCHANGED req
  BY <1>1, <1>3 DEF DecisionInv
<1> QED BY <1>2, <1>3 DEF Environment, Grant, SetChain, SetActive, NextDay

\* A failed handler leaves every decision justified.
LEMMA AbortDecision ==
    ASSUME TypeOK, DecisionInv, NEW p \in Procs, Abort(p)
    PROVE  DecisionInv'
BY DecisionFinish DEF Abort, history

\* Before the first request there is no decision.
LEMMA InitDecision == Init => DecisionInv
BY DEF Init, DecisionInv, HeldOK, Idle
-----------------------------------------------------------------------------
\* Every variable keeps its type, and every row stored or held by a handler is
\* justified by the signatures of its request.
LEMMA NextDecision ==
    ASSUME TypeOK, DecisionInv, [Next]_vars
    PROVE  TypeOK' /\ DecisionInv'
<1>1. CASE UNCHANGED vars
  BY <1>1 DEF vars, TypeOK, DecisionInv
<1>2. ASSUME NEW p \in Procs, NEW u \in Users, NEW id \in ReqIds,
             Approve(p, u, id) \/ Reject(p, u, id) \/ Cancel(p, u, id) \/ Update(p, u, id)
      PROVE  TypeOK' /\ DecisionInv'
  BY <1>2, ApproveType, RejectType, CancelType, UpdateType, ReadDecision
<1>3. ASSUME NEW p \in Procs, SubmitBegin(p) \/ HandlerStep(p) \/ Abort(p)
      PROVE  TypeOK' /\ DecisionInv'
  <2>1. CASE SubmitBegin(p)
    BY <2>1, SubmitBeginType, SubmitDecision
  <2>2. CASE SubmitCheckOverlap(p)
    BY <2>2, SubmitCheckOverlapType, SubmitDecision
  <2>3. CASE SubmitLock(p)
    BY <2>3, SubmitLockType, SubmitDecision
  <2>4. CASE SubmitCheckBalance(p)
    BY <2>4, SubmitCheckBalanceType, SubmitDecision
  <2>5. CASE SubmitInsert(p)
    BY <2>5, SubmitInsertType, InsertDecision
  <2>6. CASE ApproveCheckApprover(p)
    BY <2>6, ApproveCheckApproverType, CheckApproverDecision
  <2>7. CASE SaveLoad(p)
    BY <2>7, SaveLoadType, SaveDecision, HeldRows
  <2>8. CASE SaveDiff(p)
    BY <2>8, SaveDiffType, SaveDecision
  <2>9. CASE SaveWrite(p)
    BY <2>9, SaveWriteType, SaveDecision, HeldRows
  <2>10. CASE Abort(p)
    BY <2>10, AbortType, AbortDecision
  <2> QED BY <1>3, <2>1, <2>2, <2>3, <2>4, <2>5, <2>6, <2>7, <2>8, <2>9, <2>10 DEF HandlerStep
<1>4. CASE Environment
  BY <1>4, EnvironmentType, EnvironmentDecision
<1> QED BY <1>1, <1>2, <1>3, <1>4 DEF Next, Request

\* TypeOK holds for every number of handlers, rows, users and days.
THEOREM TypeCorrect == Spec => []TypeOK
<1>1. Init => TypeOK /\ DecisionInv
  BY InitType, InitDecision
<1>2. TypeOK /\ DecisionInv /\ [Next]_vars => (TypeOK /\ DecisionInv)'
  BY NextDecision
<1> QED BY <1>1, <1>2, PTL DEF Spec

\* The inductive invariant: the types, and every status, stored or about to be
\* saved, justified by the approvals given so far.
THEOREM DecisionsInvariant == Spec => [](TypeOK /\ DecisionInv)
<1>1. Init => TypeOK /\ DecisionInv
  BY InitType, InitDecision
<1>2. TypeOK /\ DecisionInv /\ [Next]_vars => (TypeOK /\ DecisionInv)'
  BY NextDecision
<1> QED BY <1>1, <1>2, PTL DEF Spec

\* No request is approved without the decisions its snapshot of the chain asks
\* for: in a chain with a second step the first approver and the second, or an
\* override, however the handlers interleave their reads and saves.
THEOREM ApprovedAreSigned == Spec => []ApprovedIsSigned
<1>1. DecisionInv => ApprovedIsSigned
  BY DEF DecisionInv, JustifiedBy, ApprovedIsSigned, FullySigned, Exists
<1> QED BY <1>1, DecisionsInvariant, PTL

\* No request waits for a second step that nobody is assigned to.
THEOREM StepsHaveApprovers == Spec => []NoStepWithoutApprover
<1>1. DecisionInv => NoStepWithoutApprover
  BY DEF DecisionInv, JustifiedBy, NoStepWithoutApprover, Exists
<1> QED BY <1>1, DecisionsInvariant, PTL
=============================================================================
