------------------------- MODULE LeaveBookingProofs -------------------------
(***************************************************************************)
(* Proofs about what requests hold: days of a balance, days of a calendar. *)
(***************************************************************************)
EXTENDS LeaveRequestsProofs, WellFoundedInduction

(***************************************************************************)
(* How a step may change a row.  A row that no edit and no stale save has  *)
(* touched keeps its booking and never becomes active again.               *)
(***************************************************************************)
SameBooking(old, new) ==
    old.type = new.type /\ old.start = new.start /\ old.end = new.end /\ old.days = new.days

RowEvolves(id) ==
    /\ req'[id] # None
    /\ req'[id].emp = req[id].emp
    /\ id \in touched => id \in touched'
    /\ id \notin touched' =>
        /\ SameBooking(req[id], req'[id])
        /\ req'[id].status \in ActiveStatuses => req[id].status \in ActiveStatuses

RowsEvolve == \A id \in ReqIds : req[id] # None => RowEvolves(id)

\* A step that leaves every stored row and the moved set alone lets no row change.
LEMMA KeptRowsEvolve ==
    ASSUME UNCHANGED touched, \A id \in ReqIds : req[id] # None => req'[id] = req[id]
    PROVE  RowsEvolve
BY DEF RowsEvolve, RowEvolves, SameBooking

\* The UPDATE of a save changes a booking, or revives a request, only by marking it moved.
LEMMA SaveWriteEvolves ==
    ASSUME TypeOK, DecisionInv, NEW p \in Procs, SaveWrite(p)
    PROVE  RowsEvolve
<1> DEFINE id == proc[p].id
           new == Merge(proc[p].cols, proc[p].row, req[id])
<1>1. id \in ReqIds /\ req[id] \in Row /\ new \in Row
  BY MergeJustified DEF SaveWrite
<1>2. proc[p].row \in Row
  BY HandlerState DEF SaveWrite
<1>3. new.emp = req[id].emp
  BY <1>1, <1>2, MergeType
<1>4. CASE UNCHANGED <<req, touched>>
  BY <1>4, KeptRowsEvolve
<1>5. CASE /\ req' = [req EXCEPT ![id] = new]
           /\ touched' = IF Rebooks(req[id], new) THEN touched \cup {id} ELSE touched
  <2>1. ASSUME NEW j \in ReqIds, req[j] # None PROVE RowEvolves(j)
    <3>1. touched \subseteq touched'
      <4> HIDE DEF new
      <4> QED BY <1>5
    <3>2. CASE j # id
      <4>1. req'[j] = req[j]
        <5> HIDE DEF new, id
        <5> QED BY <3>2, <1>5 DEF TypeOK
      <4>2. j \notin touched' => j \notin touched
        BY <3>1
      <4> QED BY <2>1, <3>1, <4>1, <4>2 DEF RowEvolves, SameBooking
    <3>3. CASE j = id
      <4> HIDE DEF new, id
      <4>1. req'[id] = new /\ new # None
        BY <1>1, <1>5, NoneAssumption DEF TypeOK
      <4>2. id \notin touched' => ~ Rebooks(req[id], new)
        BY <1>5
      <4>3. id \notin touched' =>
                /\ SameBooking(req[id], new)
                /\ new.status \in ActiveStatuses => req[id].status \in ActiveStatuses
        BY <4>2 DEF Rebooks, SameBooking
      <4> QED BY <3>1, <3>3, <4>1, <4>3, <1>3 DEF RowEvolves
    <3> QED BY <3>2, <3>3
  <2> QED BY <2>1 DEF RowsEvolve
<1> QED BY <1>4, <1>5 DEF SaveWrite

\* The bulk cancel of a schedule change only takes requests out of the active ones.
LEMMA SystemCancelEvolves ==
    ASSUME TypeOK, NEW ids \in SUBSET ReqIds, SystemCancel(ids)
    PROVE  RowsEvolve
<1>1. ASSUME NEW id \in ReqIds, req[id] # None PROVE RowEvolves(id)
  <2> DEFINE new == [req[id] EXCEPT !.status = "cancelled"]
  <2>1. req[id] \in Row
    BY <1>1 DEF TypeOK
  <2>2. new \in Row
    BY <2>1, RowWithStatus DEF Statuses
  <2>3. SameBooking(req[id], new) /\ new.emp = req[id].emp /\ new.status = "cancelled"
    BY <2>1 DEF Row, SameBooking
  <2>4. req'[id] = new \/ req'[id] = req[id]
    BY DEF SystemCancel
  <2>5. UNCHANGED touched
    BY DEF SystemCancel, history
  <2> HIDE DEF new
  <2>6. CASE req'[id] = new
    BY <2>2, <2>3, <2>5, <2>6, NoneAssumption DEF RowEvolves, ActiveStatuses, PendingStatuses
  <2>7. CASE req'[id] = req[id]
    BY <1>1, <2>5, <2>7 DEF RowEvolves, SameBooking
  <2> QED BY <2>4, <2>6, <2>7
<1> QED BY <1>1 DEF RowsEvolve

\* Only a submit adds a row and records what its overlap check saw.
AddsNoRow ==
    /\ \A id \in ReqIds : req[id] = None => req'[id] = None
    /\ UNCHANGED checked

\* A step that touches no row and no history of rows satisfies both descriptions.
LEMMA QuietStep ==
    ASSUME UNCHANGED <<req, touched, checked>>
    PROVE  RowsEvolve /\ AddsNoRow
BY KeptRowsEvolve DEF AddsNoRow

\* Every step but an insert evolves the rows and adds none.
LEMMA Evolution ==
    ASSUME TypeOK, DecisionInv, [Next]_vars, \A p \in Procs : ~ SubmitInsert(p)
    PROVE  RowsEvolve /\ AddsNoRow
<1>1. CASE UNCHANGED vars
  BY <1>1, QuietStep DEF vars
<1>2. ASSUME NEW p \in Procs, Request(p) PROVE RowsEvolve /\ AddsNoRow
  <2>1. UNCHANGED <<req, touched, checked>>
    BY <1>2 DEF Request, SubmitBegin, Approve, ApplyApproval, SavePatch, Reject, Cancel, Update, history
  <2> QED BY <2>1, QuietStep
<1>3. ASSUME NEW p \in Procs, HandlerStep(p) PROVE RowsEvolve /\ AddsNoRow
  <2>1. CASE SaveWrite(p)
    <3>1. RowsEvolve
      BY <2>1, SaveWriteEvolves
    <3>2. proc[p].id \in ReqIds /\ req[proc[p].id] # None
      BY <2>1, HandlerState DEF SaveWrite, DecisionInv, HeldOK
    <3>3. \A id \in ReqIds : id # proc[p].id => req'[id] = req[id]
      BY <2>1 DEF SaveWrite, TypeOK
    <3>4. UNCHANGED checked
      BY <2>1 DEF SaveWrite
    <3> QED BY <3>1, <3>2, <3>3, <3>4 DEF AddsNoRow
  <2>2. CASE ~ SaveWrite(p)
    <3>1. UNCHANGED <<req, touched, checked>>
      BY <1>3, <2>2 DEF HandlerStep, SubmitCheckOverlap, SubmitLock, SubmitCheckBalance,
                        ApproveCheckApprover, SaveLoad, SaveDiff, history
    <3> QED BY <3>1, QuietStep
  <2> QED BY <2>1, <2>2
<1>4. ASSUME NEW p \in Procs, Abort(p) PROVE RowsEvolve /\ AddsNoRow
  <2>1. UNCHANGED <<req, touched, checked>>
    BY <1>4 DEF Abort, history
  <2> QED BY <2>1, QuietStep
<1>5. ASSUME NEW ids \in SUBSET ReqIds, SystemCancel(ids) PROVE RowsEvolve /\ AddsNoRow
  <2>1. RowsEvolve
    BY <1>5, SystemCancelEvolves
  <2>2. AddsNoRow
    BY <1>5 DEF SystemCancel, AddsNoRow, IsActive, Exists, history
  <2> QED BY <2>1, <2>2
<1>6. CASE Environment
  <2>1. CASE UNCHANGED <<req, touched, checked>>
    BY <2>1, QuietStep
  <2> QED BY <1>5, <1>6, <2>1 DEF Environment, Grant, SetChain, SetActive, NextDay, history
<1> QED BY <1>1, <1>2, <1>3, <1>4, <1>6 DEF Next

\* The insert of a submit leaves the rows that were there as they are.
LEMMA InsertEvolves ==
    ASSUME TypeOK, NEW p \in Procs, SubmitInsert(p)
    PROVE  RowsEvolve
BY KeptRowsEvolve DEF SubmitInsert, Exists, TypeOK
-----------------------------------------------------------------------------
(***************************************************************************)
(* How a submit reaches its insert: past the overlap check its row and     *)
(* what the check saw stay as they are.                                    *)
(***************************************************************************)
Checked == {"lock", "balance", "insert"}

SubmitFlow(q) ==
    proc'[q].pc \in Checked =>
        /\ proc'[q].row = proc[q].row
        /\ \/ proc[q].pc \in Checked /\ proc'[q].saw = proc[q].saw
           \/ /\ proc[q].pc = "overlap"
              /\ FindOverlapping(proc[q].row.emp, proc[q].row.start, proc[q].row.end) = {}
              /\ proc'[q].saw = Rows
              /\ UNCHANGED <<req, touched>>

\* A handler that moves on keeps every submit, its own included, on its path.
LEMMA FlowGoto ==
    ASSUME TypeOK, NEW p \in Procs, NEW r, Goto(p, r), NEW q \in Procs,
           r.pc \notin Checked \/ SubmitFlow(p)
    PROVE  SubmitFlow(q)
<1>1. CASE q # p
  <2>1. proc'[q] = proc[q]
    BY <1>1 DEF Goto, TypeOK
  <2> QED BY <2>1 DEF SubmitFlow
<1>2. CASE q = p
  <2>1. proc'[q] = r
    BY <1>2 DEF Goto, TypeOK
  <2> QED BY <1>2, <2>1 DEF SubmitFlow
<1> QED BY <1>1, <1>2

\* A handler that answers leaves the other submits where they are.
LEMMA FlowFinish ==
    ASSUME TypeOK, NEW p \in Procs, Finish(p), NEW q \in Procs
    PROVE  SubmitFlow(q)
<1>1. Idle.pc \notin Checked
  BY DEF Idle, Checked
<1> QED BY <1>1, FlowGoto DEF Finish

\* A handler that has decided what to save leaves the submits where they are.
LEMMA FlowSavePatch ==
    ASSUME TypeOK, NEW p \in Procs, NEW id, NEW cols, NEW new, SavePatch(p, id, cols, new),
           NEW q \in Procs
    PROVE  SubmitFlow(q)
<1> DEFINE r == [pc |-> "load", id |-> id, cols |-> cols, row |-> new]
<1>1. r.pc \notin Checked
  BY DEF Checked
<1>2. Goto(p, r)
  BY DEF SavePatch
<1> HIDE DEF r
<1> QED BY <1>1, <1>2, FlowGoto

\* A request that arrives leaves the submits in flight where they are.
LEMMA RequestFlow ==
    ASSUME TypeOK, NEW p \in Procs, Request(p), NEW q \in Procs
    PROVE  SubmitFlow(q)
<1>1. CASE SubmitBegin(p)
  <2>1. PICK r : Goto(p, r) /\ r.pc = "overlap"
    BY <1>1 DEF SubmitBegin
  <2> QED BY <2>1, FlowGoto DEF Checked
<1>2. ASSUME NEW u \in Users, NEW id \in ReqIds,
             Approve(p, u, id) \/ Reject(p, u, id) \/ Cancel(p, u, id) \/ Update(p, u, id)
      PROVE  SubmitFlow(q)
  <2>1. CASE \E cols, new : SavePatch(p, id, cols, new)
    BY <2>1, FlowSavePatch
  <2>2. CASE Goto(p, [pc |-> "approver", id |-> id, row |-> req[id]])
    <3> DEFINE r == [pc |-> "approver", id |-> id, row |-> req[id]]
    <3>1. r.pc \notin Checked
      BY DEF Checked
    <3>2. Goto(p, r)
      BY <2>2
    <3> HIDE DEF r
    <3> QED BY <3>1, <3>2, FlowGoto
  <2>3. CASE Approve(p, u, id)
    BY <2>1, <2>2, <2>3 DEF Approve, ApplyApproval
  <2>4. CASE Reject(p, u, id)
    BY <2>1, <2>4 DEF Reject
  <2>5. CASE Cancel(p, u, id)
    BY <2>1, <2>5 DEF Cancel
  <2>6. CASE Update(p, u, id)
    BY <2>1, <2>6 DEF Update, Edit
  <2> QED BY <1>2, <2>3, <2>4, <2>5, <2>6
<1> QED BY <1>1, <1>2 DEF Request

\* Every step of a handler keeps every submit on its path.
LEMMA HandlerFlow ==
    ASSUME TypeOK, NEW p \in Procs, HandlerStep(p), NEW q \in Procs
    PROVE  SubmitFlow(q)
<1>1. CASE SubmitCheckOverlap(p)
  <2>1. CASE Finish(p)
    BY <2>1, FlowFinish
  <2>2. CASE /\ FindOverlapping(proc[p].row.emp, proc[p].row.start, proc[p].row.end) = {}
             /\ Goto(p, [pc |-> "lock", row |-> proc[p].row, saw |-> Rows])
    <3>1. proc'[p] = [pc |-> "lock", row |-> proc[p].row, saw |-> Rows]
      BY <2>2 DEF Goto, TypeOK
    <3>2. SubmitFlow(p)
      BY <1>1, <2>2, <3>1 DEF SubmitFlow, SubmitCheckOverlap, history
    <3> QED BY <2>2, <3>2, FlowGoto
  <2> QED BY <1>1, <2>1, <2>2 DEF SubmitCheckOverlap
<1>2. CASE SubmitLock(p)
  <2> DEFINE r == [pc |-> "balance", row |-> proc[p].row, saw |-> proc[p].saw,
                   sum |-> allowance[KeyOf(proc[p].row)]]
  <2>1. Goto(p, r)
    BY <1>2 DEF SubmitLock
  <2>2. proc'[p] = r
    BY <2>1 DEF Goto, TypeOK
  <2>3. SubmitFlow(p)
    BY <1>2, <2>2 DEF SubmitFlow, SubmitLock, Checked
  <2> HIDE DEF r
  <2> QED BY <2>1, <2>3, FlowGoto
<1>3. CASE SubmitCheckBalance(p)
  <2>1. CASE Finish(p)
    BY <2>1, FlowFinish
  <2>2. CASE Goto(p, [pc |-> "insert", row |-> proc[p].row, saw |-> proc[p].saw])
    <3>1. proc'[p] = [pc |-> "insert", row |-> proc[p].row, saw |-> proc[p].saw]
      BY <2>2 DEF Goto, TypeOK
    <3>2. SubmitFlow(p)
      BY <1>3, <3>1 DEF SubmitFlow, SubmitCheckBalance, Checked
    <3> QED BY <2>2, <3>2, FlowGoto
  <2> QED BY <1>3, <2>1, <2>2 DEF SubmitCheckBalance
<1>4. CASE SubmitInsert(p)
  BY <1>4, FlowFinish DEF SubmitInsert
<1>5. CASE ApproveCheckApprover(p)
  BY <1>5, FlowFinish, FlowSavePatch DEF ApproveCheckApprover, ApplyApproval
<1>6. CASE SaveLoad(p)
  <2>1. PICK r : Goto(p, r) /\ r.pc = "diff"
    BY <1>6 DEF SaveLoad
  <2> QED BY <2>1, FlowGoto DEF Checked
<1>7. CASE SaveDiff(p)
  <2>1. CASE Finish(p)
    BY <2>1, FlowFinish
  <2>2. CASE ~ Finish(p)
    <3>1. PICK r : Goto(p, r) /\ r.pc = "write"
      BY <1>7, <2>2 DEF SaveDiff
    <3> QED BY <3>1, FlowGoto DEF Checked
  <2> QED BY <2>1, <2>2
<1>8. CASE SaveWrite(p)
  BY <1>8, FlowFinish DEF SaveWrite
<1> QED BY <1>1, <1>2, <1>3, <1>4, <1>5, <1>6, <1>7, <1>8 DEF HandlerStep

\* Every step of the system keeps every submit on its path.
LEMMA Flow ==
    ASSUME TypeOK, [Next]_vars, NEW q \in Procs
    PROVE  SubmitFlow(q)
<1>1. CASE UNCHANGED proc
  BY <1>1 DEF SubmitFlow
<1>2. ASSUME NEW p \in Procs, Abort(p) PROVE SubmitFlow(q)
  BY <1>2, FlowFinish DEF Abort
<1> QED
  BY <1>1, <1>2, RequestFlow, HandlerFlow
  DEF Next, vars, Environment, SystemCancel, Grant, SetChain, SetActive, NextDay
-----------------------------------------------------------------------------
(***************************************************************************)
(* Overlaps.  Every row an overlap check saw is clear of the row checked,  *)
(* until an edit or a stale save touches one of the two.                   *)
(***************************************************************************)
Clear(rows, moved, i, row) ==
    i \notin moved /\ rows[i].status \in ActiveStatuses /\ rows[i].emp = row.emp
        => rows[i].end < row.start \/ row.end < rows[i].start

OverlapInv ==
    /\ \A p \in Procs : proc[p].pc \in Checked =>
        \A i \in proc[p].saw : req[i] # None /\ Clear(req, touched, i, proc[p].row)
    /\ \A j \in ReqIds : req[j] # None =>
        \A i \in checked[j] :
            /\ i # j /\ req[i] # None
            /\ j \notin touched /\ req[j].status \in ActiveStatuses =>
                 Clear(req, touched, i, req[j])

\* A row that is clear stays so as rows evolve.
LEMMA ClearStays ==
    ASSUME RowsEvolve, NEW i \in ReqIds, req[i] # None, NEW row, Clear(req, touched, i, row)
    PROVE  req'[i] # None /\ Clear(req', touched', i, row)
BY DEF RowsEvolve, RowEvolves, SameBooking, Clear

\* What no overlap was found with is clear.
LEMMA NoneFoundIsClear ==
    ASSUME TypeOK, NEW row \in Row, FindOverlapping(row.emp, row.start, row.end) = {},
           NEW i \in ReqIds, req[i] # None
    PROVE  Clear(req, touched, i, row)
<1> USE ConstantsAssumption
<1>1. i \notin FindOverlapping(row.emp, row.start, row.end)
  OBVIOUS
<1>2. req[i].status \in ActiveStatuses /\ req[i].emp = row.emp =>
        ~ Overlap(req[i].start, req[i].end, row.start, row.end)
  BY <1>1 DEF FindOverlapping, IsActive, Exists
<1>3. req[i] \in Row
  BY DEF TypeOK
<1>4. /\ req[i].start \in Int /\ req[i].end \in Int
      /\ row.start \in Int /\ row.end \in Int
  BY <1>3 DEF Row, Days
<1> QED BY <1>2, <1>4 DEF Clear, Overlap

\* The part of the invariant about handlers.
LEMMA HandlersStayClear ==
    ASSUME TypeOK, OverlapInv, RowsEvolve, NEW p \in Procs, SubmitFlow(p),
           proc'[p].pc \in Checked, NEW i \in proc'[p].saw
    PROVE  i \in ReqIds /\ req'[i] # None /\ Clear(req', touched', i, proc'[p].row)
<1>1. proc'[p].row = proc[p].row
  BY DEF SubmitFlow
<1>2. CASE proc[p].pc \in Checked /\ proc'[p].saw = proc[p].saw
  <2>1. i \in ReqIds
    BY <1>2, HandlerState DEF Checked
  <2>2. req[i] # None /\ Clear(req, touched, i, proc[p].row)
    BY <1>2 DEF OverlapInv
  <2> QED BY <1>1, <2>1, <2>2, ClearStays
<1>3. CASE /\ proc[p].pc = "overlap"
           /\ FindOverlapping(proc[p].row.emp, proc[p].row.start, proc[p].row.end) = {}
           /\ proc'[p].saw = Rows
  <2>1. i \in ReqIds /\ req[i] # None
    BY <1>3 DEF Rows, Exists
  <2>2. proc[p].row \in Row
    BY <1>3, HandlerState
  <2>3. Clear(req, touched, i, proc[p].row)
    BY <1>3, <2>1, <2>2, NoneFoundIsClear
  <2> QED BY <1>1, <2>1, <2>3, ClearStays
<1> QED BY <1>2, <1>3 DEF SubmitFlow

\* The part about stored rows: those that were there before the step.
LEMMA RowsStayClear ==
    ASSUME TypeOK, OverlapInv, RowsEvolve, NEW j \in ReqIds, req[j] # None,
           checked'[j] = checked[j], NEW i \in checked'[j]
    PROVE  /\ i # j /\ req'[i] # None
           /\ j \notin touched' /\ req'[j].status \in ActiveStatuses =>
                Clear(req', touched', i, req'[j])
<1>1. i \in ReqIds
  BY DEF TypeOK
<1>2. /\ i # j /\ req[i] # None
      /\ j \notin touched /\ req[j].status \in ActiveStatuses => Clear(req, touched, i, req[j])
  BY DEF OverlapInv
<1>3. req'[i] # None
  BY <1>1, <1>2 DEF RowsEvolve, RowEvolves
<1>4. ASSUME j \notin touched', req'[j].status \in ActiveStatuses
      PROVE  Clear(req', touched', i, req'[j])
  <2>1. /\ j \notin touched /\ req[j].status \in ActiveStatuses
        /\ SameBooking(req[j], req'[j]) /\ req'[j].emp = req[j].emp
    BY <1>4 DEF RowsEvolve, RowEvolves
  <2>2. Clear(req', touched', i, req[j])
    BY <2>1, <1>1, <1>2, ClearStays
  <2> QED BY <2>1, <2>2 DEF Clear, SameBooking
<1> QED BY <1>2, <1>3, <1>4

\* Every step keeps checked requests clear of what their check saw.
LEMMA NextOverlap ==
    ASSUME TypeOK, DecisionInv, OverlapInv, [Next]_vars
    PROVE  OverlapInv'
<1>1. RowsEvolve
  BY Evolution, InsertEvolves
<1>2. \A p \in Procs : proc'[p].pc \in Checked =>
        \A i \in proc'[p].saw : req'[i] # None /\ Clear(req', touched', i, proc'[p].row)
  BY <1>1, Flow, HandlersStayClear
<1>3. CASE \A p \in Procs : ~ SubmitInsert(p)
  <2>1. AddsNoRow
    BY <1>3, Evolution
  <2>2. ASSUME NEW j \in ReqIds, req'[j] # None, NEW i \in checked'[j]
        PROVE  /\ i # j /\ req'[i] # None
               /\ j \notin touched' /\ req'[j].status \in ActiveStatuses =>
                    Clear(req', touched', i, req'[j])
    <3>1. req[j] # None /\ checked'[j] = checked[j]
      BY <2>1, <2>2 DEF AddsNoRow
    <3> QED BY <1>1, <2>2, <3>1, RowsStayClear
  <2> QED BY <1>2, <2>2 DEF OverlapInv
<1>4. ASSUME NEW p \in Procs, SubmitInsert(p) PROVE OverlapInv'
  <2>1. PICK id \in ReqIds :
            /\ req[id] = None
            /\ req' = [req EXCEPT ![id] = proc[p].row]
            /\ checked' = [checked EXCEPT ![id] = proc[p].saw]
    BY <1>4 DEF SubmitInsert, Exists
  <2>2. proc[p].saw \subseteq ReqIds /\ proc[p].pc \in Checked
    BY <1>4, HandlerState DEF SubmitInsert, Checked
  <2>3. ASSUME NEW j \in ReqIds, req'[j] # None, NEW i \in checked'[j]
        PROVE  /\ i # j /\ req'[i] # None
               /\ j \notin touched' /\ req'[j].status \in ActiveStatuses =>
                    Clear(req', touched', i, req'[j])
    <3>1. CASE j = id
      <4>1. i \in proc[p].saw /\ req'[j] = proc[p].row
        BY <2>1, <2>3, <3>1 DEF TypeOK
      <4>2. i \in ReqIds /\ req[i] # None /\ Clear(req, touched, i, proc[p].row)
        BY <2>2, <4>1 DEF OverlapInv
      <4>3. i # j
        BY <2>1, <3>1, <4>2
      <4> QED BY <1>1, <4>1, <4>2, <4>3, ClearStays
    <3>2. CASE j # id
      <4>1. req[j] # None /\ checked'[j] = checked[j]
        BY <2>1, <2>3, <3>2 DEF TypeOK
      <4> QED BY <1>1, <2>3, <4>1, RowsStayClear
    <3> QED BY <3>1, <3>2
  <2> QED BY <1>2, <2>3 DEF OverlapInv
<1> QED BY <1>3, <1>4

\* Before the first request nothing overlaps.
LEMMA InitOverlap == Init => OverlapInv
BY DEF Init, OverlapInv, Idle, Checked

\* Two active requests of an employee overlap only when neither row existed as
\* the other's overlap check ran, unless an edit or a stale save moved one: the
\* one hole in the overlap check is the window it leaves open itself.
THEOREM OverlapsAreRaces == Spec => []OverlapsOnlyUnseen
<1>1. Init => TypeOK /\ DecisionInv /\ OverlapInv
  BY InitType, InitDecision, InitOverlap
<1>2. TypeOK /\ DecisionInv /\ OverlapInv /\ [Next]_vars => (TypeOK /\ DecisionInv /\ OverlapInv)'
  BY NextDecision, NextOverlap
<1>3. TypeOK /\ OverlapInv => OverlapsOnlyUnseen
  <2> USE ConstantsAssumption
  <2> SUFFICES ASSUME TypeOK, OverlapInv, NEW i \in ReqIds, NEW j \in ReqIds,
                      i # j, i \notin touched, j \notin touched, IsActive(i), IsActive(j),
                      req[i].emp = req[j].emp,
                      req[i].start <= req[j].end, req[j].start <= req[i].end,
                      i \in checked[j]
               PROVE  FALSE
    BY DEF OverlapsOnlyUnseen
  <2>1. Clear(req, touched, i, req[j])
    BY DEF OverlapInv, IsActive, Exists
  <2>2. req[i] \in Row /\ req[j] \in Row
    BY DEF TypeOK, IsActive, Exists
  <2>3. /\ req[i].start \in Int /\ req[i].end \in Int
        /\ req[j].start \in Int /\ req[j].end \in Int
    BY <2>2 DEF Row, Days
  <2> QED BY <2>1, <2>3 DEF Clear, IsActive
<1> QED BY <1>1, <1>2, <1>3, PTL DEF Spec
-----------------------------------------------------------------------------
(***************************************************************************)
(* Total, by induction over the natural numbers.  Induction is stated with *)
(* a set in place of a predicate (NatSetInduction).                        *)
(***************************************************************************)
\* Induction: a set that holds 0 and is closed under successor holds every natural.
LEMMA NatSetInduction ==
    ASSUME NEW S, 0 \in S, \A n \in Nat : n \in S => n + 1 \in S
    PROVE  Nat \subseteq S
<1> DEFINE R == {ss \in Nat \X Nat : ss[1] < ss[2]}
           T == Nat \ S
<1>1. IsWellFoundedOn(R, Nat)
  BY NatLessThanWellFounded, Zenon DEF OpToRel
<1>2. \A x, y \in Nat : x < y => <<x, y>> \in R
  OBVIOUS
<1>3. SUFFICES ASSUME T # {} PROVE FALSE
  OBVIOUS
<1>4. T \subseteq Nat
  OBVIOUS
<1>5. PICK x \in T : \A y \in T : ~ (<<y, x>> \in R)
  <2> HIDE DEF R, T
  <2> QED BY <1>1, <1>3, <1>4, WFMin
<1>6. x # 0 /\ x \in Nat
  OBVIOUS
<1>7. x - 1 \in Nat /\ x - 1 < x
  BY <1>6
<1>8. x - 1 \notin T
  BY <1>5, <1>7, <1>2, <1>6
<1> QED BY <1>8, <1>7, <1>6

IsSum(s, w, n) == s = [i \in 0..n |-> IF i = 0 THEN 0 ELSE s[i - 1] + w[i]]

\* The recursive definition of the partial sums has a solution.
LEMMA SumExists ==
    ASSUME NEW n \in Nat, NEW w
    PROVE  \E s : IsSum(s, w, n)
<1> DEFINE S == {m \in Nat : \E s : IsSum(s, w, m)}
<1>1. 0 \in S
  <2>1. IsSum([i \in 0..0 |-> 0], w, 0)
    BY DEF IsSum
  <2> QED BY <2>1
<1>2. ASSUME NEW m \in Nat, m \in S PROVE m + 1 \in S
  <2>1. PICK s : IsSum(s, w, m)
    BY <1>2
  <2> DEFINE t == [i \in 0..(m+1) |-> IF i = m + 1 THEN s[m] + w[m+1] ELSE s[i]]
  <2>2. \A i \in 0..m : t[i] = s[i]
    OBVIOUS
  <2>3. \A i \in 0..m : s[i] = IF i = 0 THEN 0 ELSE s[i - 1] + w[i]
    BY <2>1 DEF IsSum
  <2>4. \A i \in 0..(m+1) : t[i] = IF i = 0 THEN 0 ELSE t[i - 1] + w[i]
    <3> TAKE i \in 0..(m+1)
    <3>1. CASE i = m + 1
      BY <3>1, <2>2
    <3>2. CASE i # m + 1
      BY <3>2, <2>2, <2>3
    <3> QED BY <3>1, <3>2
  <2>5. IsSum(t, w, m + 1)
    BY <2>4 DEF IsSum
  <2> QED BY <2>5
<1> HIDE DEF S
<1>3. Nat \subseteq S
  BY <1>1, <1>2, NatSetInduction
<1> QED BY <1>3 DEF S

\* What the partial sums are.
LEMMA PartialTotalsDef ==
    ASSUME NEW n \in Nat, NEW w
    PROVE  /\ PartialTotals(w, n)[0] = 0
           /\ \A i \in 1..n : PartialTotals(w, n)[i] = PartialTotals(w, n)[i - 1] + w[i]
<1>1. IsSum(PartialTotals(w, n), w, n)
  BY SumExists DEF PartialTotals, IsSum
<1> DEFINE s == PartialTotals(w, n)
<1>2. \A i \in 0..n : s[i] = IF i = 0 THEN 0 ELSE s[i - 1] + w[i]
  <2> HIDE DEF s
  <2>1. IsSum(s, w, n)
    BY <1>1 DEF s
  <2> QED BY <2>1 DEF IsSum
<1> QED BY <1>2

\* A total of zeros is zero.
LEMMA TotalZero ==
    ASSUME NEW n \in Nat, NEW w, \A i \in 1..n : w[i] = 0
    PROVE  Total(w, n) = 0
<1> DEFINE s == PartialTotals(w, n)
           S == {m \in Nat : m <= n => s[m] = 0}
<1>s. s[0] = 0 /\ \A i \in 1..n : s[i] = s[i - 1] + w[i]
  BY PartialTotalsDef
<1> HIDE DEF s
<1>1. 0 \in S
  BY <1>s
<1>2. ASSUME NEW m \in Nat, m \in S PROVE m + 1 \in S
  <2>1. CASE m + 1 <= n
    <3>1. m + 1 \in 1..n /\ m <= n /\ (m + 1) - 1 = m
      BY <2>1
    <3>2. s[m + 1] = s[m] + w[m + 1] /\ w[m + 1] = 0 /\ s[m] = 0
      BY <3>1, <1>s, <1>2
    <3> QED BY <3>2
  <2>2. CASE ~ (m + 1 <= n)
    BY <2>2
  <2> QED BY <2>1, <2>2
<1> HIDE DEF S
<1>3. Nat \subseteq S
  BY <1>1, <1>2, NatSetInduction
<1>4. s[n] = 0
  BY <1>3 DEF S
<1> QED BY <1>4 DEF s, Total

\* A total of natural numbers is one, and grows with its terms.
LEMMA TotalMonotone ==
    ASSUME NEW n \in Nat, NEW v \in [1..n -> Nat], NEW w \in [1..n -> Nat],
           \A i \in 1..n : v[i] <= w[i]
    PROVE  Total(v, n) \in Nat /\ Total(w, n) \in Nat /\ Total(v, n) <= Total(w, n)
<1> DEFINE s == PartialTotals(v, n)
           t == PartialTotals(w, n)
           S == {m \in Nat : m <= n => s[m] \in Nat /\ t[m] \in Nat /\ s[m] <= t[m]}
<1>1. 0 \in S
  BY PartialTotalsDef
<1>2. ASSUME NEW m \in Nat, m \in S PROVE m + 1 \in S
  <2>1. CASE m + 1 <= n
    <3>1. m + 1 \in 1..n /\ m <= n
      BY <2>1
    <3>2. s[m + 1] = s[m] + v[m + 1] /\ t[m + 1] = t[m] + w[m + 1]
      <4>1. (m + 1) - 1 = m
        OBVIOUS
      <4> QED BY <3>1, <4>1, PartialTotalsDef
    <3>3. v[m + 1] \in Nat /\ w[m + 1] \in Nat /\ v[m + 1] <= w[m + 1]
      BY <3>1
    <3>4. s[m] \in Nat /\ t[m] \in Nat /\ s[m] <= t[m]
      BY <1>2, <3>1
    <3> HIDE DEF s, t
    <3> QED BY <3>2, <3>3, <3>4
  <2>2. CASE ~ (m + 1 <= n)
    BY <2>2
  <2> QED BY <2>1, <2>2
<1> HIDE DEF S
<1>3. Nat \subseteq S
  BY <1>1, <1>2, NatSetInduction
<1> QED BY <1>3 DEF S, Total

\* When one term grows by at most d and no other grows, the total grows by at most d.
LEMMA TotalGrowsBy ==
    ASSUME NEW n \in Nat, NEW v \in [1..n -> Nat], NEW w \in [1..n -> Nat],
           NEW k \in 1..n, NEW d \in Nat, w[k] <= v[k] + d,
           \A i \in 1..n : i # k => w[i] <= v[i]
    PROVE  Total(w, n) <= Total(v, n) + d
<1> DEFINE s == PartialTotals(v, n)
           t == PartialTotals(w, n)
           S == {m \in Nat : m <= n =>
                    s[m] \in Nat /\ t[m] \in Nat /\ t[m] <= s[m] + (IF k <= m THEN d ELSE 0)}
<1>s. s[0] = 0 /\ \A i \in 1..n : s[i] = s[i - 1] + v[i]
  BY PartialTotalsDef
<1>t. t[0] = 0 /\ \A i \in 1..n : t[i] = t[i - 1] + w[i]
  BY PartialTotalsDef
<1> HIDE DEF s, t
<1>1. 0 \in S
  BY <1>s, <1>t
<1>2. ASSUME NEW m \in Nat, m \in S PROVE m + 1 \in S
  <2>1. CASE m + 1 <= n
    <3>1. m + 1 \in 1..n /\ m <= n
      BY <2>1
    <3>2. s[m + 1] = s[m] + v[m + 1] /\ t[m + 1] = t[m] + w[m + 1]
      <4>1. (m + 1) - 1 = m
        OBVIOUS
      <4> QED BY <3>1, <4>1, <1>s, <1>t
    <3>3. v[m + 1] \in Nat /\ w[m + 1] \in Nat
      BY <3>1
    <3>4. s[m] \in Nat /\ t[m] \in Nat /\ t[m] <= s[m] + (IF k <= m THEN d ELSE 0)
      BY <1>2, <3>1
    <3>5. s[m + 1] \in Nat /\ t[m + 1] \in Nat
      <4>1. s[m] \in Nat /\ t[m] \in Nat
        BY <3>4
      <4> QED BY <3>1, <3>2, <3>3, <4>1
    <3>6. t[m + 1] <= s[m + 1] + (IF k <= m + 1 THEN d ELSE 0)
      <4>1. CASE k <= m
        <5>1. w[m + 1] <= v[m + 1] /\ t[m] <= s[m] + d
          BY <4>1, <3>1, <3>4
        <5> QED BY <4>1, <5>1, <3>1, <3>2, <3>3, <3>4
      <4>2. CASE k = m + 1
        <5>1. w[m + 1] <= v[m + 1] + d /\ t[m] <= s[m]
          BY <4>2, <3>1, <3>4
        <5> QED BY <4>2, <5>1, <3>1, <3>2, <3>3, <3>4
      <4>3. CASE m + 1 < k
        <5>1. w[m + 1] <= v[m + 1] /\ t[m] <= s[m]
          BY <4>3, <3>1, <3>4
        <5> QED BY <4>3, <5>1, <3>1, <3>2, <3>3, <3>4
      <4> QED BY <4>1, <4>2, <4>3
    <3> QED BY <3>5, <3>6
  <2>2. CASE ~ (m + 1 <= n)
    BY <2>2
  <2> QED BY <2>1, <2>2
<1> HIDE DEF S
<1>3. Nat \subseteq S
  BY <1>1, <1>2, NatSetInduction
<1>4. t[n] <= s[n] + d
  BY <1>3 DEF S
<1> QED BY <1>4 DEF s, t, Total
-----------------------------------------------------------------------------
(***************************************************************************)
(* Balances.  Reserved is the total that ReservationsFitAllowance bounds.  *)
(* A submit about to insert holds the lock of its key, and its days fit on *)
(* top of what is reserved.                                                *)
(***************************************************************************)
Weight(rows, moved, k) ==
    [id \in ReqIds |->
        IF /\ rows[id] # None /\ rows[id].status \in ActiveStatuses
           /\ KeyOf(rows[id]) = k /\ id \notin moved
        THEN rows[id].days ELSE 0]

Reserved(rows, moved, k) == Total(Weight(rows, moved, k), MaxReq)

BalanceInv ==
    /\ \A k \in Keys : Reserved(req, touched, k) <= allowance[k]
    /\ \A p \in Procs : proc[p].pc = "balance" =>
        /\ proc[p].sum <= allowance[KeyOf(proc[p].row)]
        /\ proc[p].sum > 0 => lock[KeyOf(proc[p].row)] = p
    /\ \A p \in Procs : proc[p].pc = "insert" =>
        /\ lock[KeyOf(proc[p].row)] = p
        /\ Reserved(req, touched, KeyOf(proc[p].row)) + proc[p].row.days
                <= allowance[KeyOf(proc[p].row)]

\* The weights of the rows are natural numbers.
LEMMA WeightType ==
    ASSUME NEW rows \in [ReqIds -> Row \cup {None}], NEW moved, NEW k
    PROVE  Weight(rows, moved, k) \in [1..MaxReq -> Nat]
<1>1. \A id \in ReqIds : rows[id] # None => rows[id].days \in Nat
  BY DEF Row
<1> QED BY <1>1 DEF Weight, ReqIds

\* What a key has reserved is a natural number.
LEMMA ReservedType ==
    ASSUME NEW rows \in [ReqIds -> Row \cup {None}], NEW moved, NEW k
    PROVE  Reserved(rows, moved, k) \in Nat
<1> USE ConstantsAssumption
<1>1. Weight(rows, moved, k) \in [1..MaxReq -> Nat]
  BY WeightType
<1>2. \A i \in 1..MaxReq : Weight(rows, moved, k)[i] <= Weight(rows, moved, k)[i]
  BY <1>1
<1> QED BY <1>1, <1>2, TotalMonotone DEF Reserved

\* What is reserved is part of what is consumed.
LEMMA ReservedInConsumed ==
    ASSUME TypeOK, NEW k
    PROVE  Consumed(k) \in Nat /\ Reserved(req, touched, k) <= Consumed(k)
<1> USE ConstantsAssumption
<1> DEFINE v == Weight(req, touched, k)
           w == DaysOf(Consuming(k))
<1>1. v \in [1..MaxReq -> Nat]
  BY WeightType DEF TypeOK
<1>2. \A id \in ReqIds : req[id] # None => req[id].days \in Nat
  BY DEF TypeOK, Row
<1>3. w \in [1..MaxReq -> Nat]
  BY <1>2 DEF DaysOf, Consuming, IsActive, Exists, ReqIds
<1>4. \A i \in 1..MaxReq : v[i] <= w[i]
  BY <1>2 DEF Weight, DaysOf, Consuming, IsActive, Exists, ReqIds
<1> HIDE DEF v, w
<1>5. Total(w, MaxReq) \in Nat /\ Total(v, MaxReq) <= Total(w, MaxReq)
  BY <1>1, <1>3, <1>4, TotalMonotone
<1> QED BY <1>5 DEF v, w, Reserved, Consumed

\* What is reserved grows only by an insert.
LEMMA ReservedFalls ==
    ASSUME TypeOK, TypeOK', RowsEvolve, AddsNoRow, NEW k
    PROVE  Reserved(req', touched', k) <= Reserved(req, touched, k)
<1> USE ConstantsAssumption
<1> DEFINE v == Weight(req', touched', k)
           w == Weight(req, touched, k)
<1>1. v \in [1..MaxReq -> Nat] /\ w \in [1..MaxReq -> Nat]
  BY WeightType DEF TypeOK
<1>2. ASSUME NEW i \in ReqIds PROVE v[i] <= w[i]
  <2>1. CASE req[i] = None
    BY <2>1 DEF Weight, AddsNoRow
  <2>2. CASE req[i] # None
    <3>1. CASE i \in touched'
      <4>1. v[i] = 0 /\ w[i] \in Nat
        BY <1>1, <3>1 DEF Weight, ReqIds
      <4> HIDE DEF v, w
      <4> QED BY <4>1
    <3>2. CASE i \notin touched'
      <4>1. /\ req'[i] # None /\ req'[i].emp = req[i].emp /\ i \notin touched
            /\ SameBooking(req[i], req'[i])
            /\ req'[i].status \in ActiveStatuses => req[i].status \in ActiveStatuses
        BY <2>2, <3>2 DEF RowsEvolve, RowEvolves
      <4>2. req[i].days \in Nat /\ req'[i].days = req[i].days /\ KeyOf(req'[i]) = KeyOf(req[i])
        BY <2>2, <4>1 DEF TypeOK, Row, SameBooking, KeyOf
      <4> QED BY <2>2, <3>2, <4>1, <4>2 DEF Weight
    <3> QED BY <3>1, <3>2
  <2> QED BY <2>1, <2>2
<1>3. \A i \in 1..MaxReq : v[i] <= w[i]
  BY <1>2 DEF ReqIds
<1> HIDE DEF v, w
<1>4. Total(v, MaxReq) <= Total(w, MaxReq)
  BY <1>1, <1>3, TotalMonotone
<1> QED BY <1>4 DEF v, w, Reserved

\* An insert adds the days of its row to its own key and nothing to another.
LEMMA ReservedByInsert ==
    ASSUME TypeOK, TypeOK', NEW row \in Row, NEW id \in ReqIds, req[id] = None,
           req' = [req EXCEPT ![id] = row], UNCHANGED touched, NEW k
    PROVE  Reserved(req', touched', k)
                <= Reserved(req, touched, k) + (IF KeyOf(row) = k THEN row.days ELSE 0)
<1> USE ConstantsAssumption
<1> DEFINE v == Weight(req, touched, k)
           w == Weight(req', touched', k)
           d == IF KeyOf(row) = k THEN row.days ELSE 0
<1>1. v \in [1..MaxReq -> Nat] /\ w \in [1..MaxReq -> Nat]
  BY WeightType DEF TypeOK
<1>2. d \in Nat /\ row.days \in Nat
  BY DEF Row
<1>3. w[id] <= v[id] + d
  <2>1. v[id] = 0
    BY DEF Weight
  <2>2. req'[id] = row
    BY DEF TypeOK
  <2>3. w[id] <= d
    BY <2>2, <1>2 DEF Weight
  <2> HIDE DEF v, w, d
  <2> QED BY <2>1, <2>3, <1>2
<1>4. ASSUME NEW i \in 1..MaxReq, i # id PROVE w[i] <= v[i]
  <2>1. w[i] = v[i]
    BY <1>4 DEF Weight, TypeOK, ReqIds
  <2> HIDE DEF v, w, d
  <2> QED BY <1>1, <2>1
<1> HIDE DEF v, w, d
<1>5. Total(w, MaxReq) <= Total(v, MaxReq) + d
  <2>1. MaxReq \in Nat /\ id \in 1..MaxReq
    BY DEF ReqIds
  <2> QED BY <1>1, <1>2, <1>3, <1>4, <2>1, TotalGrowsBy
<1>6. /\ Reserved(req', touched', k) = Total(w, MaxReq)
      /\ Reserved(req, touched, k) = Total(v, MaxReq)
  BY Zenon DEF v, w, Reserved
<1>7. d = IF KeyOf(row) = k THEN row.days ELSE 0
  BY DEF d
<1> QED BY <1>5, <1>6, <1>7

(***************************************************************************)
(* One handler acts at a time: the others keep their state and their locks *)
(* and the actor comes to its balance check or its insert by SubmitLock or *)
(* by a balance check that passed.                                         *)
(***************************************************************************)
KeepsLocks(q) == \A k \in Keys : lock[k] = q => lock'[k] = q

Passes(p) ==
    /\ SubmitCheckBalance(p)
    /\ UNCHANGED lock
    /\ proc'[p].row = proc[p].row
    /\ ~ (proc[p].sum - Consumed(KeyOf(proc[p].row)) < proc[p].row.days)

Acts(p) ==
    /\ \A q \in Procs : q # p => proc'[q] = proc[q] /\ KeepsLocks(q)
    /\ proc'[p].pc \notin {"balance", "insert"}
        \/ (proc'[p].pc = "balance" /\ SubmitLock(p))
        \/ (proc'[p].pc = "insert" /\ Passes(p))

\* A handler that unlocks its own rows leaves the locks of the others held.
LEMMA UnlockKeeps ==
    ASSUME NEW p \in Procs, Unlock(p) \/ UNCHANGED lock, NEW q, q # p
    PROVE  KeepsLocks(q)
BY DEF Unlock, KeepsLocks

\* A handler that moves on outside a transaction leaves the locks of the others held.
LEMMA GotoActs ==
    ASSUME TypeOK, NEW p \in Procs, NEW r, Goto(p, r), r.pc \notin {"balance", "insert"},
           Unlock(p) \/ UNCHANGED lock
    PROVE  Acts(p)
<1>1. \A q \in Procs : q # p => proc'[q] = proc[q] /\ KeepsLocks(q)
  BY UnlockKeeps DEF Goto, TypeOK
<1>2. proc'[p] = r
  BY DEF Goto, TypeOK
<1> QED BY <1>1, <1>2 DEF Acts

\* A handler that answers leaves the locks of the others held.
LEMMA FinishActs ==
    ASSUME TypeOK, NEW p \in Procs, Finish(p), Unlock(p) \/ UNCHANGED lock
    PROVE  Acts(p)
<1>1. Idle.pc \notin {"balance", "insert"}
  BY DEF Idle
<1> QED BY <1>1, GotoActs DEF Finish

\* A handler that has decided what to save leaves the locks of the others held.
LEMMA SavePatchActs ==
    ASSUME TypeOK, NEW p \in Procs, NEW id, NEW cols, NEW new, SavePatch(p, id, cols, new),
           UNCHANGED lock
    PROVE  Acts(p)
<1> DEFINE r == [pc |-> "load", id |-> id, cols |-> cols, row |-> new]
<1>1. r.pc \notin {"balance", "insert"}
  OBVIOUS
<1>2. Goto(p, r)
  BY DEF SavePatch
<1> HIDE DEF r
<1> QED BY <1>1, <1>2, GotoActs

\* A request that arrives takes no lock and passes no balance check.
LEMMA RequestActs ==
    ASSUME TypeOK, NEW p \in Procs, Request(p)
    PROVE  Acts(p)
<1>1. CASE SubmitBegin(p)
  <2>1. (\E r : Goto(p, r) /\ r.pc = "overlap") /\ UNCHANGED lock
    BY <1>1 DEF SubmitBegin
  <2> QED BY <2>1, GotoActs
<1>2. ASSUME NEW u \in Users, NEW id \in ReqIds,
             Approve(p, u, id) \/ Reject(p, u, id) \/ Cancel(p, u, id) \/ Update(p, u, id)
      PROVE  Acts(p)
  <2>1. UNCHANGED lock
    BY <1>2 DEF Approve, Reject, Cancel, Update
  <2>2. CASE \E cols, new : SavePatch(p, id, cols, new)
    BY <2>1, <2>2, SavePatchActs
  <2>3. CASE Goto(p, [pc |-> "approver", id |-> id, row |-> req[id]])
    <3>1. \E r : Goto(p, r) /\ r.pc = "approver"
      BY <2>3
    <3> QED BY <2>1, <3>1, GotoActs
  <2>4. CASE Approve(p, u, id)
    BY <2>2, <2>3, <2>4 DEF Approve, ApplyApproval
  <2>5. CASE Reject(p, u, id)
    BY <2>2, <2>5 DEF Reject
  <2>6. CASE Cancel(p, u, id)
    BY <2>2, <2>6 DEF Cancel
  <2>7. CASE Update(p, u, id)
    BY <2>2, <2>7 DEF Update, Edit
  <2> QED BY <1>2, <2>4, <2>5, <2>6, <2>7
<1> QED BY <1>1, <1>2 DEF Request

\* A step of a handler disturbs only its own lock and its own progress.
LEMMA HandlerActs ==
    ASSUME TypeOK, NEW p \in Procs, HandlerStep(p)
    PROVE  Acts(p)
<1>1. CASE SubmitCheckOverlap(p)
  <2>1. UNCHANGED lock
    BY <1>1 DEF SubmitCheckOverlap
  <2>2. CASE Finish(p)
    BY <2>1, <2>2, FinishActs
  <2>3. CASE ~ Finish(p)
    <3>1. \E r : Goto(p, r) /\ r.pc = "lock"
      BY <1>1, <2>3 DEF SubmitCheckOverlap
    <3> QED BY <2>1, <3>1, GotoActs
  <2> QED BY <2>2, <2>3
<1>2. CASE SubmitLock(p)
  <2> USE ConstantsAssumption
  <2>1. ASSUME NEW q \in Procs, q # p PROVE proc'[q] = proc[q] /\ KeepsLocks(q)
    <3>1. proc'[q] = proc[q]
      BY <1>2, <2>1 DEF SubmitLock, Goto, TypeOK
    <3>2. ASSUME NEW k \in Keys, lock[k] = q PROVE lock'[k] = q
      <4>1. k = KeyOf(proc[p].row) => ~ LockFree(k)
        BY <3>2 DEF LockFree
      <4> QED BY <1>2, <3>2, <4>1 DEF SubmitLock, TypeOK
    <3> QED BY <3>1, <3>2 DEF KeepsLocks
  <2>2. proc'[p].pc = "balance"
    BY <1>2 DEF SubmitLock, Goto, TypeOK
  <2> QED BY <1>2, <2>1, <2>2 DEF Acts
<1>3. CASE SubmitCheckBalance(p)
  <2>1. CASE Finish(p) /\ RollBack(p)
    BY <2>1, FinishActs DEF RollBack
  <2>2. CASE ~ (Finish(p) /\ RollBack(p))
    <3>1. /\ ~ (proc[p].sum - Consumed(KeyOf(proc[p].row)) < proc[p].row.days)
          /\ Goto(p, [pc |-> "insert", row |-> proc[p].row, saw |-> proc[p].saw])
          /\ UNCHANGED lock
      BY <1>3, <2>2 DEF SubmitCheckBalance
    <3>2. proc'[p].pc = "insert" /\ Passes(p)
      BY <1>3, <3>1 DEF Passes, Goto, TypeOK
    <3>3. \A q \in Procs : q # p => proc'[q] = proc[q] /\ KeepsLocks(q)
      BY <3>1, UnlockKeeps DEF Goto, TypeOK
    <3> QED BY <3>2, <3>3 DEF Acts
  <2> QED BY <2>1, <2>2
<1>4. CASE SubmitInsert(p)
  BY <1>4, FinishActs DEF SubmitInsert
<1>5. CASE ApproveCheckApprover(p)
  BY <1>5, FinishActs, SavePatchActs DEF ApproveCheckApprover, ApplyApproval
<1>6. CASE SaveLoad(p)
  <2>1. (\E r : Goto(p, r) /\ r.pc = "diff") /\ UNCHANGED lock
    BY <1>6 DEF SaveLoad
  <2> QED BY <2>1, GotoActs
<1>7. CASE SaveDiff(p)
  <2>1. UNCHANGED lock
    BY <1>7 DEF SaveDiff
  <2>2. CASE Finish(p)
    BY <2>1, <2>2, FinishActs
  <2>3. CASE ~ Finish(p)
    <3>1. \E r : Goto(p, r) /\ r.pc = "write"
      BY <1>7, <2>3 DEF SaveDiff
    <3> QED BY <2>1, <3>1, GotoActs
  <2> QED BY <2>2, <2>3
<1>8. CASE SaveWrite(p)
  BY <1>8, FinishActs DEF SaveWrite
<1> QED BY <1>1, <1>2, <1>3, <1>4, <1>5, <1>6, <1>7, <1>8 DEF HandlerStep

\* Every step is of one handler, or touches neither handlers nor locks.
LEMMA Actor ==
    ASSUME TypeOK, [Next]_vars
    PROVE  UNCHANGED <<proc, lock>> \/ \E p \in Procs : Acts(p)
<1>1. ASSUME NEW p \in Procs, Abort(p) PROVE Acts(p)
  BY <1>1, FinishActs DEF Abort
<1> QED
  BY <1>1, RequestActs, HandlerActs
  DEF Next, vars, Environment, SystemCancel, Grant, SetChain, SetActive, NextDay

\* No step lowers an allowance: allocations are only appended.
LEMMA AllowanceGrows ==
    ASSUME TypeOK, [Next]_vars, NEW k \in Keys
    PROVE  allowance[k] \in Nat /\ allowance'[k] \in Nat /\ allowance[k] <= allowance'[k]
<1> USE ConstantsAssumption
<1>1. allowance \in [Keys -> Nat]
  BY DEF TypeOK
<1>2. CASE UNCHANGED allowance
  BY <1>1, <1>2
<1>3. ASSUME NEW j \in Keys, NEW n \in GrantAmounts, Grant(j, n)
      PROVE  allowance'[k] \in Nat /\ allowance[k] <= allowance'[k]
  BY <1>1, <1>3 DEF Grant
<1>4. CASE Environment
  BY <1>1, <1>2, <1>3, <1>4
  DEF Environment, SystemCancel, SetChain, SetActive, NextDay, environment
<1>5. ASSUME NEW p \in Procs, Request(p) \/ HandlerStep(p) \/ Abort(p)
      PROVE  UNCHANGED allowance
  <2>1. CASE Request(p)
    BY <2>1 DEF Request, SubmitBegin, Approve, Reject, Cancel, Update, environment
  <2>2. CASE HandlerStep(p)
    BY <2>2 DEF HandlerStep, SubmitCheckOverlap, SubmitLock, SubmitCheckBalance, SubmitInsert,
                ApproveCheckApprover, SaveLoad, SaveDiff, SaveWrite, environment
  <2>3. CASE Abort(p)
    BY <2>3 DEF Abort, environment
  <2> QED BY <1>5, <2>1, <2>2, <2>3
<1> QED BY <1>1, <1>2, <1>4, <1>5 DEF Next, vars

\* A row has a key and charges at least half a day.
LEMMA KeyType ==
    ASSUME NEW row \in Row
    PROVE  KeyOf(row) \in Keys /\ row.days \in Nat /\ row.days > 0
BY DEF KeyOf, Keys, Row

\* A balance check that passes leaves room for its row under the lock.
LEMMA PassesFits ==
    ASSUME TypeOK, BalanceInv, NEW p \in Procs, Passes(p)
    PROVE  LET k == KeyOf(proc[p].row)
           IN  lock[k] = p /\ Reserved(req, touched, k) + proc[p].row.days <= allowance[k]
<1> DEFINE k == KeyOf(proc[p].row)
<1>1. proc[p].pc = "balance" /\ proc[p].row \in Row /\ proc[p].sum \in Nat
  BY HandlerState DEF Passes, SubmitCheckBalance
<1>2. proc[p].sum <= allowance[k] /\ (proc[p].sum > 0 => lock[k] = p)
  BY <1>1 DEF BalanceInv
<1>3. k \in Keys /\ proc[p].row.days \in Nat /\ proc[p].row.days > 0 /\ allowance[k] \in Nat
  BY <1>1, KeyType DEF TypeOK
<1>4. /\ Consumed(k) \in Nat /\ Reserved(req, touched, k) \in Nat
      /\ Reserved(req, touched, k) <= Consumed(k)
  BY ReservedInConsumed, ReservedType DEF TypeOK
<1>5. ~ (proc[p].sum - Consumed(k) < proc[p].row.days)
  BY DEF Passes
<1> HIDE DEF k
<1>6. proc[p].sum > 0
  BY <1>1, <1>3, <1>4, <1>5
<1>7. Reserved(req, touched, k) + proc[p].row.days <= allowance[k]
  BY <1>1, <1>2, <1>3, <1>4, <1>5
<1> QED BY <1>2, <1>6, <1>7 DEF k

\* What a handler at the balance check or the insert knows, after the step.
Knows(q) ==
    LET k == KeyOf(proc'[q].row) IN
        /\ proc'[q].pc = "balance" =>
            proc'[q].sum <= allowance'[k] /\ (proc'[q].sum > 0 => lock'[k] = q)
        /\ proc'[q].pc = "insert" => lock'[k] = q

\* What a handler knows of the balance stays true while others act.
LEMMA KnowsKept ==
    ASSUME TypeOK, BalanceInv, [Next]_vars, NEW q \in Procs, proc'[q] = proc[q], KeepsLocks(q)
    PROVE  Knows(q)
<1> DEFINE k == KeyOf(proc[q].row)
<1>1. ASSUME proc[q].pc = "balance"
      PROVE  proc[q].sum <= allowance'[k] /\ (proc[q].sum > 0 => lock'[k] = q)
  <2>1. proc[q].row \in Row /\ proc[q].sum \in Nat
    BY <1>1, HandlerState
  <2>2. k \in Keys
    BY <2>1, KeyType
  <2>3. allowance[k] \in Nat /\ allowance'[k] \in Nat /\ allowance[k] <= allowance'[k]
    BY <2>2, AllowanceGrows
  <2>4. proc[q].sum <= allowance[k] /\ (proc[q].sum > 0 => lock[k] = q)
    BY <1>1 DEF BalanceInv
  <2> HIDE DEF k
  <2> QED BY <2>1, <2>2, <2>3, <2>4 DEF KeepsLocks
<1>2. ASSUME proc[q].pc = "insert" PROVE lock'[k] = q
  <2>1. k \in Keys
    BY <1>2, HandlerState, KeyType
  <2>2. lock[k] = q
    BY <1>2 DEF BalanceInv
  <2> QED BY <2>1, <2>2 DEF KeepsLocks
<1> QED BY <1>1, <1>2 DEF Knows

\* After every step each handler in its transaction knows its balance.
LEMMA EveryoneKnows ==
    ASSUME TypeOK, BalanceInv, [Next]_vars, NEW q \in Procs
    PROVE  Knows(q)
<1>1. CASE UNCHANGED <<proc, lock>>
  BY <1>1, KnowsKept DEF KeepsLocks
<1>2. ASSUME NEW p \in Procs, Acts(p) PROVE Knows(q)
  <2>1. CASE q # p
    BY <1>2, <2>1, KnowsKept DEF Acts
  <2>2. CASE q = p
    <3>1. CASE proc'[p].pc \notin {"balance", "insert"}
      BY <2>2, <3>1 DEF Knows
    <3>2. CASE SubmitLock(p)
      <4> DEFINE k == KeyOf(proc[p].row)
      <4>1. proc[p].row \in Row
        BY <3>2, HandlerState DEF SubmitLock
      <4>2. k \in Keys /\ allowance[k] \in Nat
        BY <4>1, KeyType DEF TypeOK
      <4>3. /\ proc'[p].pc = "balance" /\ proc'[p].row = proc[p].row
            /\ proc'[p].sum = allowance[k] /\ allowance' = allowance
        BY <3>2 DEF SubmitLock, Goto, TypeOK, environment
      <4>4. allowance[k] > 0 => lock'[k] = p
        BY <3>2, <4>2 DEF SubmitLock, TypeOK
      <4> HIDE DEF k
      <4>5. /\ proc'[p].sum <= allowance'[k]
            /\ proc'[p].sum > 0 => lock'[k] = p
        BY <4>2, <4>3, <4>4
      <4> QED BY <2>2, <4>3, <4>5 DEF Knows, k
    <3>3. CASE proc'[p].pc = "insert" /\ Passes(p)
      <4>1. lock[KeyOf(proc[p].row)] = p
        BY <3>3, PassesFits
      <4> QED BY <2>2, <3>3, <4>1 DEF Knows, Passes
    <3> QED BY <1>2, <3>1, <3>2, <3>3 DEF Acts
  <2> QED BY <2>1, <2>2
<1> QED BY <1>1, <1>2, Actor

\* A handler at the insert still has room for its row after any step.
LEMMA InsertFits ==
    ASSUME TypeOK, TypeOK', DecisionInv, BalanceInv, [Next]_vars, NEW q \in Procs,
           proc'[q].pc = "insert"
    PROVE  Reserved(req', touched', KeyOf(proc'[q].row)) + proc'[q].row.days
                <= allowance'[KeyOf(proc'[q].row)]
<1> DEFINE k == KeyOf(proc[q].row)
<1>1. CASE proc'[q] = proc[q]
  <2>1. proc[q].row \in Row
    BY <1>1, HandlerState
  <2>2. k \in Keys /\ proc[q].row.days \in Nat
    BY <2>1, KeyType
  <2>3. allowance[k] \in Nat /\ allowance'[k] \in Nat /\ allowance[k] <= allowance'[k]
    BY <2>2, AllowanceGrows
  <2>4. lock[k] = q /\ Reserved(req, touched, k) + proc[q].row.days <= allowance[k]
    BY <1>1 DEF BalanceInv
  <2>5. Reserved(req, touched, k) \in Nat /\ Reserved(req', touched', k) \in Nat
    BY ReservedType DEF TypeOK
  <2>6. Reserved(req', touched', k) <= Reserved(req, touched, k)
    <3>1. CASE \A p \in Procs : ~ SubmitInsert(p)
      BY <3>1, Evolution, ReservedFalls
    <3>2. ASSUME NEW p \in Procs, SubmitInsert(p)
          PROVE  Reserved(req', touched', k) <= Reserved(req, touched, k)
      <4>1. PICK id \in ReqIds : req[id] = None /\ req' = [req EXCEPT ![id] = proc[p].row]
        BY <3>2 DEF SubmitInsert, Exists
      <4>2. proc[p].row \in Row /\ lock[KeyOf(proc[p].row)] = p
        BY <3>2, HandlerState DEF SubmitInsert, BalanceInv
      <4>3. p # q
        BY <1>1, <3>2 DEF SubmitInsert, Finish, Goto, Idle, TypeOK
      <4>4. KeyOf(proc[p].row) # k
        BY <2>4, <4>2, <4>3
      <4>5. UNCHANGED touched
        BY <3>2 DEF SubmitInsert
      <4>6. Reserved(req', touched', k)
                <= Reserved(req, touched, k) + (IF KeyOf(proc[p].row) = k THEN proc[p].row.days ELSE 0)
        BY <4>1, <4>2, <4>5, ReservedByInsert
      <4> HIDE DEF k
      <4> QED BY <2>5, <4>4, <4>6
    <3> QED BY <3>1, <3>2
  <2> HIDE DEF k
  <2>7. Reserved(req', touched', k) + proc[q].row.days <= allowance'[k]
    BY <2>2, <2>3, <2>4, <2>5, <2>6
  <2> QED BY <1>1, <2>7 DEF k
<1>2. CASE Passes(q)
  <2>1. /\ UNCHANGED <<req, touched, allowance>> /\ proc'[q].row = proc[q].row
    BY <1>2 DEF Passes, SubmitCheckBalance, environment, history
  <2> QED BY <1>2, <2>1, PassesFits
<1>3. proc'[q] = proc[q] \/ Passes(q)
  <2>1. ASSUME NEW p \in Procs, Acts(p) PROVE proc'[q] = proc[q] \/ Passes(q)
    BY <2>1 DEF Acts
  <2> QED BY <2>1, Actor
<1> QED BY <1>1, <1>2, <1>3

\* Every step keeps the reservations of each key within its allowance.
LEMMA NextBalance ==
    ASSUME TypeOK, TypeOK', DecisionInv, BalanceInv, [Next]_vars
    PROVE  BalanceInv'
<1>1. ASSUME NEW k \in Keys PROVE Reserved(req', touched', k) <= allowance'[k]
  <2>1. allowance[k] \in Nat /\ allowance'[k] \in Nat /\ allowance[k] <= allowance'[k]
    BY AllowanceGrows
  <2>2. Reserved(req, touched, k) \in Nat /\ Reserved(req', touched', k) \in Nat
    BY ReservedType DEF TypeOK
  <2>3. Reserved(req, touched, k) <= allowance[k]
    BY DEF BalanceInv
  <2>4. CASE \A p \in Procs : ~ SubmitInsert(p)
    <3>1. Reserved(req', touched', k) <= Reserved(req, touched, k)
      BY <2>4, Evolution, ReservedFalls
    <3> QED BY <2>1, <2>2, <2>3, <3>1
  <2>5. ASSUME NEW p \in Procs, SubmitInsert(p) PROVE Reserved(req', touched', k) <= allowance'[k]
    <3>1. PICK id \in ReqIds : req[id] = None /\ req' = [req EXCEPT ![id] = proc[p].row]
      BY <2>5 DEF SubmitInsert, Exists
    <3>2. /\ proc[p].row \in Row
          /\ Reserved(req, touched, KeyOf(proc[p].row)) + proc[p].row.days
                <= allowance[KeyOf(proc[p].row)]
      BY <2>5, HandlerState DEF SubmitInsert, BalanceInv
    <3>3. proc[p].row.days \in Nat
      BY <3>2, KeyType
    <3>4. UNCHANGED touched
      BY <2>5 DEF SubmitInsert
    <3>5. Reserved(req', touched', k)
            <= Reserved(req, touched, k) + (IF KeyOf(proc[p].row) = k THEN proc[p].row.days ELSE 0)
      BY <3>1, <3>2, <3>4, ReservedByInsert
    <3>6. CASE KeyOf(proc[p].row) = k
      BY <2>1, <2>2, <3>2, <3>3, <3>5, <3>6
    <3>7. CASE KeyOf(proc[p].row) # k
      BY <2>1, <2>2, <2>3, <3>5, <3>7
    <3> QED BY <3>6, <3>7
  <2> QED BY <2>4, <2>5
<1> QED BY <1>1, EveryoneKnows, InsertFits DEF BalanceInv, Knows

\* Before the first request nothing is reserved.
LEMMA InitBalance == Init => BalanceInv
<1> USE ConstantsAssumption
<1> SUFFICES ASSUME Init PROVE BalanceInv
  OBVIOUS
<1>1. ASSUME NEW k \in Keys PROVE Reserved(req, touched, k) <= allowance[k]
  <2>1. \A i \in 1..MaxReq : Weight(req, touched, k)[i] = 0
    BY DEF Weight, Init, ReqIds
  <2>2. Reserved(req, touched, k) = 0
    BY <2>1, TotalZero DEF Reserved
  <2>3. allowance[k] \in Nat
    BY InitType DEF TypeOK
  <2> QED BY <2>2, <2>3
<1> QED BY <1>1 DEF Init, BalanceInv, Idle

\* Requests that hold days as their own submit booked them never take more than
\* the employee was allotted for the type, whatever else ran in between.
THEOREM ReservationsFit == Spec => []ReservationsFitAllowance
<1> DEFINE Inv == TypeOK /\ DecisionInv /\ BalanceInv
<1>1. Init => Inv
  BY InitType, InitDecision, InitBalance
<1>2. Inv /\ [Next]_vars => Inv'
  BY NextDecision, NextBalance
<1>3. Inv => ReservationsFitAllowance
  <2> SUFFICES ASSUME Inv, NEW k \in Keys
               PROVE  Total(DaysOf(Consuming(k) \ touched), MaxReq) <= allowance[k]
    BY DEF ReservationsFitAllowance
  <2>1. DaysOf(Consuming(k) \ touched) = Weight(req, touched, k)
    BY DEF DaysOf, Consuming, IsActive, Exists, Weight
  <2>2. Reserved(req, touched, k) <= allowance[k]
    BY DEF BalanceInv
  <2> QED BY <2>1, <2>2 DEF Reserved
<1> HIDE DEF Inv
<1> QED BY <1>1, <1>2, <1>3, PTL DEF Spec
=============================================================================
