------------------------ MODULE TimeCorrectionsProofs ------------------------
(***************************************************************************)
(* Proofs about TimeCorrections and the timesheet it writes, for any       *)
(* number of handlers, employees, entries, requests and chains.            *)
(***************************************************************************)
EXTENDS TimeCorrections, TLAPS

-----------------------------------------------------------------------------
(***************************************************************************)
(* Rows and patches                                                        *)
(***************************************************************************)
\* A patched row is a row.
LEMMA PatchedEntry ==
    ASSUME NEW row \in EntryRow, NEW patch, EntryPatch(patch)
    PROVE  Patched(row, patch) \in EntryRow
BY DEF Patched, EntryRow, EntryPatch

\* The columns in which a row differs from another form a patch.
LEMMA DeltaEntry ==
    ASSUME NEW wanted \in EntryRow, NEW stored
    PROVE  EntryPatch(Delta(wanted, stored))
BY DEF Delta, EntryRow, EntryPatch

\* A patch of a request leaves its employee, its target and its snapshot.
LEMMA PatchedReq ==
    ASSUME NEW row \in ReqRow, NEW patch, ReqPatch(patch)
    PROVE  /\ Patched(row, patch) \in ReqRow
           /\ Patched(row, patch).target = row.target
           /\ Patched(row, patch).l1 = row.l1 /\ Patched(row, patch).l2 = row.l2
           /\ Patched(row, patch).status =
                IF "status" \in DOMAIN patch THEN patch.status ELSE row.status
BY DEF Patched, ReqRow, ReqPatch

\* The columns in which two versions of a request differ form a patch, whose
\* status is the wanted one.
LEMMA DeltaReq ==
    ASSUME NEW wanted \in ReqRow, NEW stored \in ReqRow, wanted.emp = stored.emp,
           wanted.target = stored.target, wanted.l1 = stored.l1, wanted.l2 = stored.l2
    PROVE  /\ ReqPatch(Delta(wanted, stored))
           /\ "status" \in DOMAIN Delta(wanted, stored) => Delta(wanted, stored).status = wanted.status
BY DEF Delta, ReqRow, ReqPatch

\* The day of the clock is a work date.
LEMMA DayOfNow == ASSUME now \in Ticks PROVE DayOf(now) \in WorkDates
BY DEF WorkDates

\* Only the handler that moves changes.
LEMMA GotoOnly ==
    ASSUME DOMAIN proc = Procs, NEW p \in Procs, NEW r, Goto(p, r)
    PROVE  DOMAIN proc' = Procs /\ proc'[p] = r /\ \A q \in Procs \ {p} : proc'[q] = proc[q]
BY DEF Goto
-----------------------------------------------------------------------------
(***************************************************************************)
(* What the tables and the handlers hold                                   *)
(***************************************************************************)
\* Someone the request's snapshot names, or an override, has approved every step.
Signed(id) ==
    \/ \E u \in signed[id] : Overrides(u)
    \/ req[id].l1 \in signed[id] /\ (req[id].l2 = None \/ req[id].l2 \in signed[id])

\* What a status that is stored, or about to be, says of its request.
StatusMeans(id, status) ==
    /\ status = "approved" => id \in applied
    /\ status = "pending_l2" => req[id].l1 \in signed[id]

\* None of the requests a duplicate check saw is active on the target, but by revival.
SeenInactive(saw, target) ==
    /\ saw \subseteq Requests
    /\ target # None =>
        \A i \in saw : i \in revived \/ ~ IsActive(i) \/ req[i].target # target

\* Where a handler goes once the timesheet is written.
Onward(after) ==
    \/ after = Idle
    \/ \E id \in Requests : Signed(id) /\ after = SaveState(id, [status |-> "approved"])

FixRow == [emp : Employees, target : EntryIds \cup {None}, date : WorkDates, in : Ticks,
           out : Ticks \cup {None}]

EntryPcs == {"idle", "punch", "entry_load", "entry_diff", "entry_write", "entry_insert",
             "entry_delete", "apply", "apply_open"}

EntryHandlerOK(p) ==
    /\ proc[p].pc = "punch" => proc[p].emp \in Employees
    /\ proc[p].pc \in {"entry_load", "entry_diff", "entry_write", "entry_delete"} =>
        proc[p].id \in EntryIds
    /\ proc[p].pc \in {"entry_diff", "entry_write", "entry_delete"} => entry[proc[p].id] \in EntryRow
    /\ proc[p].pc \in {"entry_load", "entry_write"} => EntryPatch(proc[p].patch)
    /\ proc[p].pc \in {"entry_diff", "entry_insert"} => proc[p].row \in EntryRow
    /\ proc[p].pc \in {"apply", "apply_open"} => proc[p].fix \in FixRow
    /\ proc[p].pc \in {"entry_load", "entry_diff", "entry_write", "entry_insert", "apply", "apply_open"} =>
        Onward(proc[p].after)

SameSnapshot(row, id) ==
    row.emp = req[id].emp /\ row.target = req[id].target /\ row.l1 = req[id].l1 /\ row.l2 = req[id].l2

ReqHandlerOK(p) ==
    /\ proc[p].pc \in {"tc_owner", "tc_entry", "tc_date", "tc_day", "tc_insert"} =>
        proc[p].row \in ReqRow /\ proc[p].row.status = "pending_l1"
    /\ proc[p].pc \in {"tc_day", "tc_insert"} => SeenInactive(proc[p].saw, proc[p].row.target)
    /\ proc[p].pc \in {"tc_approver", "tc_load", "tc_diff", "tc_write"} => proc[p].id \in Requests
    /\ proc[p].pc = "tc_approver" =>
        /\ proc[p].row \in ReqRow /\ proc[p].row.status \in PendingStatuses
        /\ SameSnapshot(proc[p].row, proc[p].id) /\ StatusMeans(proc[p].id, proc[p].row.status)
        /\ proc[p].by \in Users /\ proc[p].by = CurrentStepApprover(proc[p].row)
    /\ proc[p].pc \in {"tc_load", "tc_write"} =>
        /\ ReqPatch(proc[p].patch)
        /\ "status" \in DOMAIN proc[p].patch => StatusMeans(proc[p].id, proc[p].patch.status)
    /\ proc[p].pc = "tc_diff" =>
        /\ proc[p].row \in ReqRow /\ SameSnapshot(proc[p].row, proc[p].id)
        /\ StatusMeans(proc[p].id, proc[p].row.status)

HandlerOK(p) == EntryHandlerOK(p) /\ ReqHandlerOK(p)

EntryTable ==
    /\ entry \in [EntryIds -> EntryRow \cup {None}]
    /\ \A id \in EntryIds : Exists(id) => ValidWindow(entry[id].in, entry[id].out)
    /\ raced \subseteq EntryIds /\ now \in Ticks /\ active \subseteq Users
    /\ OneOpenEntry

ReqTable ==
    /\ req \in [ReqIds -> ReqRow \cup {None}]
    /\ chain \in [Employees -> [l1 : Users \cup {None}, l2 : Users \cup {None}]]
    /\ signed \in [ReqIds -> SUBSET Users]
    /\ applied \subseteq Requests /\ revived \subseteq Requests
    /\ checked \in [ReqIds -> SUBSET ReqIds]
    /\ \A id \in Requests : StatusMeans(id, req[id].status) /\ SeenInactive(checked[id], req[id].target)
    /\ \A id \in applied : Signed(id)

Inv == EntryTable /\ ReqTable /\ DOMAIN proc = Procs /\ \A p \in Procs : HandlerOK(p)

\* What no step takes away: rows, snapshots, signatures and what the history has seen.
Grows ==
    /\ \A id \in EntryIds : entry[id] \in EntryRow => entry'[id] \in EntryRow
    /\ \A id \in Requests : /\ id \in Requests' /\ SameSnapshot(req'[id], id)
                            /\ signed[id] \subseteq signed'[id]
                            /\ IsActive(id)' => IsActive(id) \/ id \in revived'
    /\ applied \subseteq applied' /\ revived \subseteq revived'

\* Signatures are never withdrawn.
LEMMA SignedGrows ==
    ASSUME Grows, NEW id \in Requests, Signed(id)
    PROVE  Signed(id)'
BY DEF Grows, Signed, SameSnapshot, Overrides, Holds

\* Where a handler goes after the timesheet stays allowed while others step.
LEMMA OnwardGrows ==
    ASSUME Grows, NEW after, Onward(after)
    PROVE  Onward(after)'
BY SignedGrows DEF Onward, Grows, Idle, SaveState

\* What a status says of its request stays true while others step.
LEMMA MeansGrows ==
    ASSUME Grows, NEW id \in Requests, NEW s, StatusMeans(id, s)
    PROVE  StatusMeans(id, s)'
BY DEF Grows, StatusMeans, SameSnapshot

\* What a duplicate check saw stays inactive, or counts as revived.
LEMMA SeenGrows ==
    ASSUME Grows, NEW saw, NEW target, SeenInactive(saw, target)
    PROVE  SeenInactive(saw, target)'
BY DEF Grows, SeenInactive, SameSnapshot

\* A handler that waits meanwhile still holds what it held.
LEMMA OtherHandler ==
    ASSUME NEW q \in Procs, proc'[q] = proc[q], HandlerOK(q), Grows
    PROVE  HandlerOK(q)'
<1>1. EntryHandlerOK(q)'
  BY OnwardGrows DEF HandlerOK, EntryHandlerOK, Grows
<1>2. ReqHandlerOK(q)'
  <2>1. \A row : \A id \in Requests : SameSnapshot(row, id) => SameSnapshot(row, id)'
    BY DEF SameSnapshot, Grows
  <2>2. Requests \subseteq Requests'
    BY DEF Grows
  <2> QED BY <2>1, <2>2, SeenGrows, MeansGrows DEF HandlerOK, ReqHandlerOK
<1> QED BY <1>1, <1>2 DEF HandlerOK
-----------------------------------------------------------------------------
(***************************************************************************)
(* Steps of the timesheet                                                  *)
(***************************************************************************)
\* Where a step of TimeEntries leaves the handler that takes it.
Progress(p) ==
    /\ DOMAIN proc' = Procs /\ \A q \in Procs \ {p} : proc'[q] = proc[q]
    /\ \/ proc'[p].pc \in EntryPcs /\ EntryHandlerOK(p)'
       \/ Onward(proc'[p])

\* What it leaves of the timesheet.
EntryKept ==
    /\ EntryTable'
    /\ \A id \in EntryIds : entry[id] \in EntryRow => entry'[id] \in EntryRow

Frame == UNCHANGED <<req, signed, chain>>

\* A handler that ends makes progress.
LEMMA FinishProgress ==
    ASSUME Inv, NEW p \in Procs, Finish(p)
    PROVE  Progress(p)
<1>1. DOMAIN proc' = Procs /\ proc'[p] = Idle /\ \A q \in Procs \ {p} : proc'[q] = proc[q]
  BY GotoOnly DEF Inv, Finish
<1> QED BY <1>1 DEF Progress, Onward

\* So does one that goes on to save its request.
LEMMA AfterProgress ==
    ASSUME Inv, NEW p \in Procs, NEW after, Onward(after), Goto(p, after)
    PROVE  Progress(p)
BY GotoOnly DEF Inv, Progress

\* A step of the timesheet does not touch what the next state depends on.
LEMMA OnwardFrame ==
    ASSUME Frame, NEW after, Onward(after)
    PROVE  Onward(after)'
BY DEF Frame, Onward, Signed, Requests, Present, Idle, SaveState, Overrides, Holds

\* The same for the next state a handler carries.
LEMMA AfterFrame ==
    ASSUME Frame, NEW p \in Procs, Onward(proc[p].after), proc'[p].after = proc[p].after
    PROVE  Onward(proc[p].after)'
<1>1. PICK after : after = proc[p].after /\ Onward(after)
  OBVIOUS
<1>2. Onward(after)'
  BY <1>1, OnwardFrame
<1> QED BY <1>1, <1>2

\* The table stays as it should while nobody writes it.
LEMMA QuietEntries ==
    ASSUME Inv, UNCHANGED <<entryVars, now, active>>
    PROVE  EntryKept
BY DEF Inv, EntryKept, EntryTable, entryVars, Exists, OneOpenEntry, NotDeleted

\* A handler about to save a well-formed patch.
LEMMA SaveProgress ==
    ASSUME Inv, Frame, NEW p \in Procs, NEW id \in EntryIds, NEW patch, EntryPatch(patch),
           NEW after, Onward(after), SaveEntry(p, id, patch, after)
    PROVE  Progress(p)
<1> DEFINE r == [pc |-> "entry_load", id |-> id, patch |-> patch, after |-> after]
<1>1. DOMAIN proc' = Procs /\ proc'[p] = r /\ \A q \in Procs \ {p} : proc'[q] = proc[q]
  BY GotoOnly DEF Inv, SaveEntry
<1>2. Onward(after)'
  BY OnwardFrame
<1>3. proc'[p].pc = "entry_load" /\ proc'[p].id = id /\ proc'[p].patch = patch /\ proc'[p].after = after
  BY <1>1
<1>4. EntryPatch(proc'[p].patch)
  BY <1>3
<1> HIDE DEF r
<1> QED BY <1>1, <1>2, <1>3, <1>4 DEF Progress, EntryHandlerOK, EntryPcs

\* A handler about to insert a row.
LEMMA InsertProgress ==
    ASSUME Inv, Frame, NEW p \in Procs, NEW row \in EntryRow, NEW after, Onward(after),
           InsertEntry(p, row, after)
    PROVE  Progress(p)
<1>1. /\ DOMAIN proc' = Procs /\ proc'[p] = [pc |-> "entry_insert", row |-> row, after |-> after]
      /\ \A q \in Procs \ {p} : proc'[q] = proc[q]
  BY GotoOnly DEF Inv, InsertEntry
<1>2. Onward(after)'
  BY OnwardFrame
<1> QED BY <1>1, <1>2 DEF Progress, EntryHandlerOK, EntryPcs

\* What is inserted is a row.
LEMMA NewEntryType ==
    ASSUME NEW e \in Employees, NEW d \in WorkDates, NEW in \in Ticks, NEW out \in Ticks \cup {None}
    PROVE  NewEntry(e, d, in, out) \in EntryRow
BY DEF NewEntry, EntryRow, DeriveStatus

\* A punch that found the open entry, or none.
LEMMA PunchToggleOK ==
    ASSUME Inv, Frame, NEW p \in Procs, PunchToggle(p)
    PROVE  Progress(p) /\ EntryKept
<1>1. proc[p].pc = "punch" /\ proc[p].emp \in Employees /\ now \in Ticks
  BY DEF Inv, HandlerOK, EntryHandlerOK, EntryTable, PunchToggle
<1>2. Onward(Idle)
  BY DEF Onward
<1>3. ASSUME NEW id \in FindOpen(proc[p].emp),
             SaveEntry(p, id, [out |-> now, status |-> DeriveStatus(now)], Idle)
      PROVE  Progress(p)
  <2>1. EntryPatch([out |-> now, status |-> DeriveStatus(now)])
    BY <1>1 DEF EntryPatch, DeriveStatus
  <2> QED BY <1>2, <1>3, <2>1, SaveProgress DEF FindOpen
<1>4. ASSUME InsertEntry(p, NewEntry(proc[p].emp, DayOf(now), now, None), Idle) PROVE Progress(p)
  BY <1>1, <1>2, <1>4, NewEntryType, DayOfNow, InsertProgress
<1> QED BY <1>3, <1>4, FinishProgress, QuietEntries DEF PunchToggle

\* A correction sent to the repository.
LEMMA WriteCorrectionOK ==
    ASSUME Inv, Frame, NEW p \in Procs, NEW fix \in FixRow, NEW after, Onward(after),
           WriteCorrection(p, fix, after)
    PROVE  Progress(p)
<1>1. EntryPatch(Corrected(fix))
  BY DEF EntryPatch, Corrected, FixRow, DeriveStatus
<1>2. NewEntry(fix.emp, fix.date, fix.in, fix.out) \in EntryRow
  BY NewEntryType DEF FixRow
<1>3. fix.target # None => fix.target \in EntryIds
  BY DEF FixRow
<1> QED BY <1>1, <1>2, <1>3, SaveProgress, InsertProgress DEF WriteCorrection

\* The checks of applyCorrection.
LEMMA ApplyOK ==
    ASSUME Inv, Frame, NEW p \in Procs, ApplyFind(p) \/ ApplyOpen(p)
    PROVE  Progress(p) /\ EntryKept
<1>1. /\ proc[p].pc \in {"apply", "apply_open"} /\ proc[p].fix \in FixRow /\ Onward(proc[p].after)
      /\ UNCHANGED <<entryVars, now, active>>
  BY DEF Inv, HandlerOK, EntryHandlerOK, ApplyFind, ApplyOpen
<1>2. ASSUME Goto(p, [pc |-> "apply_open", fix |-> proc[p].fix, after |-> proc[p].after])
      PROVE  Progress(p)
  <2>1. /\ DOMAIN proc' = Procs /\ \A q \in Procs \ {p} : proc'[q] = proc[q]
        /\ proc'[p] = [pc |-> "apply_open", fix |-> proc[p].fix, after |-> proc[p].after]
    BY <1>2, GotoOnly DEF Inv
  <2>2. Onward(proc[p].after)'
    BY <1>1, <2>1, AfterFrame
  <2> QED BY <1>1, <2>1, <2>2 DEF Progress, EntryHandlerOK, EntryPcs
<1>3. \/ Finish(p) \/ WriteCorrection(p, proc[p].fix, proc[p].after)
      \/ Goto(p, [pc |-> "apply_open", fix |-> proc[p].fix, after |-> proc[p].after])
  BY DEF ApplyFind, ApplyOpen
<1> QED BY <1>1, <1>2, <1>3, FinishProgress, WriteCorrectionOK, QuietEntries

\* The row is loaded and patched.
LEMMA EntryLoadOK ==
    ASSUME Inv, Frame, NEW p \in Procs, EntryLoad(p)
    PROVE  Progress(p) /\ EntryKept
<1>1. /\ proc[p].pc = "entry_load" /\ proc[p].id \in EntryIds /\ EntryPatch(proc[p].patch)
      /\ Onward(proc[p].after) /\ UNCHANGED <<entryVars, now, active>>
  BY DEF Inv, HandlerOK, EntryHandlerOK, EntryLoad
<1>2. CASE ~ NotDeleted(proc[p].id)
  BY <1>1, <1>2, FinishProgress, QuietEntries DEF EntryLoad
<1>3. CASE NotDeleted(proc[p].id)
  <2> DEFINE row == Patched(entry[proc[p].id], proc[p].patch)
  <2>1. entry[proc[p].id] \in EntryRow
    BY <1>1, <1>3 DEF NotDeleted, Exists, Inv, EntryTable
  <2>2. row \in EntryRow
    BY <1>1, <2>1, PatchedEntry
  <2>3. Goto(p, [pc |-> "entry_diff", id |-> proc[p].id, row |-> row, after |-> proc[p].after])
    BY <1>3 DEF EntryLoad
  <2> HIDE DEF row
  <2>4. /\ DOMAIN proc' = Procs /\ \A q \in Procs \ {p} : proc'[q] = proc[q]
        /\ proc'[p] = [pc |-> "entry_diff", id |-> proc[p].id, row |-> row, after |-> proc[p].after]
    BY <2>3, GotoOnly DEF Inv
  <2>5. Onward(proc[p].after)'
    BY <1>1, <2>4, AfterFrame
  <2>6. entry'[proc'[p].id] \in EntryRow
    BY <1>1, <2>1, <2>4 DEF entryVars
  <2>7. Progress(p)
    BY <1>1, <2>2, <2>4, <2>5, <2>6 DEF Progress, EntryHandlerOK, EntryPcs
  <2> QED BY <1>1, <2>7, QuietEntries
<1> QED BY <1>2, <1>3

\* The columns that differ are kept.
LEMMA EntryDiffOK ==
    ASSUME Inv, Frame, NEW p \in Procs, EntryDiff(p)
    PROVE  Progress(p) /\ EntryKept
<1>1. /\ proc[p].pc = "entry_diff" /\ proc[p].id \in EntryIds /\ proc[p].row \in EntryRow
      /\ entry[proc[p].id] \in EntryRow
      /\ Onward(proc[p].after) /\ UNCHANGED <<entryVars, now, active>>
  BY DEF Inv, HandlerOK, EntryHandlerOK, EntryDiff
<1> DEFINE patch == Delta(proc[p].row, entry[proc[p].id])
<1>2. EntryPatch(patch)
  BY <1>1, DeltaEntry
<1>3. Goto(p, [pc |-> "entry_write", id |-> proc[p].id, patch |-> patch, after |-> proc[p].after])
  BY DEF EntryDiff
<1> HIDE DEF patch
<1>4. /\ DOMAIN proc' = Procs /\ \A q \in Procs \ {p} : proc'[q] = proc[q]
      /\ proc'[p] = [pc |-> "entry_write", id |-> proc[p].id, patch |-> patch, after |-> proc[p].after]
  BY <1>3, GotoOnly DEF Inv
<1>5. Onward(proc[p].after)'
  BY <1>1, <1>4, AfterFrame
<1>6. entry'[proc'[p].id] \in EntryRow
  BY <1>1, <1>4 DEF entryVars
<1>7. EntryPatch(proc'[p].patch)
  BY <1>2, <1>4
<1>8. Progress(p)
  BY <1>1, <1>4, <1>5, <1>6, <1>7 DEF Progress, EntryHandlerOK, EntryPcs
<1> QED BY <1>1, <1>8, QuietEntries

\* A deleted row keeps its window, and closes no other.
LEMMA SoftDeleteOK ==
    ASSUME Inv, Frame, NEW p \in Procs, SoftDeleteEntry(p)
    PROVE  Progress(p) /\ EntryKept
<1>1. PICK id \in EntryIds : id = proc[p].id /\ entry[id] \in EntryRow
  BY DEF Inv, HandlerOK, EntryHandlerOK, SoftDeleteEntry
<1>2. entry' = [entry EXCEPT ![id] = [entry[id] EXCEPT !.deleted = TRUE]]
  BY <1>1 DEF SoftDeleteEntry
<1> DEFINE row == [entry[id] EXCEPT !.deleted = TRUE]
<1>3. row \in EntryRow /\ row.deleted /\ row.in = entry[id].in /\ row.out = entry[id].out
  BY <1>1 DEF EntryRow
<1> HIDE DEF row
<1>4. entry' = [entry EXCEPT ![id] = row]
  BY <1>2 DEF row
<1>5. entry'[id] = row /\ \A j \in EntryIds : j # id => entry'[j] = entry[j]
  BY <1>4 DEF Inv, EntryTable
<1>6. entry' \in [EntryIds -> EntryRow \cup {None}]
  BY <1>3, <1>4 DEF Inv, EntryTable
<1>7. \A j \in EntryIds : Exists(j)' => ValidWindow(entry'[j].in, entry'[j].out)
  BY <1>1, <1>3, <1>5, EntryInputs DEF Inv, EntryTable, Exists
<1>8. \A j \in EntryIds : NotDeleted(j)' => j # id /\ NotDeleted(j)
  BY <1>3, <1>5 DEF NotDeleted, Exists
<1>9. OneOpenEntry'
  BY <1>5, <1>8 DEF Inv, EntryTable, OneOpenEntry
<1>10. EntryKept
  BY <1>3, <1>5, <1>6, <1>7, <1>9 DEF SoftDeleteEntry, EntryKept, EntryTable, Inv
<1>11. Progress(p)
  BY FinishProgress DEF SoftDeleteEntry
<1> QED BY <1>10, <1>11

\* A row that the table accepts.
LEMMA StoreOK ==
    ASSUME Inv, NEW id \in EntryIds, NEW row \in EntryRow, Storable(id, row),
           entry' = [entry EXCEPT ![id] = row], raced' \subseteq EntryIds, UNCHANGED <<now, active>>
    PROVE  EntryKept
<1>1. entry'[id] = row /\ \A j \in EntryIds : j # id => entry'[j] = entry[j]
  BY DEF Inv, EntryTable
<1>2. entry' \in [EntryIds -> EntryRow \cup {None}]
  BY DEF Inv, EntryTable
<1>3. \A j \in EntryIds : Exists(j)' => ValidWindow(entry'[j].in, entry'[j].out)
  BY <1>1 DEF Inv, EntryTable, Exists, Storable
<1>4. ASSUME NEW j \in EntryIds, j # id, NotDeleted(j)', NotDeleted(id)', row.status = "open",
             entry'[j].emp = row.emp
      PROVE  entry'[j].status # "open"
  <2>1. FindOpen(row.emp) \subseteq {id}
    BY <1>1, <1>4 DEF Storable, NotDeleted
  <2>2. NotDeleted(j)
    BY <1>1, <1>4 DEF NotDeleted, Exists
  <2> QED BY <1>1, <1>4, <2>1, <2>2 DEF FindOpen
<1>5. OneOpenEntry'
  <2> SUFFICES ASSUME NEW i \in EntryIds, NEW j \in EntryIds, i # j, NotDeleted(i)', NotDeleted(j)',
                      entry'[i].emp = entry'[j].emp, entry'[i].status = "open"
               PROVE  entry'[j].status # "open"
    BY DEF OneOpenEntry
  <2>1. CASE i # id /\ j # id
    <3>1. NotDeleted(i) /\ NotDeleted(j)
      BY <1>1, <2>1 DEF NotDeleted, Exists
    <3> QED BY <1>1, <2>1, <3>1 DEF Inv, EntryTable, OneOpenEntry
  <2>2. CASE i = id
    BY <1>1, <1>4, <2>2
  <2>3. CASE j = id /\ entry'[j].status = "open"
    BY <1>1, <1>4, <2>3
  <2> QED BY <2>1, <2>2, <2>3
<1> QED BY <1>1, <1>2, <1>3, <1>5 DEF EntryKept, EntryTable, Inv

\* An insert, or its refusal by the table.
LEMMA EntryInsertOK ==
    ASSUME Inv, Frame, NEW p \in Procs, EntryInsert(p)
    PROVE  Progress(p) /\ EntryKept
<1>1. proc[p].row \in EntryRow /\ Onward(proc[p].after) /\ UNCHANGED <<raced, now, active>>
  BY DEF Inv, HandlerOK, EntryHandlerOK, EntryInsert
<1>2. PICK id \in NextId(entry, None) :
        IF Storable(id, proc[p].row)
        THEN entry' = [entry EXCEPT ![id] = proc[p].row] /\ Goto(p, proc[p].after)
        ELSE UNCHANGED entry /\ Finish(p)
  BY DEF EntryInsert
<1>3. id \in EntryIds
  BY DEF NextId, Inv, EntryTable
<1>4. CASE Storable(id, proc[p].row)
  <2>1. raced' \subseteq EntryIds
    BY <1>1 DEF Inv, EntryTable
  <2> QED BY <1>1, <1>2, <1>3, <1>4, <2>1, StoreOK, AfterProgress
<1>5. CASE ~ Storable(id, proc[p].row)
  BY <1>1, <1>2, <1>5, FinishProgress, QuietEntries DEF entryVars
<1> QED BY <1>4, <1>5

\* An UPDATE, or its refusal by the table.
LEMMA EntryWriteOK ==
    ASSUME Inv, Frame, NEW p \in Procs, EntryWrite(p)
    PROVE  Progress(p) /\ EntryKept
<1>1. /\ EntryPatch(proc[p].patch) /\ Onward(proc[p].after) /\ UNCHANGED <<now, active>>
      /\ proc[p].id \in EntryIds /\ entry[proc[p].id] \in EntryRow
  BY DEF Inv, HandlerOK, EntryHandlerOK, EntryWrite
<1> DEFINE id  == proc[p].id
           row == Patched(entry[id], proc[p].patch)
<1>2. row \in EntryRow
  BY <1>1, PatchedEntry
<1> HIDE DEF row
<1>3. CASE Storable(id, row)
  <2>1. /\ entry' = [entry EXCEPT ![id] = row]
        /\ raced' = raced \cup {i \in {id} : \E q \in Procs \ {p} : Saving(q, id)}
        /\ Goto(p, IF row.deleted THEN Idle ELSE proc[p].after)
    BY <1>3 DEF EntryWrite, row
  <2>2. raced' \subseteq EntryIds
    BY <1>1, <2>1 DEF Inv, EntryTable
  <2>3. EntryKept
    BY <1>1, <1>2, <1>3, <2>1, <2>2, StoreOK
  <2>4. Onward(Idle)
    BY DEF Onward
  <2>5. Goto(p, Idle) \/ Goto(p, proc[p].after)
    BY <2>1
  <2> QED BY <1>1, <2>3, <2>4, <2>5, AfterProgress
<1>4. CASE ~ Storable(id, row)
  <2>1. UNCHANGED entryVars /\ Finish(p)
    BY <1>4 DEF EntryWrite, row
  <2> QED BY <1>1, <2>1, FinishProgress, QuietEntries
<1> QED BY <1>3, <1>4

\* Every step of the timesheet.
LEMMA EntryStepOK ==
    ASSUME Inv, Frame, NEW p \in Procs, EntryStep(p)
    PROVE  Progress(p) /\ EntryKept
BY PunchToggleOK, SoftDeleteOK, ApplyOK, EntryInsertOK, EntryLoadOK, EntryDiffOK, EntryWriteOK
   DEF EntryStep

\* A step that leaves the requests and their history as they were.
LEMMA QuietReqs ==
    ASSUME Inv, UNCHANGED reqVars
    PROVE  ReqTable'
<1>1. Requests' = Requests
  BY DEF reqVars, Requests, Present
<1>2. \A id : IsActive(id)' <=> IsActive(id)
  BY <1>1 DEF IsActive, reqVars
<1>3. \A id \in Requests : StatusMeans(id, req[id].status)' /\ SeenInactive(checked[id], req[id].target)'
  BY <1>1, <1>2 DEF Inv, ReqTable, StatusMeans, SeenInactive, reqVars
<1>4. \A id \in applied : Signed(id)'
  BY DEF Inv, ReqTable, Signed, reqVars, Overrides, Holds
<1> QED BY <1>1, <1>3, <1>4 DEF Inv, ReqTable, reqVars

\* A step that leaves the requests and loses no entry takes nothing away.
LEMMA QuietGrows ==
    ASSUME Inv, UNCHANGED <<req, signed, revived>>, applied \subseteq applied',
           \A id \in EntryIds : entry[id] \in EntryRow => entry'[id] \in EntryRow
    PROVE  Grows
BY DEF Grows, Requests, Present, SameSnapshot, IsActive

\* The timesheet steps on: when it ends the write of a correction, the request it
\* goes on to has been signed.
LEMMA TimesheetStep ==
    ASSUME Inv, NEW p \in Procs, Timesheet(p)
    PROVE  Inv'
<1>1. /\ Frame /\ EntryStep(p) /\ UNCHANGED <<req, chain, signed, checked, revived>>
      /\ applied' = IF proc'[p].pc = "tc_load" THEN applied \cup {proc'[p].id} ELSE applied
  BY DEF Timesheet, Frame
<1>2. Progress(p) /\ EntryKept
  BY <1>1, EntryStepOK
<1>3. Grows
  BY <1>1, <1>2, QuietGrows DEF EntryKept
<1>4. \A q \in Procs \ {p} : HandlerOK(q)'
  BY <1>2, <1>3, OtherHandler DEF Inv, Progress
<1>5. Requests' = Requests
  BY <1>1 DEF Requests, Present
<1>6. \A id \in Requests : StatusMeans(id, req[id].status)' /\ SeenInactive(checked[id], req[id].target)'
  <2> SUFFICES ASSUME NEW id \in Requests
               PROVE  StatusMeans(id, req[id].status)' /\ SeenInactive(checked[id], req[id].target)'
    OBVIOUS
  <2>1. PICK s, saw, t : /\ s = req[id].status /\ saw = checked[id] /\ t = req[id].target
                         /\ StatusMeans(id, s) /\ SeenInactive(saw, t)
    BY DEF Inv, ReqTable
  <2>2. StatusMeans(id, s)' /\ SeenInactive(saw, t)'
    BY <1>3, <2>1, MeansGrows, SeenGrows
  <2> QED BY <1>1, <2>1, <2>2
<1>7. \A id \in applied : Signed(id)'
  BY <1>3, SignedGrows DEF Inv, ReqTable
<1>8. CASE proc'[p].pc \in EntryPcs /\ EntryHandlerOK(p)'
  <2>1. applied' = applied
    BY <1>1, <1>8 DEF EntryPcs
  <2>2. ReqHandlerOK(p)'
    BY <1>8 DEF ReqHandlerOK, EntryPcs
  <2>3. ReqTable'
    BY <1>1, <1>5, <1>6, <1>7, <2>1 DEF Inv, ReqTable
  <2> QED BY <1>2, <1>4, <1>8, <2>2, <2>3 DEF Inv, HandlerOK, EntryKept, Progress
<1>9. CASE proc'[p] = Idle
  <2>1. applied' = applied
    BY <1>1, <1>9 DEF Idle
  <2>2. HandlerOK(p)'
    BY <1>9 DEF HandlerOK, ReqHandlerOK, EntryHandlerOK, Idle
  <2>3. ReqTable'
    BY <1>1, <1>5, <1>6, <1>7, <2>1 DEF Inv, ReqTable
  <2> QED BY <1>2, <1>4, <2>2, <2>3 DEF Inv, EntryKept, Progress
<1>10. ASSUME NEW id \in Requests, Signed(id), proc'[p] = SaveState(id, [status |-> "approved"])
       PROVE  Inv'
  <2>1. applied' = applied \cup {id} /\ Signed(id)'
    BY <1>1, <1>3, <1>10, SignedGrows DEF SaveState
  <2>2. StatusMeans(id, "approved")'
    BY <2>1 DEF StatusMeans
  <2>3. HandlerOK(p)'
    BY <1>5, <1>10, <2>2 DEF HandlerOK, ReqHandlerOK, EntryHandlerOK, SaveState, ReqPatch,
                             Statuses, ActiveStatuses
  <2>4. ReqTable'
    BY <1>1, <1>5, <1>6, <1>7, <2>1 DEF Inv, ReqTable
  <2> QED BY <1>2, <1>4, <2>3, <2>4 DEF Inv, EntryKept, Progress
<1> QED BY <1>2, <1>8, <1>9, <1>10 DEF Progress, Onward
-----------------------------------------------------------------------------
(***************************************************************************)
(* Handlers that start                                                     *)
(***************************************************************************)
Quiet == UNCHANGED <<entry, raced, now, active, req, chain, signed, applied, checked, revived>>

\* A step of a correction handler that writes no table.
LEMMA QuietStep ==
    ASSUME Inv, NEW p \in Procs, Quiet, DOMAIN proc' = Procs,
           \A q \in Procs \ {p} : proc'[q] = proc[q], HandlerOK(p)'
    PROVE  Inv'
<1>1. EntryTable' /\ ReqTable'
  BY QuietEntries, QuietReqs DEF EntryKept, Quiet, entryVars, reqVars
<1>2. Grows
  BY QuietGrows DEF Quiet
<1>3. \A q \in Procs \ {p} : HandlerOK(q)'
  BY <1>2, OtherHandler DEF Inv
<1> QED BY <1>1, <1>3 DEF Inv

\* A handler that ends without writing.
LEMMA IdleStep ==
    ASSUME Inv, NEW p \in Procs, Quiet, Finish(p)
    PROVE  Inv'
<1>1. DOMAIN proc' = Procs /\ proc'[p] = Idle /\ \A q \in Procs \ {p} : proc'[q] = proc[q]
  BY GotoOnly DEF Inv, Finish
<1>2. HandlerOK(p)'
  BY <1>1 DEF HandlerOK, ReqHandlerOK, EntryHandlerOK, Idle
<1> QED BY <1>1, <1>2, QuietStep

\* A handler that starts on the timesheet.
LEMMA EntryStart ==
    ASSUME Inv, NEW p \in Procs, Quiet, Progress(p), proc'[p].pc # "tc_load"
    PROVE  Inv'
<1>1. CASE proc'[p].pc \in EntryPcs /\ EntryHandlerOK(p)'
  <2>1. ReqHandlerOK(p)'
    BY <1>1 DEF ReqHandlerOK, EntryPcs
  <2> QED BY <1>1, <2>1, QuietStep DEF HandlerOK, Progress
<1>2. CASE Onward(proc'[p])
  <2>1. \A id : SaveState(id, [status |-> "approved"]).pc = "tc_load"
    BY DEF SaveState
  <2>2. proc'[p] = Idle
    BY <1>2, <2>1 DEF Onward
  <2>3. HandlerOK(p)'
    BY <2>2 DEF HandlerOK, ReqHandlerOK, EntryHandlerOK, Idle
  <2> QED BY <2>3, QuietStep DEF Progress
<1> QED BY <1>1, <1>2 DEF Progress

\* The routes of the timesheet.
LEMMA TimesheetStart ==
    ASSUME Inv, NEW p \in Procs, UNCHANGED reqVars, MeTimeEntries(p) \/ AdminTimeEntries(p)
    PROVE  Inv'
<1>1. Onward(Idle) /\ DOMAIN proc = Procs
  BY DEF Onward, Inv
<1>2. ASSUME NEW e \in Employees, Punch(p, e) PROVE Inv'
  <2>1. /\ DOMAIN proc' = Procs /\ proc'[p] = [pc |-> "punch", emp |-> e]
        /\ \A q \in Procs \ {p} : proc'[q] = proc[q]
    BY <1>1, <1>2, GotoOnly DEF Punch
  <2>2. HandlerOK(p)'
    BY <2>1 DEF HandlerOK, ReqHandlerOK, EntryHandlerOK
  <2> QED BY <1>2, <2>1, <2>2, QuietStep DEF Punch, Quiet, entryVars, reqVars
<1>3. ASSUME NEW u \in Users, NEW e \in Employees, NEW w \in HRWindows, CreateEntry(p, u, e, w)
      PROVE  Inv'
  <2>1. w \in [date : WorkDates, in : Ticks, out : Ticks \cup {None}]
    BY EntryInputs
  <2>2. NewEntry(e, w.date, w.in, w.out) \in EntryRow
    BY <2>1, NewEntryType
  <2>3. Quiet /\ Frame /\ InsertEntry(p, NewEntry(e, w.date, w.in, w.out), Idle)
    BY <1>3 DEF CreateEntry, Quiet, Frame, entryVars, reqVars
  <2>4. Progress(p)
    BY <1>1, <2>2, <2>3, InsertProgress
  <2>5. proc'[p].pc # "tc_load"
    BY <1>1, <2>3, GotoOnly DEF InsertEntry
  <2> QED BY <2>3, <2>4, <2>5, EntryStart
<1>4. ASSUME NEW u \in Users, NEW id \in EntryIds, NEW patch \in HREdits, UpdateEntry(p, u, id, patch)
      PROVE  Inv'
  <2> DEFINE full == [c \in DOMAIN patch \cup {"status"} |->
                        IF c = "status" THEN DerivedFrom(entry[id], patch) ELSE patch[c]]
  <2>1. EntryPatch(patch) /\ DOMAIN patch \subseteq {"date", "in", "out"}
    BY EntryInputs
  <2>2. DerivedFrom(entry[id], patch) \in {"open", "confirmed"}
    BY DEF DerivedFrom, DeriveStatus
  <2>3. EntryPatch(full)
    BY <2>1, <2>2 DEF EntryPatch
  <2>4. Quiet /\ Frame /\ SaveEntry(p, id, full, Idle)
    BY <1>4 DEF UpdateEntry, Quiet, Frame, entryVars, reqVars
  <2> HIDE DEF full
  <2>5. Progress(p)
    BY <1>1, <2>3, <2>4, SaveProgress
  <2>6. proc'[p].pc # "tc_load"
    BY <1>1, <2>4, GotoOnly DEF SaveEntry
  <2> QED BY <2>4, <2>5, <2>6, EntryStart
<1>5. ASSUME NEW u \in Users, NEW id \in EntryIds, DeleteEntry(p, u, id) PROVE Inv'
  <2>1. /\ DOMAIN proc' = Procs /\ proc'[p] = [pc |-> "entry_delete", id |-> id]
        /\ \A q \in Procs \ {p} : proc'[q] = proc[q]
    BY <1>1, <1>5, GotoOnly DEF DeleteEntry
  <2>2. entry'[id] \in EntryRow
    BY <1>5 DEF DeleteEntry, NotDeleted, Exists, entryVars, Inv, EntryTable
  <2>3. HandlerOK(p)'
    BY <2>1, <2>2 DEF HandlerOK, ReqHandlerOK, EntryHandlerOK
  <2> QED BY <1>5, <2>1, <2>3, QuietStep DEF DeleteEntry, Quiet, entryVars, reqVars
<1> QED BY <1>2, <1>3, <1>4, <1>5 DEF MeTimeEntries, AdminTimeEntries

\* A handler that goes on to save a patch of a request.
LEMMA SaveStateStep ==
    ASSUME Inv, NEW p \in Procs, NEW id \in Requests, NEW patch, ReqPatch(patch),
           "status" \in DOMAIN patch => StatusMeans(id, patch.status)',
           Goto(p, SaveState(id, patch)), UNCHANGED req
    PROVE  /\ DOMAIN proc' = Procs /\ \A q \in Procs \ {p} : proc'[q] = proc[q]
           /\ HandlerOK(p)'
<1>1. /\ DOMAIN proc' = Procs /\ proc'[p] = SaveState(id, patch)
      /\ \A q \in Procs \ {p} : proc'[q] = proc[q]
  BY GotoOnly DEF Inv
<1>2. proc'[p].pc = "tc_load" /\ proc'[p].id = id /\ proc'[p].patch = patch
  BY <1>1 DEF SaveState
<1>3. EntryHandlerOK(p)'
  BY <1>2 DEF EntryHandlerOK
<1>4. id \in Requests'
  BY DEF Requests, Present
<1>5. ReqPatch(proc'[p].patch)
  BY <1>2
<1>6. ReqHandlerOK(p)'
  BY <1>2, <1>4, <1>5 DEF ReqHandlerOK
<1> QED BY <1>1, <1>3, <1>6 DEF HandlerOK

\* submit, up to the chain snapshot.
LEMMA SubmitStep ==
    ASSUME Inv, NEW p \in Procs, NEW e \in Employees, NEW t \in EntryIds \cup {None},
           NEW w \in Proposals, Submit(p, e, t, w)
    PROVE  Inv'
<1> DEFINE row == [emp |-> e, target |-> t, date |-> w.date, in |-> w.in, out |-> w.out,
                   status |-> "pending_l1", l1 |-> chain[e].l1, l2 |-> chain[e].l2]
<1>1. w \in [date : WorkDates, in : Ticks, out : Ticks \cup {None}]
  BY CorrectionInputs
<1>2. chain[e].l1 \in Users /\ chain[e].l2 \in Users \cup {None}
  BY DEF Submit, Inv, ReqTable
<1>3. row \in ReqRow /\ row.status = "pending_l1"
  BY <1>1, <1>2 DEF ReqRow, Statuses, ActiveStatuses, PendingStatuses
<1>4. Goto(p, [pc |-> IF t # None THEN "tc_owner" ELSE "tc_date", row |-> row])
  BY DEF Submit
<1> HIDE DEF row
<1>5. /\ DOMAIN proc' = Procs /\ proc'[p] = [pc |-> IF t # None THEN "tc_owner" ELSE "tc_date", row |-> row]
      /\ \A q \in Procs \ {p} : proc'[q] = proc[q]
  BY <1>4, GotoOnly DEF Inv
<1>6. proc'[p].pc \in {"tc_owner", "tc_date"} /\ proc'[p].row = row
  BY <1>5
<1>7. HandlerOK(p)'
  BY <1>3, <1>6 DEF HandlerOK, ReqHandlerOK, EntryHandlerOK
<1> QED BY <1>5, <1>7, QuietStep DEF Submit, Quiet, entryVars, reqVars

\* The checks of submit.
LEMMA CheckStep ==
    ASSUME Inv, NEW p \in Procs, SubmitCheckOwner(p) \/ SubmitCheckDuplicate(p) \/ SubmitCheckDay(p)
    PROVE  Inv'
<1> DEFINE row == proc[p].row
<1>1. /\ row \in ReqRow /\ row.status = "pending_l1" /\ Quiet
      /\ proc[p].pc = "tc_day" => SeenInactive(proc[p].saw, row.target)
  BY DEF Inv, HandlerOK, ReqHandlerOK, SubmitCheckOwner, SubmitCheckDuplicate, SubmitCheckDay, Quiet,
         entryVars, reqVars
<1>2. CASE Finish(p)
  BY <1>1, <1>2, IdleStep
<1>3. ASSUME NEW saw, SeenInactive(saw, row.target), NEW pc \in {"tc_day", "tc_insert"},
             Goto(p, [pc |-> pc, row |-> row, saw |-> saw])
      PROVE  Inv'
  <2>1. /\ DOMAIN proc' = Procs /\ proc'[p] = [pc |-> pc, row |-> row, saw |-> saw]
        /\ \A q \in Procs \ {p} : proc'[q] = proc[q]
    BY <1>3, GotoOnly DEF Inv
  <2>2. SeenInactive(proc[p].saw, proc[p].row.target)'
    <3>1. Grows
      BY <1>1, QuietGrows DEF Quiet
    <3>2. PICK t : t = row.target /\ SeenInactive(saw, t)
      BY <1>3
    <3>3. SeenInactive(saw, t)'
      BY <3>1, <3>2, SeenGrows
    <3> QED BY <2>1, <3>2, <3>3
  <2>3. HandlerOK(p)'
    BY <1>1, <2>1, <2>2 DEF HandlerOK, ReqHandlerOK, EntryHandlerOK
  <2> QED BY <1>1, <2>1, <2>3, QuietStep
<1>4. CASE SubmitCheckOwner(p)
  <2>1. CASE Goto(p, [pc |-> "tc_entry", row |-> row])
    <3>1. /\ DOMAIN proc' = Procs /\ proc'[p] = [pc |-> "tc_entry", row |-> row]
          /\ \A q \in Procs \ {p} : proc'[q] = proc[q]
      BY <2>1, GotoOnly DEF Inv
    <3>2. HandlerOK(p)'
      BY <1>1, <3>1 DEF HandlerOK, ReqHandlerOK, EntryHandlerOK
    <3> QED BY <1>1, <3>1, <3>2, QuietStep
  <2> QED BY <1>2, <1>4, <2>1 DEF SubmitCheckOwner
<1>5. CASE SubmitCheckDuplicate(p)
  <2> DEFINE same == IF row.target # None THEN FindActiveForEntry(row.target)
                                          ELSE ActiveNewLogs(row.emp, row.date)
  <2>1. ASSUME same = {} PROVE SeenInactive(Requests, row.target)
    BY <2>1 DEF SeenInactive, FindActiveForEntry, Requests, Present, Inv, ReqTable
  <2>2. \/ Finish(p)
        \/ same = {} /\ Goto(p, [pc |-> IF row.target # None THEN "tc_insert" ELSE "tc_day",
                                 row |-> row, saw |-> Requests])
    BY <1>5 DEF SubmitCheckDuplicate
  <2> HIDE DEF same, row
  <2> QED BY <1>2, <1>3, <2>1, <2>2
<1>6. CASE SubmitCheckDay(p)
  BY <1>1, <1>2, <1>3, <1>6 DEF SubmitCheckDay
<1> QED BY <1>4, <1>5, <1>6

\* A new request is pending, and no earlier one active on its entry was overlooked.
LEMMA InsertStep ==
    ASSUME Inv, NEW p \in Procs, SubmitInsert(p)
    PROVE  Inv'
<1> DEFINE row == proc[p].row
           saw == proc[p].saw
<1>1. row \in ReqRow /\ row.status = "pending_l1" /\ SeenInactive(saw, row.target) /\ DOMAIN proc = Procs
  BY DEF Inv, HandlerOK, ReqHandlerOK, SubmitInsert
<1>2. /\ UNCHANGED <<entryVars, now, active, chain, signed, applied, revived>> /\ Finish(p)
  BY DEF SubmitInsert
<1>3. PICK id \in NextId(req, None) :
        req' = [req EXCEPT ![id] = row] /\ checked' = [checked EXCEPT ![id] = saw]
  BY DEF SubmitInsert
<1> HIDE DEF row, saw
<1>4. id \in ReqIds /\ req[id] = None /\ id \notin Requests
  BY DEF NextId, Inv, ReqTable, Requests, Present
<1>5. /\ req'[id] = row /\ \A j \in ReqIds : j # id => req'[j] = req[j]
      /\ req' \in [ReqIds -> ReqRow \cup {None}]
  BY <1>1, <1>3, <1>4 DEF Inv, ReqTable
<1>6. Requests' = Requests \cup {id}
  BY <1>1, <1>4, <1>5, CorrectionInputs DEF Requests, Present, Inv, ReqTable
<1>7. saw \subseteq Requests
  BY <1>1 DEF SeenInactive
<1>8. /\ checked' \in [ReqIds -> SUBSET ReqIds] /\ checked'[id] = saw
      /\ \A j \in ReqIds : j # id => checked'[j] = checked[j]
  BY <1>3, <1>4, <1>7 DEF Inv, ReqTable, Requests, Present
<1>9. Requests \subseteq ReqIds
  BY DEF Requests, Present, Inv, ReqTable
<1>10. Grows
  <2>1. \A j \in Requests : req'[j] = req[j] /\ j \in Requests'
    BY <1>4, <1>5, <1>6, <1>9
  <2>2. \A j \in Requests : SameSnapshot(req'[j], j)
    BY <2>1 DEF SameSnapshot
  <2>3. \A j \in Requests : IsActive(j)' => IsActive(j)
    BY <2>1 DEF IsActive
  <2> QED BY <1>2, <2>1, <2>2, <2>3 DEF Grows, entryVars
<1>11. \A q \in Procs \ {p} : HandlerOK(q)'
  BY <1>1, <1>2, <1>10, GotoOnly, OtherHandler DEF Inv, Finish
<1>12. HandlerOK(p)' /\ DOMAIN proc' = Procs
  BY <1>1, <1>2, GotoOnly DEF Finish, HandlerOK, ReqHandlerOK, EntryHandlerOK, Idle
<1>13. \A j \in Requests' : StatusMeans(j, req[j].status)' /\ SeenInactive(checked[j], req[j].target)'
  <2>1. StatusMeans(id, req[id].status)'
    BY <1>1, <1>5 DEF StatusMeans
  <2>2. SeenInactive(checked[id], req[id].target)'
    <3>1. PICK s, t : s = saw /\ t = row.target /\ SeenInactive(s, t)
      BY <1>1
    <3>2. SeenInactive(s, t)'
      BY <1>10, <3>1, SeenGrows
    <3> QED BY <1>5, <1>8, <3>1, <3>2
  <2>3. ASSUME NEW j \in Requests
        PROVE  StatusMeans(j, req[j].status)' /\ SeenInactive(checked[j], req[j].target)'
    <3>1. PICK s, c, t : /\ s = req[j].status /\ c = checked[j] /\ t = req[j].target
                         /\ StatusMeans(j, s) /\ SeenInactive(c, t)
      BY DEF Inv, ReqTable
    <3>2. StatusMeans(j, s)' /\ SeenInactive(c, t)'
      BY <1>10, <3>1, MeansGrows, SeenGrows
    <3>3. req'[j] = req[j] /\ checked'[j] = checked[j]
      BY <1>4, <1>5, <1>8, <1>9
    <3> QED BY <3>1, <3>2, <3>3
  <2> QED BY <1>6, <2>1, <2>2, <2>3
<1>14. \A j \in applied' : Signed(j)'
  BY <1>2, <1>10, SignedGrows DEF Inv, ReqTable
<1>15. ReqTable'
  BY <1>2, <1>5, <1>6, <1>8, <1>13, <1>14 DEF Inv, ReqTable
<1>16. EntryTable'
  BY <1>2, QuietEntries DEF EntryKept
<1> QED BY <1>11, <1>12, <1>15, <1>16 DEF Inv

\* Only signed changes: a decision has been taken.
LEMMA SignStep ==
    ASSUME Inv, NEW p \in Procs, NEW id \in Requests, NEW u \in Users,
           signed' = [signed EXCEPT ![id] = @ \cup {u}],
           UNCHANGED <<entryVars, now, active, req, chain, applied, checked, revived>>,
           DOMAIN proc' = Procs, \A q \in Procs \ {p} : proc'[q] = proc[q], HandlerOK(p)'
    PROVE  Inv'
<1>1. id \in ReqIds
  BY DEF Inv, ReqTable, Requests, Present
<1>2. \A j \in ReqIds : signed[j] \subseteq signed'[j]
  BY <1>1 DEF Inv, ReqTable
<1>3. signed' \in [ReqIds -> SUBSET Users]
  BY <1>1 DEF Inv, ReqTable
<1>4. Requests' = Requests /\ Requests \subseteq ReqIds
  BY DEF Requests, Present, Inv, ReqTable
<1>5. Grows
  BY <1>2, <1>4 DEF Grows, SameSnapshot, IsActive, entryVars
<1>6. \A q \in Procs \ {p} : HandlerOK(q)'
  BY <1>5, OtherHandler DEF Inv
<1>7. \A j \in Requests : StatusMeans(j, req[j].status)' /\ SeenInactive(checked[j], req[j].target)'
  <2> SUFFICES ASSUME NEW j \in Requests
               PROVE  StatusMeans(j, req[j].status)' /\ SeenInactive(checked[j], req[j].target)'
    OBVIOUS
  <2>1. PICK s, c, t : /\ s = req[j].status /\ c = checked[j] /\ t = req[j].target
                       /\ StatusMeans(j, s) /\ SeenInactive(c, t)
    BY DEF Inv, ReqTable
  <2>2. StatusMeans(j, s)' /\ SeenInactive(c, t)'
    BY <1>5, <2>1, MeansGrows, SeenGrows
  <2> QED BY <2>1, <2>2
<1>8. \A j \in applied' : Signed(j)'
  BY <1>5, SignedGrows DEF Inv, ReqTable
<1>9. ReqTable'
  BY <1>3, <1>4, <1>7, <1>8 DEF Inv, ReqTable
<1>10. EntryTable'
  BY QuietEntries DEF EntryKept
<1> QED BY <1>6, <1>9, <1>10 DEF Inv
-----------------------------------------------------------------------------
(***************************************************************************)
(* Decisions                                                               *)
(***************************************************************************)
\* An approver of the snapshot who decides on a row, however stale, signs for the
\* step of that row; only a request whose every step is signed goes to the timesheet.
LEMMA ApprovalStep ==
    ASSUME Inv, NEW p \in Procs, NEW id \in Requests, NEW row \in ReqRow,
           row.status \in PendingStatuses, SameSnapshot(row, id), StatusMeans(id, row.status),
           NEW u \in Users, Overrides(u) \/ u = CurrentStepApprover(row),
           ApplyApproval(p, id, row, u),
           UNCHANGED <<entryVars, now, active, req, chain, applied, checked, revived>>
    PROVE  Inv'
<1> DEFINE next == NextStatusAfterApproval(row, Overrides(u))
           fix  == [emp |-> row.emp, target |-> row.target, date |-> row.date,
                    in |-> row.in, out |-> row.out]
<1>1. id \in ReqIds /\ signed' = [signed EXCEPT ![id] = @ \cup {u}] /\ DOMAIN proc = Procs
  BY DEF ApplyApproval, Inv, ReqTable, Requests, Present
<1>2. signed[id] \subseteq signed'[id] /\ u \in signed'[id]
  BY <1>1 DEF Inv, ReqTable
<1>3. row.status = "pending_l2" => req[id].l1 \in signed[id]
  BY DEF StatusMeans
<1>4. Overrides(u) \/ (row.status = "pending_l1" /\ u = row.l1) \/ (row.status = "pending_l2" /\ u = row.l2)
  BY DEF CurrentStepApprover, PendingStatuses
<1>5. next = IF ~ Overrides(u) /\ row.status = "pending_l1" /\ row.l2 # None
             THEN "pending_l2" ELSE "approved"
  BY DEF NextStatusAfterApproval
<1>6. DecidedGoto(p, id, row, next)
  BY DEF ApplyApproval
<1>7. CASE next = "approved"
  <2>1. Goto(p, [pc |-> "apply", fix |-> fix, after |-> SaveState(id, [status |-> "approved"])])
    BY <1>6, <1>7 DEF DecidedGoto, ApplyCorrection
  <2>2. fix \in FixRow
    BY DEF FixRow, ReqRow
  <2>3. Signed(id)'
    <3>1. CASE Overrides(u)
      BY <1>2, <3>1 DEF Signed, Overrides, Holds
    <3>2. CASE ~ Overrides(u) /\ row.status = "pending_l1"
      BY <1>2, <1>4, <1>5, <1>7, <3>2 DEF Signed, SameSnapshot
    <3>3. CASE ~ Overrides(u) /\ row.status = "pending_l2"
      BY <1>2, <1>3, <1>4, <3>3 DEF Signed, SameSnapshot
    <3> QED BY <3>1, <3>2, <3>3 DEF PendingStatuses
  <2>4. id \in Requests'
    BY DEF Requests, Present
  <2> HIDE DEF fix, next
  <2> DEFINE after == SaveState(id, [status |-> "approved"])
  <2>5. Onward(after)'
    BY <2>3, <2>4 DEF Onward
  <2> HIDE DEF after
  <2>6. /\ DOMAIN proc' = Procs /\ proc'[p] = [pc |-> "apply", fix |-> fix, after |-> after]
        /\ \A q \in Procs \ {p} : proc'[q] = proc[q]
    BY <1>1, <2>1, GotoOnly DEF after
  <2>7. HandlerOK(p)'
    BY <2>2, <2>5, <2>6 DEF HandlerOK, ReqHandlerOK, EntryHandlerOK, after, SaveState
  <2> QED BY <1>1, <2>6, <2>7, SignStep
<1>8. CASE next = "pending_l2"
  <2>1. Goto(p, SaveState(id, [status |-> "pending_l2"]))
    BY <1>6, <1>8 DEF DecidedGoto
  <2>2. req[id].l1 \in signed'[id]
    BY <1>2, <1>4, <1>5, <1>8 DEF SameSnapshot
  <2>3. StatusMeans(id, "pending_l2")'
    BY <2>2 DEF StatusMeans
  <2>4. ReqPatch([status |-> "pending_l2"])
    BY DEF ReqPatch, Statuses, ActiveStatuses, PendingStatuses
  <2>5. /\ DOMAIN proc' = Procs /\ \A q \in Procs \ {p} : proc'[q] = proc[q]
        /\ HandlerOK(p)'
    BY <2>1, <2>3, <2>4, SaveStateStep
  <2> QED BY <1>1, <2>5, SignStep
<1> QED BY <1>5, <1>7, <1>8

\* approve, on the row it read.
LEMMA ApproveStep ==
    ASSUME Inv, NEW p \in Procs, NEW u \in Users, NEW id \in ReqIds, Approve(p, u, id)
    PROVE  Inv'
<1>1. /\ id \in Requests /\ req[id] \in ReqRow /\ req[id].status \in PendingStatuses
      /\ StatusMeans(id, req[id].status)
      /\ Overrides(u) \/ u = CurrentStepApprover(req[id])
      /\ UNCHANGED <<entryVars, now, active, req, chain, applied, checked, revived>>
  BY DEF Approve, IsPending, IsActionableBy, Inv, ReqTable, Requests, Present
<1>2. SameSnapshot(req[id], id)
  BY DEF SameSnapshot
<1>3. PICK row : row = req[id]
  OBVIOUS
<1>4. CASE Overrides(u)
  <2>1. ApplyApproval(p, id, row, u)
    BY <1>3, <1>4 DEF Approve
  <2> QED BY <1>1, <1>2, <1>3, <2>1, ApprovalStep
<1>5. CASE ~ Overrides(u)
  <2>1. Goto(p, [pc |-> "tc_approver", id |-> id, row |-> row, by |-> u]) /\ UNCHANGED signed
    BY <1>3, <1>5 DEF Approve
  <2>2. /\ DOMAIN proc' = Procs /\ \A q \in Procs \ {p} : proc'[q] = proc[q]
        /\ proc'[p] = [pc |-> "tc_approver", id |-> id, row |-> row, by |-> u]
    BY <2>1, GotoOnly DEF Inv
  <2>3. id \in Requests' /\ SameSnapshot(row, id)' /\ StatusMeans(id, row.status)'
    BY <1>1, <1>2, <1>3, <2>1 DEF Requests, Present, SameSnapshot, StatusMeans
  <2>4. HandlerOK(p)'
    BY <1>1, <1>3, <1>5, <2>2, <2>3 DEF HandlerOK, ReqHandlerOK, EntryHandlerOK, CurrentStepApprover
  <2> QED BY <1>1, <2>1, <2>2, <2>4, QuietStep DEF Quiet, entryVars
<1> QED BY <1>4, <1>5

\* approve, once the approver of the step is known to be active.
LEMMA ApproverStep ==
    ASSUME Inv, NEW p \in Procs, ApproveCheckApprover(p)
    PROVE  Inv'
<1>1. /\ proc[p].id \in Requests /\ proc[p].row \in ReqRow /\ proc[p].row.status \in PendingStatuses
      /\ SameSnapshot(proc[p].row, proc[p].id) /\ StatusMeans(proc[p].id, proc[p].row.status)
      /\ proc[p].by \in Users /\ proc[p].by = CurrentStepApprover(proc[p].row)
      /\ UNCHANGED <<entryVars, now, active, req, chain, applied, checked, revived>>
  BY DEF ApproveCheckApprover, Inv, HandlerOK, ReqHandlerOK
<1>2. \/ ApplyApproval(p, proc[p].id, proc[p].row, proc[p].by)
      \/ Finish(p) /\ UNCHANGED signed
  BY DEF ApproveCheckApprover
<1>3. CASE ApplyApproval(p, proc[p].id, proc[p].row, proc[p].by)
  <2>1. PICK id \in Requests, row \in ReqRow, u \in Users :
            id = proc[p].id /\ row = proc[p].row /\ u = proc[p].by
    BY <1>1
  <2>2. ApplyApproval(p, id, row, u)
    BY <1>3, <2>1
  <2> QED BY <1>1, <2>1, <2>2, ApprovalStep
<1>4. CASE Finish(p) /\ UNCHANGED signed
  BY <1>1, <1>4, IdleStep DEF Quiet, entryVars
<1> QED BY <1>2, <1>3, <1>4

\* Rejections, cancellations and edits store neither an approval nor a second step.
LEMMA OtherDecision ==
    ASSUME Inv, NEW p \in Procs, NEW u \in Users, NEW id \in ReqIds,
           Reject(p, u, id) \/ Cancel(p, u, id) \/ \E patch \in Edits : Update(p, u, id, patch)
    PROVE  Inv'
<1>1. id \in Requests /\ Quiet
  BY DEF Reject, Cancel, Update, IsPending, Quiet, entryVars, reqVars
<1>2. PICK patch : /\ patch \in Edits \cup {[status |-> "rejected"], [status |-> "cancelled"]}
                   /\ Goto(p, SaveState(id, patch))
  BY DEF Reject, Cancel, Update
<1>3. ReqPatch(patch) /\ ("status" \in DOMAIN patch => StatusMeans(id, patch.status)')
  <2>1. CASE patch \in Edits
    BY <2>1, CorrectionInputs
  <2>2. CASE patch \in {[status |-> "rejected"], [status |-> "cancelled"]}
    BY <2>2 DEF ReqPatch, StatusMeans, Statuses
  <2> QED BY <1>2, <2>1, <2>2
<1>4. /\ DOMAIN proc' = Procs /\ \A q \in Procs \ {p} : proc'[q] = proc[q]
      /\ HandlerOK(p)'
  BY <1>1, <1>2, <1>3, SaveStateStep DEF Quiet
<1> QED BY <1>1, <1>4, QuietStep
-----------------------------------------------------------------------------
(***************************************************************************)
(* The repository of the requests and the environment                      *)
(***************************************************************************)
\* The request is loaded and patched.
LEMMA ReqLoadStep ==
    ASSUME Inv, NEW p \in Procs, ReqLoad(p)
    PROVE  Inv'
<1>1. /\ proc[p].id \in Requests /\ ReqPatch(proc[p].patch) /\ Quiet
      /\ "status" \in DOMAIN proc[p].patch => StatusMeans(proc[p].id, proc[p].patch.status)
  BY DEF ReqLoad, Inv, HandlerOK, ReqHandlerOK, Quiet, entryVars, reqVars
<1>2. PICK id \in Requests : id = proc[p].id
  BY <1>1
<1>3. req[id] \in ReqRow /\ StatusMeans(id, req[id].status)
  BY DEF Inv, ReqTable, Requests, Present
<1>4. PICK row : row = Patched(req[id], proc[p].patch)
  OBVIOUS
<1>5. row \in ReqRow /\ row.target = req[id].target /\ row.l1 = req[id].l1 /\ row.l2 = req[id].l2
  BY <1>1, <1>3, <1>4, PatchedReq
<1>6. row.emp = req[id].emp
  BY <1>1, <1>3, <1>4 DEF Patched, ReqRow, ReqPatch
<1>7. StatusMeans(id, row.status)
  BY <1>1, <1>2, <1>3, <1>4, PatchedReq
<1>8. Goto(p, [pc |-> "tc_diff", id |-> id, row |-> row])
  BY <1>2, <1>4 DEF ReqLoad
<1>9. /\ DOMAIN proc' = Procs /\ \A q \in Procs \ {p} : proc'[q] = proc[q]
      /\ proc'[p] = [pc |-> "tc_diff", id |-> id, row |-> row]
  BY <1>8, GotoOnly DEF Inv
<1>10. id \in Requests' /\ SameSnapshot(row, id)' /\ StatusMeans(id, row.status)'
  BY <1>1, <1>5, <1>6, <1>7 DEF Quiet, Requests, Present, SameSnapshot, StatusMeans
<1>11. HandlerOK(p)'
  BY <1>5, <1>9, <1>10 DEF HandlerOK, ReqHandlerOK, EntryHandlerOK
<1> QED BY <1>1, <1>9, <1>11, QuietStep

\* The columns of the request that differ are kept.
LEMMA ReqDiffStep ==
    ASSUME Inv, NEW p \in Procs, ReqDiff(p)
    PROVE  Inv'
<1>1. PICK id \in Requests, row \in ReqRow :
        /\ id = proc[p].id /\ row = proc[p].row /\ Quiet
        /\ SameSnapshot(row, id) /\ StatusMeans(id, row.status)
  BY DEF ReqDiff, Inv, HandlerOK, ReqHandlerOK, Quiet, entryVars, reqVars
<1>2. req[id] \in ReqRow
  BY DEF Inv, ReqTable, Requests, Present
<1>3. PICK patch : patch = Delta(row, req[id])
  OBVIOUS
<1>4. ReqPatch(patch) /\ ("status" \in DOMAIN patch => patch.status = row.status)
  BY <1>1, <1>2, <1>3, DeltaReq DEF SameSnapshot
<1>5. Goto(p, [pc |-> "tc_write", id |-> id, patch |-> patch])
  BY <1>1, <1>3 DEF ReqDiff
<1>6. /\ DOMAIN proc' = Procs /\ \A q \in Procs \ {p} : proc'[q] = proc[q]
      /\ proc'[p] = [pc |-> "tc_write", id |-> id, patch |-> patch]
  BY <1>5, GotoOnly DEF Inv
<1>7. id \in Requests' /\ ("status" \in DOMAIN patch => StatusMeans(id, patch.status)')
  BY <1>1, <1>4 DEF Quiet, Requests, Present, StatusMeans
<1>8. HandlerOK(p)'
  BY <1>4, <1>6, <1>7 DEF HandlerOK, ReqHandlerOK, EntryHandlerOK
<1> QED BY <1>1, <1>6, <1>8, QuietStep

\* A row of a request is rewritten with the same snapshot and a status that means
\* what it says; one that becomes active again is counted as revived.
LEMMA RewriteStep ==
    ASSUME Inv, req' \in [ReqIds -> ReqRow \cup {None}],
           \A id \in ReqIds : req[id] = None <=> req'[id] = None,
           \A id \in Requests : /\ SameSnapshot(req'[id], id) /\ StatusMeans(id, req'[id].status)
                                /\ IsActive(id)' => IsActive(id) \/ id \in revived',
           UNCHANGED <<entryVars, now, active, chain, signed, applied, checked>>,
           revived \subseteq revived', revived' \subseteq Requests,
           DOMAIN proc' = Procs, \A q \in Procs : proc'[q] = proc[q] \/ proc'[q] = Idle
    PROVE  Inv'
<1>1. Requests' = Requests /\ Requests \subseteq ReqIds
  BY DEF Requests, Present, Inv, ReqTable
<1>2. Grows
  BY <1>1 DEF Grows, entryVars
<1>3. \A q \in Procs : HandlerOK(q)'
  <2>1. ASSUME NEW q \in Procs, proc'[q] = Idle PROVE HandlerOK(q)'
    BY <2>1 DEF HandlerOK, ReqHandlerOK, EntryHandlerOK, Idle
  <2> QED BY <1>2, <2>1, OtherHandler DEF Inv
<1>4. \A j \in Requests : StatusMeans(j, req[j].status)' /\ SeenInactive(checked[j], req[j].target)'
  <2> SUFFICES ASSUME NEW j \in Requests
               PROVE  StatusMeans(j, req[j].status)' /\ SeenInactive(checked[j], req[j].target)'
    OBVIOUS
  <2>1. PICK s, c, t : /\ s = req'[j].status /\ c = checked[j] /\ t = req[j].target
                       /\ StatusMeans(j, s) /\ SeenInactive(c, t)
    BY DEF Inv, ReqTable
  <2>2. StatusMeans(j, s)' /\ SeenInactive(c, t)' /\ req'[j].target = t
    BY <1>2, <2>1, MeansGrows, SeenGrows DEF SameSnapshot
  <2> QED BY <2>1, <2>2
<1>5. \A j \in applied' : Signed(j)'
  BY <1>2, SignedGrows DEF Inv, ReqTable
<1>6. ReqTable'
  BY <1>1, <1>4, <1>5 DEF Inv, ReqTable
<1>7. EntryTable'
  BY QuietEntries DEF EntryKept
<1> QED BY <1>3, <1>6, <1>7 DEF Inv

\* The UPDATE of a request.
LEMMA ReqWriteStep ==
    ASSUME Inv, NEW p \in Procs, ReqWrite(p)
    PROVE  Inv'
<1>1. PICK id, patch :
        /\ id \in Requests /\ id = proc[p].id /\ patch = proc[p].patch /\ ReqPatch(patch)
        /\ "status" \in DOMAIN patch => StatusMeans(id, patch.status)
  <2>1. /\ proc[p].id \in Requests /\ ReqPatch(proc[p].patch)
        /\ "status" \in DOMAIN proc[p].patch => StatusMeans(proc[p].id, proc[p].patch.status)
    BY DEF ReqWrite, Inv, HandlerOK, ReqHandlerOK
  <2> QED BY <2>1
<1>2. req[id] \in ReqRow /\ StatusMeans(id, req[id].status) /\ id \in ReqIds
  BY <1>1 DEF Inv, ReqTable, Requests, Present
<1>3. PICK row : row = Patched(req[id], patch)
  OBVIOUS
<1>4. /\ row \in ReqRow /\ row.target = req[id].target /\ row.l1 = req[id].l1 /\ row.l2 = req[id].l2
      /\ row.emp = req[id].emp
  BY <1>1, <1>2, <1>3, PatchedReq DEF Patched, ReqRow, ReqPatch
<1>5. StatusMeans(id, row.status)
  BY <1>1, <1>2, <1>3, PatchedReq
<1>6. UNCHANGED <<entryVars, now, active, chain, signed, applied, checked>> /\ Finish(p)
  BY DEF ReqWrite
<1>7. DOMAIN proc' = Procs /\ \A q \in Procs : proc'[q] = proc[q] \/ proc'[q] = Idle
  BY <1>6, GotoOnly DEF Inv, Finish
<1>8. CASE ~ ValidWindow(row.in, row.out)
  BY <1>1, <1>3, <1>6, <1>8, IdleStep DEF ReqWrite, Quiet, entryVars
<1>9. CASE ValidWindow(row.in, row.out)
  <2>1. /\ req' = [req EXCEPT ![id] = row]
        /\ revived' = IF ~ IsActive(id) /\ row.status \in ActiveStatuses
                      THEN revived \cup {id} ELSE revived
    BY <1>1, <1>3, <1>9 DEF ReqWrite
  <2>2. /\ req' \in [ReqIds -> ReqRow \cup {None}] /\ req'[id] = row
        /\ \A j \in ReqIds : j # id => req'[j] = req[j]
    BY <1>2, <1>4, <2>1 DEF Inv, ReqTable
  <2>3. \A j \in ReqIds : req[j] = None <=> req'[j] = None
    BY <1>2, <1>4, <2>2, CorrectionInputs
  <2>4. Requests' = Requests /\ Requests \subseteq ReqIds
    BY <2>3, <2>2 DEF Requests, Present, Inv, ReqTable
  <2>5. ASSUME NEW j \in Requests
        PROVE  /\ SameSnapshot(req'[j], j) /\ StatusMeans(j, req'[j].status)
               /\ IsActive(j)' => IsActive(j) \/ j \in revived'
    <3>1. CASE j = id
      BY <1>4, <1>5, <2>1, <2>2, <3>1 DEF SameSnapshot, IsActive
    <3>2. CASE j # id
      <4>1. req'[j] = req[j] /\ StatusMeans(j, req[j].status)
        BY <2>2, <2>4, <3>2 DEF Inv, ReqTable
      <4> QED BY <2>4, <4>1 DEF SameSnapshot, IsActive
    <3> QED BY <3>1, <3>2
  <2>6. revived \subseteq revived' /\ revived' \subseteq Requests
    BY <1>1, <2>1 DEF Inv, ReqTable
  <2> QED BY <1>1, <1>6, <1>7, <2>2, <2>3, <2>5, <2>6, RewriteStep
<1> QED BY <1>8, <1>9

\* The cancellation by a schedule change.
LEMMA SystemCancelStep ==
    ASSUME Inv, NEW ids \in SUBSET ReqIds, SystemCancel(ids)
    PROVE  Inv'
<1>1. \A id \in ids : req[id] \in ReqRow /\ id \in ReqIds
  BY DEF SystemCancel, IsActive, Requests, Present, Inv, ReqTable
<1>2. \A id \in ids : [req[id] EXCEPT !.status = "cancelled"] \in ReqRow
  BY <1>1 DEF ReqRow, Statuses
<1>3. /\ req' = [id \in ReqIds |->
                   IF id \in ids THEN [req[id] EXCEPT !.status = "cancelled"] ELSE req[id]]
      /\ UNCHANGED <<entryVars, now, active, proc, chain, signed, applied, checked, revived>>
  BY DEF SystemCancel
<1>4. req' \in [ReqIds -> ReqRow \cup {None}]
  BY <1>2, <1>3 DEF Inv, ReqTable
<1>5. \A id \in ReqIds : req[id] = None <=> req'[id] = None
  BY <1>1, <1>2, <1>3, CorrectionInputs
<1>6. Requests' = Requests /\ Requests \subseteq ReqIds
  BY <1>4, <1>5 DEF Requests, Present, Inv, ReqTable
<1>7. ASSUME NEW id \in Requests
      PROVE  /\ SameSnapshot(req'[id], id) /\ StatusMeans(id, req'[id].status)
             /\ IsActive(id)' => IsActive(id) \/ id \in revived'
  <2>1. CASE id \in ids
    <3>1. req'[id] = [req[id] EXCEPT !.status = "cancelled"] /\ req[id] \in ReqRow
      BY <1>1, <1>3, <2>1
    <3>2. req'[id].status = "cancelled" /\ SameSnapshot(req'[id], id)
      BY <3>1 DEF SameSnapshot, ReqRow
    <3> QED BY <3>2 DEF StatusMeans, IsActive, ActiveStatuses, PendingStatuses
  <2>2. CASE id \notin ids
    <3>1. req'[id] = req[id] /\ StatusMeans(id, req[id].status)
      BY <1>3, <1>6, <2>2 DEF Inv, ReqTable
    <3> QED BY <1>6, <3>1 DEF SameSnapshot, IsActive
  <2> QED BY <2>1, <2>2
<1>8. revived' \subseteq Requests /\ DOMAIN proc' = Procs
  BY <1>3 DEF Inv, ReqTable
<1> QED BY <1>3, <1>4, <1>5, <1>7, <1>8, RewriteStep

\* The chains, the users and the clock are no business of a handler in flight.
LEMMA EnvironmentStep ==
    ASSUME Inv, Environment
    PROVE  Inv'
<1>1. ASSUME UNCHANGED <<entryVars, proc, req, signed, applied, checked, revived>>,
             now' \in Ticks, active' \subseteq Users,
             chain' \in [Employees -> [l1 : Users \cup {None}, l2 : Users \cup {None}]]
      PROVE  Inv'
  <2>1. Requests' = Requests /\ (\A id : IsActive(id)' <=> IsActive(id)) /\ (\A id : Signed(id)' <=> Signed(id))
    BY <1>1 DEF Requests, Present, IsActive, Signed, Overrides, Holds
  <2>2. Grows
    BY <1>1, <2>1 DEF Grows, SameSnapshot, entryVars
  <2>3. \A q \in Procs : HandlerOK(q)'
    BY <1>1, <2>2, OtherHandler DEF Inv
  <2>4. EntryTable'
    BY <1>1 DEF Inv, EntryTable, Exists, OneOpenEntry, NotDeleted, entryVars
  <2>5. ReqTable'
    BY <1>1, <2>1 DEF Inv, ReqTable, StatusMeans, SeenInactive
  <2> QED BY <1>1, <2>3, <2>4, <2>5 DEF Inv
<1>2. now \in Ticks /\ active \subseteq Users
      /\ chain \in [Employees -> [l1 : Users \cup {None}, l2 : Users \cup {None}]]
  BY DEF Inv, EntryTable, ReqTable
<1>3. ASSUME NEW e \in Employees, NEW c \in Chains, SetChain(e, c) PROVE Inv'
  <2>1. chain' \in [Employees -> [l1 : Users \cup {None}, l2 : Users \cup {None}]]
    BY <1>2, <1>3, CorrectionInputs DEF SetChain
  <2> QED BY <1>1, <1>2, <1>3, <2>1 DEF SetChain
<1>4. ASSUME NEW u \in Deactivable, SetActive(u) PROVE Inv'
  <2>1. active' \subseteq Users
    BY <1>2, <1>4, CorrectionConstants DEF SetActive
  <2> QED BY <1>1, <1>2, <1>4, <2>1 DEF SetActive, reqVars
<1>5. CASE Tick /\ UNCHANGED reqVars
  <2>1. now' \in Ticks
    BY <1>2, <1>5, EntryConstants DEF Tick, Ticks
  <2> QED BY <1>1, <1>2, <1>5, <2>1 DEF Tick, reqVars
<1> QED BY <1>3, <1>4, <1>5, SystemCancelStep DEF Environment
-----------------------------------------------------------------------------
(***************************************************************************)
(* The inductive invariant                                                 *)
(***************************************************************************)
\* Every step keeps the invariant.
LEMMA InvStep == Inv /\ [Next]_vars => Inv'
<1> SUFFICES ASSUME Inv, [Next]_vars PROVE Inv'
  OBVIOUS
<1>1. ASSUME NEW p \in Procs, Request(p) PROVE Inv'
  <2>1. CASE MeCorrections(p)
    <3>1. ASSUME NEW e \in Employees, NEW id \in ReqIds, Cancel(p, e, id) PROVE Inv'
      BY <3>1, OtherDecision, EntryConstants
    <3> QED BY <2>1, <3>1, SubmitStep DEF MeCorrections
  <2>2. CASE Corrections(p)
    BY <2>2, ApproveStep, OtherDecision DEF Corrections
  <2>3. CASE AdminCorrections(p)
    BY <2>3, OtherDecision DEF AdminCorrections
  <2> QED BY <1>1, <2>1, <2>2, <2>3, TimesheetStart DEF Request
<1>2. ASSUME NEW p \in Procs, Timesheet(p) \/ ReqStep(p) \/ Abort(p) PROVE Inv'
  <2>1. CASE Abort(p)
    BY <2>1, IdleStep DEF Abort, Quiet, entryVars, reqVars
  <2> QED BY <1>2, <2>1, TimesheetStep, CheckStep, InsertStep, ApproverStep, ReqLoadStep, ReqDiffStep,
             ReqWriteStep DEF ReqStep
<1>3. CASE UNCHANGED vars
  <2>1. Quiet /\ DOMAIN proc' = Procs /\ UNCHANGED proc
    BY <1>3 DEF vars, Quiet, Inv
  <2>2. EntryTable' /\ ReqTable' /\ Grows
    BY <2>1, QuietEntries, QuietReqs, QuietGrows DEF EntryKept, Quiet, entryVars, reqVars
  <2>3. \A q \in Procs : HandlerOK(q)'
    BY <2>1, <2>2, OtherHandler DEF Inv
  <2> QED BY <2>1, <2>2, <2>3 DEF Inv
<1> QED BY <1>1, <1>2, <1>3, EnvironmentStep DEF Next

\* The invariant holds at first.
LEMMA InvInit == Init => Inv
<1> SUFFICES ASSUME Init PROVE Inv
  OBVIOUS
<1>1. PICK row \in OldEntries \cup {None} : entry = [id \in EntryIds |-> IF id = 1 THEN row ELSE None]
  BY DEF Init, EntryInit
<1>2. row \in EntryRow \cup {None} /\ (row # None => ValidWindow(row.in, row.out))
  BY EntryInputs
<1>3. \A i, j \in EntryIds : Exists(i) /\ Exists(j) => i = j
  BY <1>1 DEF Exists
<1>4. 1 \in Ticks
  BY EntryConstants DEF Ticks
<1>5. EntryTable
  BY <1>1, <1>2, <1>3, <1>4 DEF Init, EntryInit, EntryTable, Exists, OneOpenEntry, NotDeleted
<1>6. Requests = {} /\ signed \in [ReqIds -> SUBSET Users]
  BY DEF Init, Requests, Present
<1>7. chain \in [Employees -> [l1 : Users \cup {None}, l2 : Users \cup {None}]]
  BY CorrectionInputs DEF Init
<1>8. ReqTable
  BY <1>6, <1>7 DEF Init, ReqTable
<1>9. \A p \in Procs : HandlerOK(p)
  BY DEF Init, EntryInit, HandlerOK, ReqHandlerOK, EntryHandlerOK, Idle
<1> QED BY <1>5, <1>8, <1>9 DEF Inv, Init, EntryInit

\* The inductive invariant: rows are well typed and keep their snapshot, a status
\* that is stored or on its way means what it says of the timesheet and the
\* signatures, and a handler goes to the timesheet only for a signed request.
THEOREM CorrectionInvariant == Spec => []Inv
BY InvInit, InvStep, PTL DEF Spec

CallsOK == calls \in 0..MaxCalls

\* Every reachable state is well typed.
THEOREM CorrectionTypes == Spec => []TypeOK
<1>1. CallsOK /\ [Next]_vars => CallsOK'
  <2> SUFFICES ASSUME CallsOK, [Next]_vars PROVE CallsOK'
    OBVIOUS
  <2>1. calls' = calls \/ (calls < MaxCalls /\ calls' = calls + 1)
    BY DEF Next, Request, vars
  <2> QED BY <2>1, CorrectionConstants DEF CallsOK
<1>2. Init => CallsOK
  BY CorrectionConstants DEF Init, CallsOK
<1>3. Spec => []CallsOK
  BY <1>1, <1>2, PTL DEF Spec
<1>4. Inv /\ CallsOK => TypeOK
  <2> SUFFICES ASSUME Inv, CallsOK PROVE TypeOK
    OBVIOUS
  <2>1. ASSUME NEW id \in EntryIds, Exists(id), entry[id].out # None
        PROVE  entry[id].in < entry[id].out
    <3>1. entry[id].in \in Int /\ entry[id].out \in Int
      BY <2>1, EntryConstants DEF Inv, EntryTable, Exists, EntryRow, Ticks
    <3> QED BY <2>1, <3>1 DEF Inv, EntryTable, ValidWindow
  <2> QED BY <2>1 DEF Inv, EntryTable, ReqTable, TypeOK, EntryTypeOK, CallsOK
<1> QED BY <1>3, <1>4, CorrectionInvariant, PTL

\* Decision #7: wherever an approval fails, however it races with other decisions,
\* edits and cancellations, an approved request has been written to the timesheet.
THEOREM ApprovalReachesTimesheet == Spec => []ApprovedIsApplied
<1>1. Inv => ApprovedIsApplied
  BY DEF Inv, ReqTable, StatusMeans, ApprovedIsApplied
<1> QED BY <1>1, CorrectionInvariant, PTL

\* The timesheet is written only for a request that everybody its snapshot names
\* has signed, or an override, even by an approver who decides on a stale row.
THEOREM TimesheetIsSigned == Spec => []AppliedIsSigned
<1>1. Inv => AppliedIsSigned
  BY DEF Inv, ReqTable, Signed, AppliedIsSigned
<1> QED BY <1>1, CorrectionInvariant, PTL

\* Punches, HR entries and edits, and approved corrections never leave two open
\* entries of an employee.
THEOREM OneEntryOpen == Spec => []OneOpenEntry
<1>1. Inv => OneOpenEntry
  BY DEF Inv, EntryTable
<1> QED BY <1>1, CorrectionInvariant, PTL

\* Of two active requests on one entry, neither existed when the other's duplicate
\* check ran, unless a stale save made one active again.
THEOREM DuplicatesAreUnseen == Spec => []DuplicatesOnlyUnseen
<1>1. Inv => DuplicatesOnlyUnseen
  BY DEF Inv, ReqTable, SeenInactive, DuplicatesOnlyUnseen
<1> QED BY <1>1, CorrectionInvariant, PTL
-----------------------------------------------------------------------------
(***************************************************************************)
(* The status of an entry: a handler saves a status with the time_out it   *)
(* was derived from, or from the row it read, which nobody else has        *)
(* written since unless the entry counts as raced.                         *)
(***************************************************************************)
Agrees(row) == row.status = "open" <=> row.out = None

PatchFits(id, patch) ==
    \/ {"out", "status"} \subseteq DOMAIN patch /\ Agrees(patch)
    \/ entry[id] \in EntryRow /\ Agrees(Patched(entry[id], patch))

SavePcs == {"entry_insert", "entry_load", "entry_diff", "entry_write"}

SaveInv(p) ==
    /\ proc[p].pc = "entry_insert" => Agrees(proc[p].row)
    /\ proc[p].pc = "entry_load" /\ proc[p].id \notin raced => PatchFits(proc[p].id, proc[p].patch)
    /\ proc[p].pc = "entry_diff" /\ proc[p].id \notin raced => Agrees(proc[p].row)
    /\ proc[p].pc = "entry_write" /\ proc[p].id \notin raced =>
        Agrees(Patched(entry[proc[p].id], proc[p].patch))

StatusInv ==
    /\ \A id \in EntryIds \ raced : Exists(id) => Agrees(entry[id])
    /\ \A p \in Procs : SaveInv(p)

\* Two rows with the same status and time_out agree with the same patches.
LEMMA SamePatch ==
    ASSUME NEW a \in EntryRow, NEW b \in EntryRow, a.status = b.status, a.out = b.out, NEW patch
    PROVE  Agrees(Patched(a, patch)) <=> Agrees(Patched(b, patch))
BY DEF Agrees, Patched, EntryRow

\* The patch that turns a row into the wanted one leaves what is wanted.
LEMMA DeltaAgrees ==
    ASSUME NEW wanted \in EntryRow, NEW stored \in EntryRow
    PROVE  Agrees(Patched(stored, Delta(wanted, stored))) <=> Agrees(wanted)
BY DEF Agrees, Patched, Delta, EntryRow

\* A handler that waits while other rows are written, or this one is counted as raced.
LEMMA OtherSave ==
    ASSUME Inv, NEW q \in Procs, proc'[q] = proc[q], SaveInv(q), raced \subseteq raced',
           \A id \in EntryIds : Saving(q, id) /\ entry[id] \in EntryRow =>
              \/ id \in raced'
              \/ /\ entry'[id] \in EntryRow
                 /\ entry'[id].status = entry[id].status /\ entry'[id].out = entry[id].out
    PROVE  SaveInv(q)'
<1>1. ASSUME NEW id \in EntryIds, Saving(q, id), NEW patch, PatchFits(id, patch), id \notin raced'
      PROVE  PatchFits(id, patch)'
  BY <1>1, SamePatch DEF PatchFits
<1>2. proc[q].pc \in {"entry_load", "entry_write"} => proc[q].id \in EntryIds
  BY DEF Inv, HandlerOK, EntryHandlerOK
<1>3. ASSUME proc[q].pc = "entry_load", proc[q].id \notin raced'
      PROVE  PatchFits(proc[q].id, proc[q].patch)'
  <2>1. Saving(q, proc[q].id) /\ PatchFits(proc[q].id, proc[q].patch)
    BY <1>3 DEF SaveInv, Saving
  <2>2. PICK id, patch : id \in EntryIds /\ id = proc[q].id /\ patch = proc[q].patch
    BY <1>2, <1>3
  <2>3. PatchFits(id, patch)'
    BY <1>1, <1>3, <2>1, <2>2
  <2> QED BY <2>2, <2>3
<1>4. ASSUME proc[q].pc = "entry_write", proc[q].id \notin raced'
      PROVE  Agrees(Patched(entry'[proc[q].id], proc[q].patch))
  <2>1. /\ Saving(q, proc[q].id) /\ entry[proc[q].id] \in EntryRow
        /\ Agrees(Patched(entry[proc[q].id], proc[q].patch))
    BY <1>4 DEF SaveInv, Saving, Inv, HandlerOK, EntryHandlerOK
  <2> QED BY <1>2, <1>4, <2>1, SamePatch
<1> QED BY <1>3, <1>4 DEF SaveInv

\* A step that writes no entry.
LEMMA QuietSave ==
    ASSUME Inv, StatusInv, NEW p \in Procs, UNCHANGED entryVars,
           \A q \in Procs \ {p} : proc'[q] = proc[q], SaveInv(p)'
    PROVE  StatusInv'
<1>1. \A q \in Procs \ {p} : SaveInv(q)'
  BY OtherSave DEF StatusInv, entryVars
<1> QED BY <1>1 DEF StatusInv, entryVars, Exists

\* A step that neither writes an entry nor saves one next.
LEMMA NotSaving ==
    ASSUME Inv, StatusInv, NEW p \in Procs, UNCHANGED entryVars, NEW r, Goto(p, r), r.pc \notin SavePcs
    PROVE  StatusInv'
<1>1. proc'[p] = r /\ \A q \in Procs \ {p} : proc'[q] = proc[q]
  BY GotoOnly DEF Inv
<1>2. SaveInv(p)'
  BY <1>1 DEF SaveInv, SavePcs
<1> QED BY <1>1, <1>2, QuietSave

\* A handler that will save a patch that fits its row.
LEMMA SavingNext ==
    ASSUME Inv, StatusInv, NEW p \in Procs, UNCHANGED entryVars, NEW id, NEW patch, NEW after,
           PatchFits(id, patch), SaveEntry(p, id, patch, after)
    PROVE  StatusInv'
<1>1. /\ proc'[p] = [pc |-> "entry_load", id |-> id, patch |-> patch, after |-> after]
      /\ \A q \in Procs \ {p} : proc'[q] = proc[q]
  BY GotoOnly DEF Inv, SaveEntry
<1>2. PatchFits(id, patch)'
  BY DEF PatchFits, entryVars
<1>3. SaveInv(p)'
  BY <1>1, <1>2 DEF SaveInv
<1> QED BY <1>1, <1>3, QuietSave

\* A handler that will insert a row that agrees with itself.
LEMMA InsertingNext ==
    ASSUME Inv, StatusInv, NEW p \in Procs, UNCHANGED entryVars, NEW row, NEW after,
           Agrees(row), InsertEntry(p, row, after)
    PROVE  StatusInv'
<1>1. /\ proc'[p] = [pc |-> "entry_insert", row |-> row, after |-> after]
      /\ \A q \in Procs \ {p} : proc'[q] = proc[q]
  BY GotoOnly DEF Inv, InsertEntry
<1>2. SaveInv(p)'
  BY <1>1 DEF SaveInv
<1> QED BY <1>1, <1>2, QuietSave

\* create and the repository derive the status of a new row from its time_out.
LEMMA NewEntryAgrees == \A e, d, in, out : Agrees(NewEntry(e, d, in, out))
BY DEF Agrees, NewEntry, DeriveStatus

\* After the timesheet a handler ends or saves its request.
LEMMA OnwardNotSaving ==
    ASSUME NEW after, Onward(after)
    PROVE  after.pc \notin SavePcs
BY DEF Onward, Idle, SaveState, SavePcs

\* A step that writes entries: the writer no longer saves, and whoever else was
\* saving a row it changed is counted as raced.
LEMMA WritingStep ==
    ASSUME Inv, StatusInv, NEW p \in Procs, NEW r, Goto(p, r), r.pc \notin SavePcs,
           raced \subseteq raced',
           \A id \in EntryIds \ raced' : Exists(id)' => Agrees(entry'[id]),
           \A q \in Procs \ {p}, id \in EntryIds : Saving(q, id) /\ entry[id] \in EntryRow =>
              \/ id \in raced'
              \/ /\ entry'[id] \in EntryRow
                 /\ entry'[id].status = entry[id].status /\ entry'[id].out = entry[id].out
    PROVE  StatusInv'
<1>1. proc'[p] = r /\ \A q \in Procs \ {p} : proc'[q] = proc[q]
  BY GotoOnly DEF Inv
<1>2. SaveInv(p)'
  BY <1>1 DEF SaveInv, SavePcs
<1>3. \A q \in Procs \ {p} : SaveInv(q)'
  BY <1>1, OtherSave DEF StatusInv
<1> QED BY <1>2, <1>3 DEF StatusInv, Exists

\* A step of a handler that ends.
LEMMA Finishing ==
    ASSUME Inv, StatusInv, NEW p \in Procs, UNCHANGED entryVars, Finish(p)
    PROVE  StatusInv'
BY NotSaving DEF Finish, Idle, SavePcs

\* A punch closes an entry with a time_out, or opens one without.
LEMMA PunchToggleSaves ==
    ASSUME Inv, StatusInv, NEW p \in Procs, PunchToggle(p)
    PROVE  StatusInv'
<1>1. now # None /\ UNCHANGED entryVars
  BY EntryConstants DEF Inv, EntryTable, Ticks, PunchToggle
<1>2. ASSUME NEW id, SaveEntry(p, id, [out |-> now, status |-> DeriveStatus(now)], Idle)
      PROVE  StatusInv'
  <2>1. PatchFits(id, [out |-> now, status |-> DeriveStatus(now)])
    BY <1>1 DEF PatchFits, Agrees, DeriveStatus
  <2> QED BY <1>1, <1>2, <2>1, SavingNext
<1>3. ASSUME NEW e, InsertEntry(p, NewEntry(e, DayOf(now), now, None), Idle) PROVE StatusInv'
  BY <1>1, <1>3, NewEntryAgrees, InsertingNext
<1> QED BY <1>1, <1>2, <1>3, Finishing DEF PunchToggle

\* A correction carries the time_out and the status derived from it.
LEMMA CorrectionSaves ==
    ASSUME Inv, StatusInv, NEW p \in Procs, UNCHANGED entryVars, NEW fix, NEW after,
           WriteCorrection(p, fix, after)
    PROVE  StatusInv'
<1>1. PatchFits(fix.target, Corrected(fix))
  BY DEF PatchFits, Agrees, Corrected, DeriveStatus
<1> QED BY <1>1, SavingNext, InsertingNext, NewEntryAgrees DEF WriteCorrection

\* The checks of applyCorrection.
LEMMA ApplySaves ==
    ASSUME Inv, StatusInv, NEW p \in Procs, ApplyFind(p) \/ ApplyOpen(p)
    PROVE  StatusInv'
<1>1. UNCHANGED entryVars
  BY DEF ApplyFind, ApplyOpen
<1>2. ASSUME NEW fix, NEW after, Goto(p, [pc |-> "apply_open", fix |-> fix, after |-> after])
      PROVE  StatusInv'
  BY <1>1, <1>2, NotSaving DEF SavePcs
<1> QED BY <1>1, <1>2, CorrectionSaves, Finishing DEF ApplyFind, ApplyOpen

\* A fitting patch is laid over the row.
LEMMA EntryLoadSaves ==
    ASSUME Inv, StatusInv, NEW p \in Procs, EntryLoad(p)
    PROVE  StatusInv'
<1>1. UNCHANGED entryVars /\ proc[p].pc = "entry_load" /\ proc[p].id \in EntryIds
  BY DEF EntryLoad, Inv, HandlerOK, EntryHandlerOK
<1>2. CASE Finish(p)
  BY <1>1, <1>2, Finishing
<1>3. ASSUME NotDeleted(proc[p].id),
             Goto(p, [pc |-> "entry_diff", id |-> proc[p].id,
                      row |-> Patched(entry[proc[p].id], proc[p].patch), after |-> proc[p].after])
      PROVE  StatusInv'
  <2>1. PICK id, patch, row, after :
          /\ id \in EntryIds /\ id = proc[p].id /\ patch = proc[p].patch /\ after = proc[p].after
          /\ row = Patched(entry[id], patch)
    BY <1>1
  <2>2. /\ proc'[p] = [pc |-> "entry_diff", id |-> id, row |-> row, after |-> after]
        /\ \A q \in Procs \ {p} : proc'[q] = proc[q]
    BY <1>3, <2>1, GotoOnly DEF Inv
  <2>3. id \notin raced => Agrees(row)
    <3>1. entry[id] \in EntryRow
      BY <1>3, <2>1 DEF Inv, EntryTable, NotDeleted, Exists
    <3>2. id \notin raced => PatchFits(id, patch)
      BY <1>1, <2>1 DEF StatusInv, SaveInv
    <3> QED BY <2>1, <3>1, <3>2 DEF PatchFits, Agrees, Patched, EntryRow
  <2>4. SaveInv(p)'
    BY <1>1, <2>2, <2>3 DEF SaveInv, entryVars
  <2> QED BY <1>1, <2>2, <2>4, QuietSave
<1> QED BY <1>2, <1>3 DEF EntryLoad

\* What is kept of it turns the stored row into the wanted one.
LEMMA EntryDiffSaves ==
    ASSUME Inv, StatusInv, NEW p \in Procs, EntryDiff(p)
    PROVE  StatusInv'
<1>1. /\ UNCHANGED entryVars /\ proc[p].pc = "entry_diff" /\ proc[p].id \in EntryIds
      /\ entry[proc[p].id] \in EntryRow /\ proc[p].row \in EntryRow
  BY DEF EntryDiff, Inv, HandlerOK, EntryHandlerOK
<1>2. PICK id, patch, after :
        /\ id \in EntryIds /\ id = proc[p].id /\ after = proc[p].after /\ patch = Delta(proc[p].row, entry[id])
  BY <1>1
<1>3. /\ proc'[p] = [pc |-> "entry_write", id |-> id, patch |-> patch, after |-> after]
      /\ \A q \in Procs \ {p} : proc'[q] = proc[q]
  BY <1>2, GotoOnly DEF Inv, EntryDiff
<1>4. id \notin raced => Agrees(Patched(entry[id], patch))
  BY <1>1, <1>2, DeltaAgrees DEF StatusInv, SaveInv
<1>5. SaveInv(p)'
  BY <1>1, <1>3, <1>4 DEF SaveInv, entryVars
<1> QED BY <1>1, <1>3, <1>5, QuietSave

\* A deletion leaves status and time_out alone.
LEMMA SoftDeleteSaves ==
    ASSUME Inv, StatusInv, NEW p \in Procs, SoftDeleteEntry(p)
    PROVE  StatusInv'
<1>1. /\ proc[p].id \in EntryIds /\ entry[proc[p].id] \in EntryRow
      /\ raced' = raced /\ Goto(p, Idle)
      /\ entry' = [entry EXCEPT ![proc[p].id].deleted = TRUE]
  BY DEF SoftDeleteEntry, Finish, Inv, HandlerOK, EntryHandlerOK
<1>2. entry \in [EntryIds -> EntryRow \cup {None}]
  BY DEF Inv, EntryTable
<1>3. ASSUME NEW id \in EntryIds, entry[id] \in EntryRow
      PROVE  /\ entry'[id] \in EntryRow
             /\ entry'[id].status = entry[id].status /\ entry'[id].out = entry[id].out
  BY <1>1, <1>2, <1>3 DEF EntryRow
<1>4. ASSUME NEW id \in EntryIds \ raced', Exists(id)' PROVE Agrees(entry'[id])
  <2>1. entry[id] \in EntryRow /\ Exists(id)
    BY <1>1, <1>2, <1>4, EntryInputs DEF Exists
  <2> QED BY <1>1, <1>3, <2>1 DEF StatusInv, Agrees
<1> QED BY <1>1, <1>3, <1>4, WritingStep DEF Idle, SavePcs

\* The inserted row agrees with itself; nobody was saving it.
LEMMA EntryInsertSaves ==
    ASSUME Inv, StatusInv, NEW p \in Procs, EntryInsert(p)
    PROVE  StatusInv'
<1>1. /\ proc[p].pc = "entry_insert" /\ raced' = raced
      /\ proc[p].after.pc \notin SavePcs
      /\ entry \in [EntryIds -> EntryRow \cup {None}]
  BY OnwardNotSaving DEF EntryInsert, Inv, EntryTable, HandlerOK, EntryHandlerOK
<1>2. CASE UNCHANGED entry /\ Finish(p)
  BY <1>1, <1>2, Finishing DEF entryVars
<1>3. ASSUME NEW id \in NextId(entry, None), Goto(p, proc[p].after),
             entry' = [entry EXCEPT ![id] = proc[p].row]
      PROVE  StatusInv'
  <2>1. id \in EntryIds /\ entry[id] = None
    BY <1>1 DEF NextId
  <2>2. Agrees(proc[p].row)
    BY <1>1 DEF StatusInv, SaveInv
  <2>3. \A j \in EntryIds \ raced' : Exists(j)' => Agrees(entry'[j])
    BY <1>1, <1>3, <2>1, <2>2 DEF StatusInv, Exists
  <2>4. \A j \in EntryIds : entry[j] \in EntryRow => entry'[j] = entry[j]
    BY <1>1, <1>3, <2>1, EntryInputs
  <2> QED BY <1>1, <1>3, <2>3, <2>4, WritingStep
<1> QED BY <1>2, <1>3 DEF EntryInsert

\* The UPDATE of a row that nobody else was saving, or that counts as raced.
LEMMA EntryWriteSaves ==
    ASSUME Inv, StatusInv, NEW p \in Procs, EntryWrite(p)
    PROVE  StatusInv'
<1>1. /\ proc[p].pc = "entry_write" /\ proc[p].id \in EntryIds
      /\ proc[p].after.pc \notin SavePcs
      /\ entry \in [EntryIds -> EntryRow \cup {None}]
  BY OnwardNotSaving DEF EntryWrite, Inv, EntryTable, HandlerOK, EntryHandlerOK
<1>2. CASE UNCHANGED entryVars /\ Finish(p)
  BY <1>2, Finishing
<1>3. CASE ~ (UNCHANGED entryVars /\ Finish(p))
  <2>1. PICK id, row, r :
          /\ id \in EntryIds /\ id = proc[p].id /\ row = Patched(entry[id], proc[p].patch)
          /\ r = IF row.deleted THEN Idle ELSE proc[p].after
    BY <1>1
  <2>2. /\ entry' = [entry EXCEPT ![id] = row]
        /\ raced' = raced \cup {i \in {id} : \E q \in Procs \ {p} : Saving(q, id)}
        /\ Goto(p, r)
    BY <1>3, <2>1 DEF EntryWrite
  <2>3. r.pc \notin SavePcs
    BY <1>1, <2>1 DEF Idle, SavePcs
  <2>4. id \notin raced => Agrees(row)
    BY <1>1, <2>1 DEF StatusInv, SaveInv
  <2>5. \A j \in EntryIds \ raced' : Exists(j)' => Agrees(entry'[j])
    BY <1>1, <2>2, <2>4 DEF StatusInv, Exists
  <2>6. ASSUME NEW q \in Procs \ {p}, NEW j \in EntryIds, Saving(q, j)
        PROVE  j \in raced' \/ entry'[j] = entry[j]
    BY <1>1, <2>2, <2>6
  <2>7. raced \subseteq raced'
    BY <2>2
  <2> QED BY <2>2, <2>3, <2>5, <2>6, <2>7, WritingStep
<1> QED BY <1>2, <1>3

\* Every step of the timesheet.
LEMMA TimesheetSaves ==
    ASSUME Inv, StatusInv, NEW p \in Procs, EntryStep(p)
    PROVE  StatusInv'
BY PunchToggleSaves, SoftDeleteSaves, ApplySaves, EntryInsertSaves, EntryLoadSaves, EntryDiffSaves,
   EntryWriteSaves DEF EntryStep

\* The routes of the timesheet; update derives the status from the row it read.
LEMMA TimesheetCallSaves ==
    ASSUME Inv, StatusInv, NEW p \in Procs, MeTimeEntries(p) \/ AdminTimeEntries(p)
    PROVE  StatusInv'
<1>1. ASSUME NEW e, Punch(p, e) PROVE StatusInv'
  BY <1>1, NotSaving DEF Punch, SavePcs
<1>2. ASSUME NEW u, NEW e, NEW w, CreateEntry(p, u, e, w) PROVE StatusInv'
  BY <1>2, NewEntryAgrees, InsertingNext DEF CreateEntry
<1>3. ASSUME NEW u, NEW id, DeleteEntry(p, u, id) PROVE StatusInv'
  BY <1>3, NotSaving DEF DeleteEntry, SavePcs
<1>4. ASSUME NEW u, NEW id \in EntryIds, NEW edit \in HREdits, UpdateEntry(p, u, id, edit)
      PROVE  StatusInv'
  <2>1. PICK patch : patch = [c \in DOMAIN edit \cup {"status"} |->
                                IF c = "status" THEN DerivedFrom(entry[id], edit) ELSE edit[c]]
    OBVIOUS
  <2>2. UNCHANGED entryVars /\ SaveEntry(p, id, patch, Idle) /\ entry[id] \in EntryRow
    BY <1>4, <2>1 DEF UpdateEntry, NotDeleted, Exists, Inv, EntryTable
  <2>3. /\ Patched(entry[id], patch).out = Patched(entry[id], edit).out
        /\ Patched(entry[id], patch).status = DeriveStatus(Patched(entry[id], edit).out)
    BY <2>1, <2>2 DEF Patched, EntryRow, DerivedFrom
  <2>4. PatchFits(id, patch)
    BY <2>2, <2>3 DEF PatchFits, Agrees, DeriveStatus
  <2> QED BY <2>2, <2>4, SavingNext
<1> QED BY <1>1, <1>2, <1>3, <1>4 DEF MeTimeEntries, AdminTimeEntries

\* The state a decision leaves its handler in.
LEMMA DecisionSaves ==
    ASSUME Inv, StatusInv, NEW p \in Procs, UNCHANGED entryVars, NEW id, NEW row, NEW u,
           ApplyApproval(p, id, row, u)
    PROVE  StatusInv'
BY NotSaving DEF ApplyApproval, DecidedGoto, ApplyCorrection, SaveState, SavePcs

\* A handler that goes on to save a request saves no entry.
LEMMA SaveStateSaves ==
    ASSUME Inv, StatusInv, NEW p \in Procs, UNCHANGED entryVars, NEW id, NEW patch,
           Goto(p, SaveState(id, patch))
    PROVE  StatusInv'
BY NotSaving DEF SaveState, SavePcs

\* Nor does one that submits.
LEMMA SubmitSaves ==
    ASSUME Inv, StatusInv, NEW p \in Procs, NEW e, NEW t, NEW w, Submit(p, e, t, w)
    PROVE  StatusInv'
<1>1. PICK r : Goto(p, r) /\ r.pc \in {"tc_owner", "tc_date"}
  BY DEF Submit
<1> QED BY <1>1, NotSaving DEF Submit, SavePcs

\* Every call of a route.
LEMMA CallSaves ==
    ASSUME Inv, StatusInv, NEW p \in Procs, Request(p)
    PROVE  StatusInv'
<1>1. ASSUME NEW u, NEW id, Approve(p, u, id) PROVE StatusInv'
  <2>1. UNCHANGED entryVars
    BY <1>1 DEF Approve
  <2>2. ASSUME NEW r, Goto(p, r), r.pc = "tc_approver" PROVE StatusInv'
    BY <2>1, <2>2, NotSaving DEF SavePcs
  <2> QED BY <1>1, <2>1, <2>2, DecisionSaves DEF Approve
<1>2. ASSUME NEW u, NEW id, Reject(p, u, id) \/ Cancel(p, u, id) PROVE StatusInv'
  BY <1>2, SaveStateSaves DEF Reject, Cancel
<1>3. ASSUME NEW u, NEW id, NEW patch, Update(p, u, id, patch) PROVE StatusInv'
  BY <1>3, SaveStateSaves DEF Update
<1> QED BY <1>1, <1>2, <1>3, SubmitSaves, TimesheetCallSaves
        DEF Request, MeCorrections, Corrections, AdminCorrections

\* The steps on requests.
LEMMA ReqStepSaves ==
    ASSUME Inv, StatusInv, NEW p \in Procs, ReqStep(p)
    PROVE  StatusInv'
<1>1. UNCHANGED entryVars
  BY DEF ReqStep, SubmitCheckOwner, SubmitCheckDuplicate, SubmitCheckDay, SubmitInsert,
         ApproveCheckApprover, ReqLoad, ReqDiff, ReqWrite
<1>2. CASE SubmitCheckOwner(p) \/ SubmitCheckDuplicate(p) \/ SubmitCheckDay(p)
  <2>1. \/ Finish(p)
        \/ \E r : Goto(p, r) /\ r.pc \in {"tc_entry", "tc_day", "tc_insert"}
    BY <1>2 DEF SubmitCheckOwner, SubmitCheckDuplicate, SubmitCheckDay
  <2> QED BY <1>1, <2>1, Finishing, NotSaving DEF SavePcs
<1>3. CASE SubmitInsert(p) \/ ReqWrite(p)
  BY <1>1, <1>3, Finishing DEF SubmitInsert, ReqWrite
<1>4. CASE ApproveCheckApprover(p)
  BY <1>1, <1>4, Finishing, DecisionSaves DEF ApproveCheckApprover
<1>5. CASE ReqLoad(p) \/ ReqDiff(p)
  <2>1. \E r : Goto(p, r) /\ r.pc \in {"tc_diff", "tc_write"}
    BY <1>5 DEF ReqLoad, ReqDiff
  <2> QED BY <1>1, <2>1, NotSaving DEF SavePcs
<1> QED BY <1>2, <1>3, <1>4, <1>5 DEF ReqStep

\* Every step keeps statuses and windows in agreement.
LEMMA StatusStep == Inv /\ StatusInv /\ [Next]_vars => StatusInv'
<1> SUFFICES ASSUME Inv, StatusInv, [Next]_vars PROVE StatusInv'
  OBVIOUS
<1>1. ASSUME NEW p \in Procs, Timesheet(p) \/ ReqStep(p) \/ Abort(p) PROVE StatusInv'
  BY <1>1, TimesheetSaves, ReqStepSaves, Finishing DEF Timesheet, Abort
<1>2. ASSUME UNCHANGED entryVars, UNCHANGED proc PROVE StatusInv'
  <2>1. \A q \in Procs : SaveInv(q)'
    BY <1>2, OtherSave DEF StatusInv, entryVars
  <2> QED BY <1>2, <2>1 DEF StatusInv, entryVars, Exists
<1>3. Environment \/ UNCHANGED vars => UNCHANGED entryVars /\ UNCHANGED proc
  BY DEF Environment, SystemCancel, SetChain, SetActive, Tick, vars, entryVars
<1> QED BY <1>1, <1>2, <1>3, CallSaves DEF Next

\* They agree at first.
LEMMA StatusInit == Init => StatusInv
<1> SUFFICES ASSUME Init PROVE StatusInv
  OBVIOUS
<1>1. \A id \in EntryIds : Exists(id) => entry[id] \in OldEntries
  BY DEF Init, EntryInit, Exists
<1>2. \A row \in OldEntries : Agrees(row)
  BY EntryInputs DEF Agrees, DeriveStatus
<1>3. \A p \in Procs : SaveInv(p)
  BY DEF Init, EntryInit, SaveInv, Idle
<1> QED BY <1>1, <1>2, <1>3 DEF StatusInv

\* An entry is open exactly when it has no time_out, whatever punches, edits,
\* corrections and deletions did to it, unless two of them were saving it at once.
THEOREM StatusMatchesWindow == Spec => []StatusFollowsWindow
<1>1. Spec => []StatusInv
  BY CorrectionInvariant, StatusInit, StatusStep, PTL DEF Spec
<1>2. StatusInv => StatusFollowsWindow
  BY DEF StatusInv, StatusFollowsWindow, Agrees, NotDeleted
<1> QED BY <1>1, <1>2, PTL
=============================================================================
