------------------------- MODULE WorkSchedulesProofs -------------------------
(***************************************************************************)
(* Proofs about WorkSchedules, for any number of handlers, employees, rows *)
(* and requests, any week, any hours and any changes asked.                *)
(***************************************************************************)
EXTENDS WorkSchedules, FiniteSetTheorems, TLAPS

-----------------------------------------------------------------------------
(***************************************************************************)
(* Rows and patches                                                        *)
(***************************************************************************)
\* A patch of typed columns leaves a row.
LEMMA PatchedRow ==
    ASSUME NEW row \in SchedRow, NEW patch, SchedPatch(patch)
    PROVE  Patched(row, patch) \in SchedRow
BY DEF Patched, SchedRow, SchedPatch

\* What a save keeps of a row is a patch of typed columns.
LEMMA DeltaPatch ==
    ASSUME NEW wanted \in SchedRow, NEW stored
    PROVE  SchedPatch(Delta(wanted, stored))
BY DEF Delta, SchedRow, SchedPatch

\* Halves of a day are pairs of clock times.
LEMMA HalfDayWindowType ==
    ASSUME NEW h \in HoursSet, NEW portion
    PROVE  HalfDayWindow(h, portion) \in (Int \X Int) \cup {None}
<1>1. h \in [in : Int, out : Int, len : Int, brk : Int \cup {None}]
  BY ScheduleInputs
<1>2. Split(h) \in Int
  BY <1>1 DEF Split
<1>3. h.in \in Int /\ h.out \in Int
  BY <1>1
<1> QED BY <1>2, <1>3 DEF HalfDayWindow

\* A row HR or a change writes is a row.
LEMMA NewRowType ==
    ASSUME NEW e \in Employees, NEW w \in Weekdays, NEW hours \in HoursSet, NEW from \in Int,
           NEW to \in Int \cup {None}
    PROVE  NewRow(e, w, hours, from, to) \in SchedRow
BY DEF NewRow, SchedRow

-----------------------------------------------------------------------------
(***************************************************************************)
(* Handlers                                                                *)
(***************************************************************************)
\* Only the handler that moves changes.
LEMMA GotoOnly ==
    ASSUME DOMAIN proc = Procs, NEW p \in Procs, NEW r, Goto(p, r)
    PROVE  DOMAIN proc' = Procs /\ proc'[p] = r /\ \A q \in Procs \ {p} : proc'[q] = proc[q]
BY DEF Goto

\* A handler that sets some fields keeps the others.
LEMMA SetOnly ==
    ASSUME DOMAIN proc = Procs, NEW p \in Procs, NEW r, Set(p, r)
    PROVE  /\ DOMAIN proc' = Procs /\ \A q \in Procs \ {p} : proc'[q] = proc[q]
           /\ DOMAIN proc'[p] = DOMAIN proc[p] \cup DOMAIN r
           /\ \A c \in DOMAIN r : proc'[p][c] = r[c]
           /\ \A c \in DOMAIN proc[p] \ DOMAIN r : proc'[p][c] = proc[p][c]
BY DEF Set, Goto

\* What a handler holds, by its program counter.
IntentOK(intent) ==
    /\ intent.emp \in Employees /\ intent.weekday \in Weekdays /\ intent.from \in Int
    /\ intent.mode = "modify" => intent.hours \in HoursSet

HandlerOK(p) ==
    /\ proc[p].pc \in {"previewed", "read_leaves", "read_corrections", "version"} =>
        {"pc", "intent", "previewed"} \subseteq DOMAIN proc[p] /\ IntentOK(proc[p].intent)
    /\ proc[p].pc \in {"load", "diff", "write"} =>
        {"pc", "for", "patch", "insert"} \subseteq DOMAIN proc[p] /\ proc[p].insert \subseteq SchedRow
    /\ proc[p].pc \in {"load", "diff"} => "id" \in DOMAIN proc[p] /\ proc[p].id \in Ids
    /\ proc[p].pc = "load" => SchedPatch(proc[p].patch)
    /\ proc[p].pc = "diff" => proc[p].patch \in SchedRow /\ sched[proc[p].id] \in SchedRow
    /\ proc[p].pc = "write" =>
        /\ SchedPatch(proc[p].patch)
        /\ DOMAIN proc[p].patch # {} => proc[p].id \in Ids /\ sched[proc[p].id] \in SchedRow
    /\ proc[p].pc = "file" => proc[p].req \in ReqRow
    /\ proc[p].pc = "decide" =>
        proc[p].req \in ReqIds /\ reqs[proc[p].req] \in ReqRow /\ proc[p].status \in Statuses

TablesOK ==
    /\ sched \in [Ids -> SchedRow \cup {None}]
    /\ reqs \in [ReqIds -> ReqRow \cup {None}]
    /\ today \in Days /\ raced \subseteq ReqIds
    /\ DOMAIN proc = Procs

TypeInv == TablesOK /\ \A p \in Procs : HandlerOK(p)

\* A handler that waits meanwhile still holds what it held: no row disappears.
LEMMA OtherHandler ==
    ASSUME NEW q \in Procs, proc'[q] = proc[q], HandlerOK(q),
           \A id \in Ids : sched[id] \in SchedRow => sched'[id] \in SchedRow,
           \A r \in ReqIds : reqs[r] \in ReqRow => reqs'[r] \in ReqRow
    PROVE  HandlerOK(q)'
BY DEF HandlerOK, IntentOK

\* A step of one handler that writes no table.
LEMMA QuietType ==
    ASSUME TypeInv, NEW p \in Procs, UNCHANGED <<sched, reqs, today, raced>>, DOMAIN proc' = Procs,
           \A q \in Procs \ {p} : proc'[q] = proc[q], HandlerOK(p)'
    PROVE  TypeInv'
<1>1. \A q \in Procs \ {p} : HandlerOK(q)'
  BY OtherHandler DEF TypeInv
<1> QED BY <1>1 DEF TypeInv, TablesOK

\* An idle handler holds nothing.
LEMMA FinishOK ==
    ASSUME DOMAIN proc = Procs, NEW p \in Procs, Finish(p)
    PROVE  HandlerOK(p)' /\ DOMAIN proc' = Procs /\ \A q \in Procs \ {p} : proc'[q] = proc[q]
BY GotoOnly DEF Finish, Idle, HandlerOK

\* A handler that ends without writing.
LEMMA FinishType ==
    ASSUME TypeInv, NEW p \in Procs, Finish(p), UNCHANGED <<sched, reqs, today, raced>>
    PROVE  TypeInv'
BY FinishOK, QuietType DEF TypeInv, TablesOK

\* A handler that moves without writing.
LEMMA GotoType ==
    ASSUME TypeInv, NEW p \in Procs, NEW r, Goto(p, r), UNCHANGED <<sched, reqs, today, raced>>,
           proc'[p] = r => HandlerOK(p)'
    PROVE  TypeInv'
BY GotoOnly, QuietType DEF TypeInv, TablesOK
-----------------------------------------------------------------------------
(***************************************************************************)
(* Types, one lemma per group of actions                                   *)
(***************************************************************************)
\* create, up to the insert.
LEMMA TypeCreate ==
    ASSUME TypeInv, NEW p \in Procs, NEW e \in Employees, NEW n \in NewRows,
           Create(p, e, n.weekday, n.hours, n.from, n.to)
    PROVE  TypeInv'
<1>1. n \in [weekday : Weekdays, hours : HoursSet, from : Int, to : Int \cup {None}]
  BY ScheduleInputs
<1>2. NewRow(e, n.weekday, n.hours, n.from, n.to) \in SchedRow
  BY <1>1, NewRowType
<1> DEFINE r == [pc |-> "write", for |-> "create", patch |-> [c \in {} |-> None],
                 insert |-> {NewRow(e, n.weekday, n.hours, n.from, n.to)}]
<1>3. proc'[p] = r => HandlerOK(p)'
  BY <1>2 DEF HandlerOK, SchedPatch
<1> QED BY <1>3, GotoType DEF Create, tables

\* An HR edit, up to the load.
LEMMA EditType ==
    ASSUME TypeInv, NEW p \in Procs, NEW id \in Ids, NEW patch, SchedPatch(patch), Edit(p, id, patch),
           UNCHANGED <<sched, reqs, today, raced>>
    PROVE  TypeInv'
<1> DEFINE r == [pc |-> "load", for |-> "edit", id |-> id, patch |-> patch, insert |-> {}]
<1>1. proc'[p] = r => HandlerOK(p)'
  BY DEF HandlerOK
<1> QED BY <1>1, GotoType DEF Edit

\* The routes of HR on work schedules.
LEMMA TypeHR ==
    ASSUME TypeInv, NEW p \in Procs, AdminWorkSchedules(p)
    PROVE  TypeInv'
<1>1. ASSUME NEW id \in Ids, NEW patch \in Patches, Update(p, id, patch) PROVE TypeInv'
  BY <1>1, EditType, ScheduleInputs DEF Update, tables
<1>2. ASSUME NEW id \in Ids, EndLogically(p, id) PROVE TypeInv'
  <2>1. PICK utc \in UtcDates : Edit(p, id, [to |-> utc])
    BY <1>2 DEF EndLogically
  <2>2. utc \in Int
    BY ScheduleConstants DEF TypeInv, TablesOK, Days, UtcDates, DayBefore
  <2>3. SchedPatch([to |-> utc])
    BY <2>2 DEF SchedPatch
  <2> QED BY <1>2, <2>1, <2>3, EditType DEF EndLogically, tables
<1> QED BY <1>1, <1>2, TypeCreate DEF AdminWorkSchedules

\* preview, of an intent with the fields it needs.
LEMMA TypePreview ==
    ASSUME TypeInv, NEW p \in Procs, AdminScheduleChanges(p)
    PROVE  TypeInv'
<1>1. PICK e \in Employees, c \in Changes, remover \in Remover : Preview(p, Intent(e, c), remover)
  BY DEF AdminScheduleChanges
<1>2. IntentOK(Intent(e, c))
  BY ScheduleInputs DEF IntentOK, Intent
<1>3. PICK k : Goto(p, [pc |-> "previewed", intent |-> Intent(e, c), remover |-> remover, previewed |-> k])
  BY <1>1 DEF Preview
<1> DEFINE r == [pc |-> "previewed", intent |-> Intent(e, c), remover |-> remover, previewed |-> k]
<1>4. proc'[p] = r => HandlerOK(p)'
  <2> HIDE DEF IntentOK
  <2> QED BY <1>2 DEF HandlerOK
<1> QED BY <1>1, <1>3, <1>4, GotoType DEF Preview, tables

\* A change that reads on keeps its intent.
LEMMA TypeChange ==
    ASSUME TypeInv, NEW p \in Procs, Apply(p) \/ ReadLeaves(p) \/ ReadCorrections(p)
    PROVE  TypeInv'
<1>1. /\ {"pc", "intent", "previewed"} \subseteq DOMAIN proc[p] /\ IntentOK(proc[p].intent)
      /\ UNCHANGED <<sched, reqs, today, raced>> /\ DOMAIN proc = Procs
  BY DEF TypeInv, TablesOK, HandlerOK, Apply, ReadLeaves, ReadCorrections, tables
<1>2. ASSUME NEW r, Set(p, r), "pc" \in DOMAIN r, "intent" \notin DOMAIN r, "previewed" \notin DOMAIN r,
             r.pc \in {"read_leaves", "read_corrections", "version"}
      PROVE  TypeInv'
  <2>1. HandlerOK(p)'
    BY <1>1, <1>2, SetOnly DEF HandlerOK
  <2> QED BY <1>1, <1>2, <2>1, SetOnly, QuietType
<1>3. CASE Finish(p)
  BY <1>1, <1>3, FinishType
<1>4. CASE Apply(p)
  <2>1. Finish(p) \/ \E live, plan, day : Set(p, [pc |-> "read_leaves", live |-> live, plan |-> plan, day |-> day])
    BY <1>4 DEF Apply
  <2> QED BY <1>2, <1>3, <2>1
<1>5. CASE ReadLeaves(p)
  BY <1>2, <1>5 DEF ReadLeaves
<1>6. CASE ReadCorrections(p)
  <2>1. Finish(p) \/ \E impact : Set(p, [pc |-> "version", impact |-> impact])
    BY <1>6 DEF ReadCorrections
  <2> QED BY <1>2, <1>3, <2>1
<1> QED BY <1>4, <1>5, <1>6

\* The versioning of the schedule: the patch of the old row, the row to insert.
LEMMA TypeVersion ==
    ASSUME TypeInv, NEW p \in Procs, Version(p)
    PROVE  TypeInv'
<1> DEFINE intent == proc[p].intent
           plan   == proc[p].plan
           insert == IF intent.mode = "modify" THEN {Inserted(intent)} ELSE {}
           patch  == Ending(plan, intent)
<1>1. IntentOK(intent) /\ UNCHANGED <<sched, reqs, today, raced>> /\ DOMAIN proc = Procs
  BY DEF TypeInv, TablesOK, HandlerOK, Version, tables
<1>2. insert \subseteq SchedRow
  BY <1>1, NewRowType DEF Inserted, IntentOK
<1>3. SchedPatch(patch)
  <2>1. DayBefore(intent.from) \in Int
    BY <1>1 DEF IntentOK, DayBefore
  <2>2. SchedPatch([deleted |-> TRUE]) /\ SchedPatch([to |-> DayBefore(intent.from)])
    BY <2>1 DEF SchedPatch
  <2> QED BY <2>2 DEF Ending
<1>4. \/ Set(p, [pc |-> "write", for |-> "change", insert |-> insert, patch |-> [c \in {} |-> None]])
      \/ \E id \in LiveIds(intent.emp, intent.weekday) :
            IF id = None THEN Finish(p)
            ELSE Set(p, [pc |-> "load", for |-> "change", id |-> id, insert |-> insert, patch |-> patch])
  BY DEF Version
<1> HIDE DEF intent, plan, insert, patch
<1>5. CASE Set(p, [pc |-> "write", for |-> "change", insert |-> insert, patch |-> [c \in {} |-> None]])
  <2>1. HandlerOK(p)'
    BY <1>1, <1>2, <1>5, SetOnly DEF HandlerOK, SchedPatch
  <2> QED BY <1>1, <1>5, <2>1, SetOnly, QuietType
<1>6. ASSUME NEW id \in LiveIds(intent.emp, intent.weekday), id # None,
             Set(p, [pc |-> "load", for |-> "change", id |-> id, insert |-> insert, patch |-> patch])
      PROVE  TypeInv'
  <2>1. id \in Ids
    BY <1>6 DEF LiveIds, FindActiveForEmployeeDay, FindActiveForEmployee
  <2>2. HandlerOK(p)'
    <3> HIDE DEF SchedPatch
    <3> QED BY <1>1, <1>2, <1>3, <1>6, <2>1, SetOnly DEF HandlerOK
  <2> QED BY <1>1, <1>6, <2>2, SetOnly, QuietType
<1> QED BY <1>1, <1>4, <1>5, <1>6, FinishType

\* The row is loaded and patched.
LEMMA TypeLoad ==
    ASSUME TypeInv, NEW p \in Procs, Load(p)
    PROVE  TypeInv'
<1>1. /\ HandlerOK(p) /\ proc[p].pc = "load" /\ UNCHANGED <<sched, reqs, today, raced>>
      /\ DOMAIN proc = Procs /\ sched \in [Ids -> SchedRow \cup {None}]
  BY DEF TypeInv, TablesOK, Load, tables
<1>2. CASE ~ Standing(proc[p].id)
  BY <1>1, <1>2, FinishType DEF Load
<1>3. CASE Standing(proc[p].id)
  <2> DEFINE row == Patched(sched[proc[p].id], proc[p].patch)
  <2>1. Set(p, [pc |-> "diff", patch |-> row])
    BY <1>3 DEF Load
  <2>2. proc[p].id \in Ids /\ sched[proc[p].id] \in SchedRow /\ row \in SchedRow
    BY <1>1, <1>3, PatchedRow DEF Standing, HandlerOK
  <2> HIDE DEF row
  <2>3. HandlerOK(p)'
    BY <1>1, <2>1, <2>2, SetOnly DEF HandlerOK
  <2> QED BY <1>1, <2>1, <2>3, SetOnly, QuietType
<1> QED BY <1>2, <1>3

\* The columns that differ are kept.
LEMMA TypeDiff ==
    ASSUME TypeInv, NEW p \in Procs, Diff(p)
    PROVE  TypeInv'
<1>1. /\ HandlerOK(p) /\ proc[p].pc = "diff" /\ UNCHANGED <<sched, reqs, today, raced>>
      /\ DOMAIN proc = Procs
  BY DEF TypeInv, TablesOK, Diff, tables
<1> DEFINE patch == Delta(proc[p].patch, sched[proc[p].id])
<1>2. SchedPatch(patch)
  BY <1>1, DeltaPatch DEF HandlerOK
<1>3. Set(p, [pc |-> "write", patch |-> patch])
  BY DEF Diff
<1> HIDE DEF patch, SchedPatch
<1>4. HandlerOK(p)'
  BY <1>1, <1>2, <1>3, SetOnly DEF HandlerOK
<1> QED BY <1>1, <1>3, <1>4, SetOnly, QuietType

\* The rows a statement leaves: patched, inserted or as they were.
LEMMA WrittenType ==
    ASSUME TypeInv, NEW p \in Procs, proc[p].pc = "write"
    PROVE  /\ Written(p) \in [Ids -> SchedRow \cup {None}]
           /\ \A id \in Ids : sched[id] \in SchedRow => Written(p)[id] \in SchedRow
<1>1. /\ HandlerOK(p) /\ sched \in [Ids -> SchedRow \cup {None}]
  BY DEF TypeInv, TablesOK
<1>2. ASSUME NEW id \in Ids
      PROVE  /\ Written(p)[id] \in SchedRow \cup {None}
             /\ sched[id] \in SchedRow => Written(p)[id] \in SchedRow
  <2>1. CASE DOMAIN proc[p].patch # {} /\ id = proc[p].id
    <3>1. Patched(sched[id], proc[p].patch) \in SchedRow
      BY <1>1, <2>1, PatchedRow DEF HandlerOK
    <3>2. Written(p)[id] = Patched(sched[id], proc[p].patch)
          \/ Written(p)[id] = CHOOSE row \in proc[p].insert : TRUE
      BY <2>1 DEF Written
    <3>3. Written(p)[id] = Patched(sched[id], proc[p].patch)
          \/ (proc[p].insert # {} /\ Written(p)[id] = CHOOSE row \in proc[p].insert : TRUE)
      BY <2>1 DEF Written
    <3>4. proc[p].insert # {} => (CHOOSE row \in proc[p].insert : TRUE) \in proc[p].insert
      OBVIOUS
    <3> QED BY <1>1, <3>1, <3>3, <3>4 DEF HandlerOK
  <2>2. CASE ~ (DOMAIN proc[p].patch # {} /\ id = proc[p].id)
    <3>1. CASE id \in NextId(sched, None) /\ proc[p].insert # {}
      <4>1. Written(p)[id] = CHOOSE row \in proc[p].insert : TRUE
        BY <2>2, <3>1 DEF Written
      <4>2. (CHOOSE row \in proc[p].insert : TRUE) \in proc[p].insert
        BY <3>1
      <4> QED BY <1>1, <4>1, <4>2 DEF HandlerOK
    <3>2. CASE ~ (id \in NextId(sched, None) /\ proc[p].insert # {})
      <4>1. Written(p)[id] = sched[id]
        BY <2>2, <3>2 DEF Written
      <4> QED BY <1>1, <4>1
    <3> QED BY <3>1, <3>2
  <2> QED BY <2>1, <2>2
<1>3. Written(p) = [id \in Ids |-> Written(p)[id]]
  BY DEF Written
<1> QED BY <1>2, <1>3

\* The cascade cancels rows and removes none.
LEMMA CancelType ==
    ASSUME TypeInv, NEW rs
    PROVE  /\ SystemCancel(rs) \in [ReqIds -> ReqRow \cup {None}]
           /\ \A r \in ReqIds : reqs[r] \in ReqRow => SystemCancel(rs)[r] \in ReqRow
<1>1. ASSUME NEW r \in ReqIds, reqs[r] \in ReqRow
      PROVE  [reqs[r] EXCEPT !.status = "cancelled", !.system = TRUE] \in ReqRow
  BY <1>1 DEF ReqRow, Statuses
<1>2. \A r \in Present(reqs, None) : r \in ReqIds /\ reqs[r] \in ReqRow
  BY DEF Present, TypeInv, TablesOK
<1> QED BY <1>1, <1>2 DEF SystemCancel, TypeInv, TablesOK

\* The statement of the transaction, with the cascade.
LEMMA TypeWrite ==
    ASSUME TypeInv, NEW p \in Procs, Write(p)
    PROVE  TypeInv'
<1>1. TablesOK /\ proc[p].pc = "write" /\ Finish(p) /\ today' = today
  BY DEF TypeInv, Write
<1>2. HandlerOK(p)' /\ DOMAIN proc' = Procs /\ \A q \in Procs \ {p} : proc'[q] = proc[q]
  BY <1>1, FinishOK DEF TablesOK
<1>3. /\ sched' \in [Ids -> SchedRow \cup {None}]
      /\ \A id \in Ids : sched[id] \in SchedRow => sched'[id] \in SchedRow
  BY <1>1, WrittenType DEF Write, TablesOK
<1>4. /\ reqs' \in [ReqIds -> ReqRow \cup {None}]
      /\ \A r \in ReqIds : reqs[r] \in ReqRow => reqs'[r] \in ReqRow
  BY <1>1, CancelType DEF Write, TablesOK
<1>5. raced' \subseteq ReqIds
  BY <1>1 DEF Write, TablesOK, Touched, Present
<1>6. \A q \in Procs \ {p} : HandlerOK(q)'
  BY <1>2, <1>3, <1>4, OtherHandler DEF TypeInv
<1> QED BY <1>1, <1>2, <1>3, <1>4, <1>5, <1>6 DEF TypeInv, TablesOK

\* A leave or a correction about to be filed.
LEMMA TypeSubmit ==
    ASSUME TypeInv, NEW p \in Procs, NEW e \in Employees,
           (\E s \in Spans : SubmitLeave(p, e, s)) \/ (\E d \in Days : SubmitCorrection(p, e, d))
    PROVE  TypeInv'
<1>1. ASSUME NEW s \in Spans, SubmitLeave(p, e, s) PROVE TypeInv'
  <2>1. PICK id \in FindActiveForEmployeeDay(e, WeekdayOf(s.first)) :
            Goto(p, [pc |-> "file", id |-> id, live |-> sched[id],
                 req |-> [kind |-> "leave", emp |-> e, first |-> s.first, last |-> s.last,
                          portion |-> s.portion, status |-> "pending_l1", system |-> FALSE,
                          window |-> HalfDayWindow(sched[id].hours, s.portion)]])
    BY <1>1 DEF SubmitLeave
  <2>2. sched[id].hours \in HoursSet
    BY DEF FindActiveForEmployeeDay, FindActiveForEmployee, Standing, TypeInv, TablesOK, SchedRow
  <2> DEFINE row == [kind |-> "leave", emp |-> e, first |-> s.first, last |-> s.last,
                     portion |-> s.portion, status |-> "pending_l1", system |-> FALSE,
                     window |-> HalfDayWindow(sched[id].hours, s.portion)]
  <2>3. s \in [first : Int, last : Int, portion : Portions]
    BY ScheduleInputs
  <2>4. row \in ReqRow
    BY <2>2, <2>3, HalfDayWindowType DEF ReqRow, Statuses, ActiveStatuses, PendingStatuses
  <2> HIDE DEF row
  <2>5. Goto(p, [pc |-> "file", id |-> id, live |-> sched[id], req |-> row])
    BY <2>1 DEF row
  <2>6. proc'[p] = [pc |-> "file", id |-> id, live |-> sched[id], req |-> row] => HandlerOK(p)'
    BY <2>4 DEF HandlerOK
  <2> QED BY <1>1, <2>5, <2>6, GotoType DEF SubmitLeave, tables
<1>2. ASSUME NEW d \in Days, SubmitCorrection(p, e, d) PROVE TypeInv'
  <2> DEFINE row == [kind |-> "correction", emp |-> e, first |-> d, last |-> d,
                     portion |-> "full", status |-> "pending_l1", system |-> FALSE, window |-> None]
  <2>1. row \in ReqRow
    BY ScheduleConstants DEF ReqRow, Statuses, ActiveStatuses, PendingStatuses, Portions, Days
  <2>2. Goto(p, [pc |-> "file", id |-> None, live |-> None, req |-> row])
    BY <1>2 DEF SubmitCorrection
  <2> HIDE DEF row
  <2>3. proc'[p] = [pc |-> "file", id |-> None, live |-> None, req |-> row] => HandlerOK(p)'
    BY <2>1 DEF HandlerOK
  <2> QED BY <1>2, <2>2, <2>3, GotoType DEF SubmitCorrection, tables
<1> QED BY <1>1, <1>2

\* A request is filed under the next id.
LEMMA TypeFile ==
    ASSUME TypeInv, NEW p \in Procs, File(p)
    PROVE  TypeInv'
<1>1. TablesOK /\ HandlerOK(p) /\ proc[p].pc = "file" /\ Finish(p) /\ UNCHANGED <<sched, today>>
  BY DEF TypeInv, File
<1>2. HandlerOK(p)' /\ DOMAIN proc' = Procs /\ \A q \in Procs \ {p} : proc'[q] = proc[q]
  BY <1>1, FinishOK DEF TablesOK
<1>3. PICK r \in NextId(reqs, None) :
        /\ reqs' = [reqs EXCEPT ![r] = proc[p].req]
        /\ raced' = IF Late(proc[p].req, proc[p].id, proc[p].live) THEN raced \cup {r} ELSE raced
  BY DEF File
<1>4. r \in ReqIds /\ proc[p].req \in ReqRow
  BY <1>1 DEF NextId, TablesOK, HandlerOK
<1>5. /\ reqs' \in [ReqIds -> ReqRow \cup {None}]
      /\ \A i \in ReqIds : reqs[i] \in ReqRow => reqs'[i] \in ReqRow
  BY <1>1, <1>3, <1>4 DEF TablesOK
<1>6. \A q \in Procs \ {p} : HandlerOK(q)'
  BY <1>1, <1>2, <1>5, OtherHandler DEF TypeInv
<1>7. raced' \subseteq ReqIds
  BY <1>1, <1>3, <1>4 DEF TablesOK
<1> QED BY <1>1, <1>2, <1>5, <1>6, <1>7 DEF TypeInv, TablesOK

\* A decision on the row that was read.
LEMMA TypeDecide ==
    ASSUME TypeInv, NEW p \in Procs, NEW r \in ReqIds, Decide(p, r)
    PROVE  TypeInv'
<1>1. PICK s \in NextStatuses(reqs[r].status) :
        Goto(p, [pc |-> "decide", req |-> r, read |-> reqs[r].status, status |-> s])
  BY DEF Decide
<1>2. s \in Statuses
  <2>1. reqs[r].status \in Statuses
    BY DEF Decide, TypeInv, TablesOK, ReqRow
  <2> QED BY <2>1 DEF NextStatuses, Statuses, ActiveStatuses, PendingStatuses
<1>3. reqs[r] \in ReqRow
  BY DEF Decide, TypeInv, TablesOK
<1>4. proc'[p] = [pc |-> "decide", req |-> r, read |-> reqs[r].status, status |-> s]
        => HandlerOK(p)'
  BY <1>2, <1>3 DEF HandlerOK, Decide, tables
<1> QED BY <1>1, <1>4, GotoType DEF Decide, tables

\* The decision is saved.
LEMMA TypeSaveDecision ==
    ASSUME TypeInv, NEW p \in Procs, SaveDecision(p)
    PROVE  TypeInv'
<1>1. TablesOK /\ HandlerOK(p) /\ proc[p].pc = "decide" /\ Finish(p) /\ UNCHANGED <<sched, today>>
  BY DEF TypeInv, SaveDecision
<1>2. HandlerOK(p)' /\ DOMAIN proc' = Procs /\ \A q \in Procs \ {p} : proc'[q] = proc[q]
  BY <1>1, FinishOK DEF TablesOK
<1>3. PICK r \in ReqIds : r = proc[p].req /\ reqs[r] \in ReqRow
  BY <1>1 DEF HandlerOK
<1>4. reqs' = [reqs EXCEPT ![r] = [reqs[r] EXCEPT !.status = proc[p].status]]
  BY <1>3 DEF SaveDecision
<1>5. [reqs[r] EXCEPT !.status = proc[p].status] \in ReqRow
  BY <1>1, <1>3 DEF HandlerOK, ReqRow
<1>6. /\ reqs' \in [ReqIds -> ReqRow \cup {None}]
      /\ \A i \in ReqIds : reqs[i] \in ReqRow => reqs'[i] \in ReqRow
  BY <1>1, <1>4, <1>5 DEF TablesOK
<1>7. \A q \in Procs \ {p} : HandlerOK(q)'
  BY <1>1, <1>2, <1>6, OtherHandler DEF TypeInv
<1>8. raced' \subseteq ReqIds
  BY <1>1, <1>3 DEF TablesOK, SaveDecision
<1> QED BY <1>1, <1>2, <1>6, <1>7, <1>8 DEF TypeInv, TablesOK

\* Every step keeps tables and handlers in their types.
LEMMA TypeStep == TypeInv /\ [Next]_vars => TypeInv'
<1> SUFFICES ASSUME TypeInv, [Next]_vars PROVE TypeInv'
  OBVIOUS
<1>1. ASSUME NEW p \in Procs, Start(p) PROVE TypeInv'
  <2>1. ASSUME Requests(p) PROVE TypeInv'
    BY <2>1, TypeSubmit, TypeDecide DEF Requests
  <2> QED BY <1>1, <2>1, TypeHR, TypePreview DEF Start
<1>2. ASSUME NEW p \in Procs, Step(p) PROVE TypeInv'
  <2>1. CASE Abort(p)
    BY <2>1, FinishType DEF Abort, tables
  <2> QED BY <1>2, <2>1, TypeChange, TypeVersion, TypeLoad, TypeDiff, TypeWrite, TypeFile,
             TypeSaveDecision DEF Step
<1>3. CASE NextDay
  <2>1. today' \in Days
    BY <1>3, ScheduleConstants DEF NextDay, TypeInv, TablesOK, Days
  <2>2. \A q \in Procs : HandlerOK(q)'
    BY <1>3 DEF NextDay, TypeInv, HandlerOK, IntentOK
  <2> QED BY <1>3, <2>1, <2>2 DEF NextDay, TypeInv, TablesOK
<1>4. CASE UNCHANGED vars
  <2>1. \A q \in Procs : HandlerOK(q)'
    BY <1>4 DEF vars, TypeInv, HandlerOK, IntentOK
  <2> QED BY <1>4, <2>1 DEF vars, TypeInv, TablesOK
<1> QED BY <1>1, <1>2, <1>3, <1>4 DEF Next

\* The tables are well typed at first.
LEMMA TypeInit == Init => TypeInv
<1> SUFFICES ASSUME Init PROVE TypeInv
  OBVIOUS
<1>1. PICK f \in [Employees \X Weekdays -> 1..Cardinality(Employees \X Weekdays)] :
        /\ \A x, y \in DOMAIN f : f[x] = f[y] => x = y
        /\ sched = [id \in Ids |->
                      IF \E x \in DOMAIN f : f[x] = id
                      THEN LET x == CHOOSE y \in DOMAIN f : f[y] = id
                           IN NewRow(x[1], x[2], SeedHours, FirstDay, None)
                      ELSE None]
  BY DEF Init
<1>2. ASSUME NEW id \in Ids, \E x \in DOMAIN f : f[x] = id
      PROVE  NewRow((CHOOSE y \in DOMAIN f : f[y] = id)[1], (CHOOSE y \in DOMAIN f : f[y] = id)[2],
                    SeedHours, FirstDay, None) \in SchedRow
  <2>1. PICK x \in Employees \X Weekdays : x = CHOOSE y \in DOMAIN f : f[y] = id
    BY <1>2
  <2>2. x[1] \in Employees /\ x[2] \in Weekdays /\ FirstDay \in Int /\ SeedHours \in HoursSet
    BY ScheduleConstants
  <2> QED BY <2>1, <2>2, NewRowType
<1>3. sched \in [Ids -> SchedRow \cup {None}]
  BY <1>1, <1>2
<1>4. TablesOK
  BY <1>3, ScheduleConstants DEF Init, TablesOK, Days
<1>5. \A p \in Procs : HandlerOK(p)
  BY DEF Init, HandlerOK, Idle
<1> QED BY <1>4, <1>5 DEF TypeInv
-----------------------------------------------------------------------------
(***************************************************************************)
(* The index: only Write writes work_schedules, and what it writes meets   *)
(* the constraints of the table.                                           *)
(***************************************************************************)
OneActive(table) ==
    LET active == {id \in Present(table, None) : ~ table[id].deleted /\ table[id].to = None} IN
    \A i, j \in active :
        table[i].emp = table[j].emp /\ table[i].weekday = table[j].weekday => i = j
OrderedRows(table) ==
    \A id \in Present(table, None) : table[id].to # None => table[id].to >= table[id].from

\* The index and the CHECK of the table hold after every step.
LEMMA IndexStep == OneActive(sched) /\ OrderedRows(sched) /\ [Next]_vars
                   => OneActive(sched') /\ OrderedRows(sched')
<1> SUFFICES ASSUME OneActive(sched), OrderedRows(sched), [Next]_vars
             PROVE  OneActive(sched') /\ OrderedRows(sched')
  OBVIOUS
<1>1. CASE sched' = sched
  BY <1>1
<1>2. ASSUME NEW p \in Procs, Write(p), sched' # sched PROVE OneActive(sched') /\ OrderedRows(sched')
  <2>1. Storable(Written(p)) /\ sched' = Written(p)
    BY <1>2 DEF Write
  <2> QED BY <2>1 DEF Storable, OneActive, OrderedRows
<1>3. sched' = sched \/ \E p \in Procs : Write(p)
  BY DEF Next, Start, Step, AdminWorkSchedules, AdminScheduleChanges, Requests, Create, Update,
         EndLogically, Preview, SubmitLeave, SubmitCorrection, Decide, Apply, ReadLeaves,
         ReadCorrections, Version, Load, Diff, File, SaveDecision, Abort, NextDay, vars, tables
<1> QED BY <1>1, <1>2, <1>3

\* They hold at first: one row for each employee and day.
LEMMA IndexInit == Init => OneActive(sched) /\ OrderedRows(sched)
<1> SUFFICES ASSUME Init PROVE OneActive(sched) /\ OrderedRows(sched)
  OBVIOUS
<1>1. PICK f \in [Employees \X Weekdays -> 1..Cardinality(Employees \X Weekdays)] :
        /\ \A x, y \in DOMAIN f : f[x] = f[y] => x = y
        /\ sched = [id \in Ids |->
                      IF \E x \in DOMAIN f : f[x] = id
                      THEN LET x == CHOOSE y \in DOMAIN f : f[y] = id
                           IN NewRow(x[1], x[2], SeedHours, FirstDay, None)
                      ELSE None]
  BY DEF Init
<1>2. ASSUME NEW id \in Present(sched, None)
      PROVE  \E x \in Employees \X Weekdays :
                f[x] = id /\ sched[id] = NewRow(x[1], x[2], SeedHours, FirstDay, None)
  <2>1. id \in Ids /\ sched[id] # None
    BY <1>1 DEF Present
  <2>2. \E x \in DOMAIN f : f[x] = id
    BY <1>1, <2>1
  <2>3. PICK x \in DOMAIN f : x = (CHOOSE y \in DOMAIN f : f[y] = id) /\ f[x] = id
    BY <2>2
  <2> QED BY <1>1, <2>1, <2>2, <2>3
<1>3. OneActive(sched)
  <2> SUFFICES ASSUME NEW i \in Present(sched, None), NEW j \in Present(sched, None),
                      sched[i].emp = sched[j].emp, sched[i].weekday = sched[j].weekday
               PROVE  i = j
    BY DEF OneActive
  <2>1. PICK x \in Employees \X Weekdays :
            f[x] = i /\ sched[i] = NewRow(x[1], x[2], SeedHours, FirstDay, None)
    BY <1>2
  <2>2. PICK y \in Employees \X Weekdays :
            f[y] = j /\ sched[j] = NewRow(y[1], y[2], SeedHours, FirstDay, None)
    BY <1>2
  <2>3. x[1] = y[1] /\ x[2] = y[2]
    BY <2>1, <2>2 DEF NewRow
  <2> QED BY <2>1, <2>2, <2>3
<1>4. OrderedRows(sched)
  <2>1. ASSUME NEW id \in Present(sched, None) PROVE sched[id].to = None
    <3>1. PICK x \in Employees \X Weekdays : sched[id] = NewRow(x[1], x[2], SeedHours, FirstDay, None)
      BY <1>2
    <3> QED BY <3>1 DEF NewRow
  <2> QED BY <2>1 DEF OrderedRows
<1> QED BY <1>3, <1>4

\* The inductive invariant of types, constraints and handlers.
IndInv == TypeInv /\ OneActive(sched) /\ OrderedRows(sched) /\ calls \in 0..MaxCalls

\* The invariant holds in every reachable state.
THEOREM ScheduleInvariant == Spec => []IndInv
<1>1. Init => IndInv
  <2>1. Init => calls \in 0..MaxCalls
    BY ScheduleConstants DEF Init
  <2> QED BY <2>1, TypeInit, IndexInit DEF IndInv
<1>2. IndInv /\ [Next]_vars => IndInv'
  <2> SUFFICES ASSUME IndInv, [Next]_vars PROVE IndInv'
    OBVIOUS
  <2>1. TypeInv' /\ OneActive(sched') /\ OrderedRows(sched')
    BY TypeStep, IndexStep DEF IndInv
  <2>2. calls' = calls \/ (calls < MaxCalls /\ calls' = calls + 1)
    BY DEF Next, Start, NextDay, vars
  <2>3. calls' \in 0..MaxCalls
    BY <2>2, ScheduleConstants DEF IndInv
  <2> HIDE DEF TypeInv
  <2> QED BY <2>1, <2>3 DEF IndInv, OneActive, OrderedRows
<1> QED BY <1>1, <1>2, PTL DEF Spec

\* Every reachable state is well typed, whatever HR enters and however creations,
\* edits and changes interleave.
THEOREM TypeCorrect == Spec => []TypeOK
<1>1. IndInv => TypeOK
  BY DEF IndInv, TypeInv, TablesOK, OrderedRows, TypeOK
<1> QED BY <1>1, ScheduleInvariant, PTL

\* Two creations, a creation and a change or two changes of one weekday never both
\* leave an active row: the index of work_schedules decides.
THEOREM OneActiveRow == Spec => []OneActivePerDay
<1>1. IndInv => OneActivePerDay
  <2> SUFFICES ASSUME IndInv, NEW e \in Employees, NEW w \in Weekdays
               PROVE  Cardinality(FindActiveForEmployeeDay(e, w)) <= 1
    BY DEF OneActivePerDay
  <2> DEFINE S == FindActiveForEmployeeDay(e, w)
  <2>1. \A i, j \in S : i = j
    BY DEF IndInv, TypeInv, TablesOK, OneActive, Present, FindActiveForEmployeeDay,
           FindActiveForEmployee, Standing
  <2> HIDE DEF S
  <2>2. ASSUME S = {} PROVE Cardinality(S) <= 1
    BY <2>2, FS_EmptySet
  <2>3. ASSUME NEW x \in S PROVE Cardinality(S) <= 1
    <3>1. S = {x}
      BY <2>1, <2>3
    <3> QED BY <3>1, FS_Singleton
  <2>4. Cardinality(S) <= 1
    BY <2>2, <2>3
  <2> QED BY <2>4 DEF S
<1> QED BY <1>1, ScheduleInvariant, PTL
-----------------------------------------------------------------------------
(***************************************************************************)
(* The cascade: from the moment a change has read its candidates, each key *)
(* it holds still means the request it was read from, as the statuses of a *)
(* request that somebody else writes meanwhile count as raced.             *)
(***************************************************************************)
Cascading(p) ==
    \/ proc[p].pc \in {"read_corrections", "version"}
    \/ proc[p].pc \in {"load", "diff", "write"} /\ proc[p].for = "change"

Meant(r, s, p) ==
    /\ reqs[r] # None /\ reqs[r].emp = proc[p].intent.emp
    /\ reqs[r].status = s \/ reqs[r].status \notin ActiveStatuses
    /\ s = "approved" => reqs[r].first > proc[p].day

StillMeant(key, p) ==
    \E r \in ReqIds, s \in ActiveStatuses : key = <<r, s>> /\ (r \in raced \/ Meant(r, s, p))

CascadeInv(p) ==
    /\ proc[p].pc = "read_leaves" => "day" \in DOMAIN proc[p]
    /\ Cascading(p) =>
        /\ {"pc", "intent", "previewed", "day", "impact"} \subseteq DOMAIN proc[p]
        /\ \A key \in proc[p].impact : StillMeant(key, p)
    /\ Cascading(p) /\ proc[p].pc # "read_corrections" => proc[p].impact = proc[p].previewed

\* What a change reads is meant: an approved leave is cancelled only before it begins.
LEMMA CancelledMeant ==
    ASSUME TypeInv, NEW kind, NEW live, NEW p \in Procs,
           NEW key \in Cancelled(kind, live, proc[p].intent, proc[p].day)
    PROVE  StillMeant(key, p)
<1> DEFINE intent == proc[p].intent
           day == proc[p].day
<1>1. PICK r \in Candidates(kind, intent) :
        Cancels(reqs[r], live, intent, day) /\ key = <<r, reqs[r].status>>
  BY DEF Cancelled, Keys
<1>2. r \in ReqIds /\ reqs[r] \in ReqRow /\ reqs[r] # None
      /\ reqs[r].emp = intent.emp /\ reqs[r].status \in ActiveStatuses
  BY <1>1 DEF Candidates, TypeInv, TablesOK
<1>3. Classify(TemporalClass(Dates(reqs[r]), day), reqs[r].status) = "cancel"
  BY <1>1 DEF Cancels
<1>4. reqs[r].first \in Dates(reqs[r])
  <2>1. PICK d \in Dates(reqs[r]) : TRUE
    BY <1>1 DEF Cancels, Affected, LeaveAffected, CorrectionAffected, GovernedDates
  <2> QED BY <1>2, <2>1 DEF Dates, DatesInRange, ReqRow
<1>5. ASSUME reqs[r].status = "approved" PROVE reqs[r].first > day
  <2>1. TemporalClass(Dates(reqs[r]), day) = "future"
    BY <1>3, <1>5, SMT DEF Classify, PendingStatuses
  <2>2. \A d \in Dates(reqs[r]) : d > day
    BY <2>1, SMT DEF TemporalClass
  <2> QED BY <1>4, <2>2
<1>6. Meant(r, reqs[r].status, p)
  BY <1>2, <1>5 DEF Meant
<1> QED BY <1>1, <1>2, <1>6 DEF StillMeant

\* A change that waits meanwhile keeps its invariant when what happens to the
\* requests of its employee is a cancellation or is counted as raced.
LEMMA OtherCascade ==
    ASSUME NEW q \in Procs, proc'[q] = proc[q], CascadeInv(q), raced \subseteq raced',
           \A r \in ReqIds : Cascading(q) /\ reqs[r] # None /\ reqs[r].emp = proc[q].intent.emp
             => \/ r \in raced'
                \/ /\ reqs'[r] # None /\ reqs'[r].emp = reqs[r].emp /\ reqs'[r].first = reqs[r].first
                   /\ reqs'[r].status = reqs[r].status \/ reqs'[r].status \notin ActiveStatuses
    PROVE  CascadeInv(q)'
<1>1. ASSUME Cascading(q), NEW key \in proc[q].impact, StillMeant(key, q) PROVE StillMeant(key, q)'
  <2>1. PICK r \in ReqIds, s \in ActiveStatuses : key = <<r, s>> /\ (r \in raced \/ Meant(r, s, q))
    BY <1>1 DEF StillMeant
  <2>2. r \in raced' \/ Meant(r, s, q)'
    BY <1>1, <2>1 DEF Meant
  <2> QED BY <2>1, <2>2 DEF StillMeant
<1>2. Cascading(q)' <=> Cascading(q)
  BY DEF Cascading
<1>3. Cascading(q)' => \A key \in proc'[q].impact : StillMeant(key, q)'
  BY <1>1, <1>2 DEF CascadeInv
<1> QED BY <1>2, <1>3 DEF CascadeInv

\* A handler that is not in a change has nothing to keep.
LEMMA NotCascading ==
    ASSUME NEW p \in Procs, proc'[p].pc # "read_leaves", ~ Cascading(p)'
    PROVE  CascadeInv(p)'
BY DEF CascadeInv

\* A step that writes no table and keeps the invariant of the handler that takes it.
LEMMA QuietCascade ==
    ASSUME NEW p \in Procs, \A q \in Procs : CascadeInv(q), UNCHANGED <<reqs, raced>>,
           \A q \in Procs \ {p} : proc'[q] = proc[q], CascadeInv(p)'
    PROVE  \A q \in Procs : CascadeInv(q)'
<1>1. \A q \in Procs \ {p} : CascadeInv(q)'
  BY OtherCascade
<1> QED BY <1>1

\* A handler starts.
LEMMA CascadeStart ==
    ASSUME TypeInv, \A q \in Procs : CascadeInv(q), NEW p \in Procs, Start(p)
    PROVE  \A q \in Procs : CascadeInv(q)'
<1>1. DOMAIN proc = Procs
  BY DEF TypeInv, TablesOK
<1>2. UNCHANGED <<reqs, raced>>
  BY DEF Start, AdminWorkSchedules, AdminScheduleChanges, Requests, Create, Update,
         EndLogically, Preview, SubmitLeave, SubmitCorrection, Decide, tables
<1>3. ASSUME NEW r, Goto(p, r), r.pc \notin {"read_leaves", "read_corrections", "version"},
             r.pc \in {"load", "diff", "write"} => r.for # "change"
      PROVE  \A q \in Procs : CascadeInv(q)'
  <2>1. proc'[p] = r /\ \A q \in Procs \ {p} : proc'[q] = proc[q]
    BY <1>1, <1>3, GotoOnly
  <2>2. CascadeInv(p)'
    BY <1>3, <2>1, NotCascading DEF Cascading
  <2> QED BY <1>2, <2>1, <2>2, QuietCascade
<1>4. ASSUME NEW id, NEW patch, Edit(p, id, patch) PROVE \A q \in Procs : CascadeInv(q)'
  BY <1>3, <1>4 DEF Edit
<1>5. CASE AdminWorkSchedules(p)
  <2>1. ASSUME NEW e \in Employees, NEW n \in NewRows, Create(p, e, n.weekday, n.hours, n.from, n.to)
        PROVE  \A q \in Procs : CascadeInv(q)'
    BY <1>3, <2>1 DEF Create
  <2>2. ASSUME NEW id \in Ids, NEW patch, Update(p, id, patch) \/ EndLogically(p, id)
        PROVE  \A q \in Procs : CascadeInv(q)'
    BY <1>4, <2>2 DEF Update, EndLogically
  <2> QED BY <1>5, <2>1, <2>2 DEF AdminWorkSchedules
<1>6. CASE AdminScheduleChanges(p)
  <2>1. PICK e \in Employees, c \in Changes, remover \in Remover : Preview(p, Intent(e, c), remover)
    BY <1>6 DEF AdminScheduleChanges
  <2>2. PICK i, k : Goto(p, [pc |-> "previewed", intent |-> i, remover |-> remover, previewed |-> k])
    BY <2>1 DEF Preview
  <2> QED BY <1>3, <2>2
<1>7. CASE Requests(p)
  <2>1. ASSUME NEW e \in Employees, NEW s \in Spans, SubmitLeave(p, e, s)
        PROVE  \A q \in Procs : CascadeInv(q)'
    <3>1. PICK i, l, r : Goto(p, [pc |-> "file", id |-> i, live |-> l, req |-> r])
      BY <2>1 DEF SubmitLeave
    <3> QED BY <1>3, <3>1
  <2>2. ASSUME NEW e \in Employees, NEW d \in Days, SubmitCorrection(p, e, d)
        PROVE  \A q \in Procs : CascadeInv(q)'
    <3>1. PICK r : Goto(p, [pc |-> "file", id |-> None, live |-> None, req |-> r])
      BY <2>2 DEF SubmitCorrection
    <3> QED BY <1>3, <3>1
  <2>3. ASSUME NEW r \in ReqIds, Decide(p, r) PROVE \A q \in Procs : CascadeInv(q)'
    <3>1. PICK t, s : Goto(p, [pc |-> "decide", req |-> r, read |-> t, status |-> s])
      BY <2>3 DEF Decide
    <3> QED BY <1>3, <3>1
  <2> QED BY <1>7, <2>1, <2>2, <2>3 DEF Requests
<1> QED BY <1>5, <1>6, <1>7 DEF Start

\* A change reads its candidates and passes the drift guard.
LEMMA CascadeReads ==
    ASSUME TypeInv, \A q \in Procs : CascadeInv(q), NEW p \in Procs,
           Apply(p) \/ ReadLeaves(p) \/ ReadCorrections(p)
    PROVE  \A q \in Procs : CascadeInv(q)'
<1>1. /\ {"pc", "intent", "previewed"} \subseteq DOMAIN proc[p] /\ DOMAIN proc = Procs
      /\ UNCHANGED <<sched, reqs, today, raced>>
  BY DEF TypeInv, TablesOK, HandlerOK, Apply, ReadLeaves, ReadCorrections, tables
<1>2. ASSUME Finish(p) PROVE \A q \in Procs : CascadeInv(q)'
  <2>1. proc'[p] = Idle /\ \A q \in Procs \ {p} : proc'[q] = proc[q]
    BY <1>1, <1>2, GotoOnly DEF Finish
  <2>2. CascadeInv(p)'
    BY <2>1, NotCascading DEF Cascading, Idle
  <2> QED BY <1>1, <2>1, <2>2, QuietCascade
<1>3. ASSUME NEW key, StillMeant(key, p), "day" \in DOMAIN proc[p],
             proc'[p].intent = proc[p].intent, proc'[p].day = proc[p].day
      PROVE  StillMeant(key, p)'
  BY <1>1, <1>3 DEF StillMeant, Meant
<1>4. CASE Apply(p)
  <2>1. ASSUME NEW live, NEW plan, NEW day,
               Set(p, [pc |-> "read_leaves", live |-> live, plan |-> plan, day |-> day])
        PROVE  \A q \in Procs : CascadeInv(q)'
    <3>1. CascadeInv(p)'
      BY <1>1, <2>1, SetOnly DEF CascadeInv, Cascading
    <3> QED BY <1>1, <2>1, <3>1, SetOnly, QuietCascade
  <2>2. Finish(p) \/ \E live, plan, day : Set(p, [pc |-> "read_leaves", live |-> live, plan |-> plan, day |-> day])
    BY <1>4 DEF Apply
  <2> QED BY <1>2, <2>1, <2>2
<1>5. CASE ReadLeaves(p)
  <2> DEFINE impact == Cancelled("leave", proc[p].live, proc[p].intent, proc[p].day)
  <2>1. Set(p, [pc |-> "read_corrections", impact |-> impact])
    BY <1>5 DEF ReadLeaves
  <2>2. "day" \in DOMAIN proc[p]
    BY <1>5 DEF ReadLeaves, CascadeInv
  <2>3. \A key \in impact : StillMeant(key, p)
    BY CancelledMeant
  <2> HIDE DEF impact
  <2>4. /\ proc'[p].pc = "read_corrections" /\ proc'[p].impact = impact
        /\ proc'[p].intent = proc[p].intent /\ proc'[p].day = proc[p].day
        /\ {"pc", "intent", "previewed", "day", "impact"} \subseteq DOMAIN proc'[p]
    BY <1>1, <2>1, <2>2, SetOnly
  <2>5. CascadeInv(p)'
    BY <1>3, <2>2, <2>3, <2>4 DEF CascadeInv
  <2> QED BY <1>1, <2>1, <2>5, SetOnly, QuietCascade
<1>6. CASE ReadCorrections(p)
  <2> DEFINE impact == proc[p].impact \cup Cancelled("correction", proc[p].live, proc[p].intent, proc[p].day)
  <2>1. Finish(p) \/ (impact = proc[p].previewed /\ Set(p, [pc |-> "version", impact |-> impact]))
    BY <1>6 DEF ReadCorrections, NoDrift
  <2>2. /\ {"pc", "intent", "previewed", "day", "impact"} \subseteq DOMAIN proc[p]
        /\ \A key \in proc[p].impact : StillMeant(key, p)
    BY <1>6 DEF ReadCorrections, CascadeInv, Cascading
  <2>3. \A key \in impact : StillMeant(key, p)
    BY <2>2, CancelledMeant
  <2> HIDE DEF impact
  <2>4. ASSUME impact = proc[p].previewed, Set(p, [pc |-> "version", impact |-> impact])
        PROVE  \A q \in Procs : CascadeInv(q)'
    <3>1. /\ proc'[p].pc = "version" /\ proc'[p].impact = impact
          /\ proc'[p].intent = proc[p].intent /\ proc'[p].day = proc[p].day
          /\ proc'[p].previewed = proc[p].previewed
          /\ {"pc", "intent", "previewed", "day", "impact"} \subseteq DOMAIN proc'[p]
      BY <1>1, <2>2, <2>4, SetOnly
    <3>2. CascadeInv(p)'
      BY <1>3, <2>2, <2>3, <2>4, <3>1 DEF CascadeInv
    <3> QED BY <1>1, <2>4, <3>2, SetOnly, QuietCascade
  <2> QED BY <1>2, <2>1, <2>4
<1> QED BY <1>4, <1>5, <1>6

\* Versioning and saving keep what the change holds.
LEMMA CascadeWrites ==
    ASSUME TypeInv, \A q \in Procs : CascadeInv(q), NEW p \in Procs,
           Version(p) \/ Load(p) \/ Diff(p)
    PROVE  \A q \in Procs : CascadeInv(q)'
<1>1. /\ DOMAIN proc = Procs /\ UNCHANGED <<sched, reqs, today, raced>> /\ CascadeInv(p)
      /\ proc[p].pc \in {"version", "load", "diff"}
      /\ proc[p].pc \in {"load", "diff"} => "for" \in DOMAIN proc[p]
  BY DEF TypeInv, TablesOK, HandlerOK, Version, Load, Diff, tables
<1>2. CASE Finish(p)
  <2>1. proc'[p] = Idle /\ \A q \in Procs \ {p} : proc'[q] = proc[q]
    BY <1>1, <1>2, GotoOnly DEF Finish
  <2>2. CascadeInv(p)'
    BY <2>1, NotCascading DEF Cascading, Idle
  <2> QED BY <1>1, <2>1, <2>2, QuietCascade
<1>3. ASSUME NEW r, Set(p, r), "pc" \in DOMAIN r, r.pc \in {"load", "diff", "write"},
             DOMAIN r \cap {"intent", "previewed", "day", "impact"} = {},
             "for" \in DOMAIN r => r.for = "change" /\ proc[p].pc = "version",
             "for" \notin DOMAIN r => proc[p].pc # "version"
      PROVE  \A q \in Procs : CascadeInv(q)'
  <2>1. /\ \A q \in Procs \ {p} : proc'[q] = proc[q]
        /\ DOMAIN proc'[p] = DOMAIN proc[p] \cup DOMAIN r
        /\ \A c \in DOMAIN r : proc'[p][c] = r[c]
        /\ \A c \in DOMAIN proc[p] \ DOMAIN r : proc'[p][c] = proc[p][c]
    BY <1>1, <1>3, SetOnly
  <2>2. Cascading(p)' => Cascading(p)
    BY <1>1, <1>3, <2>1 DEF Cascading
  <2>3. ASSUME Cascading(p)
        PROVE  /\ {"pc", "intent", "previewed", "day", "impact"} \subseteq DOMAIN proc'[p]
               /\ proc'[p].impact = proc'[p].previewed
               /\ \A key \in proc'[p].impact : StillMeant(key, p)'
    <3>1. /\ {"pc", "intent", "previewed", "day", "impact"} \subseteq DOMAIN proc[p]
          /\ \A key \in proc[p].impact : StillMeant(key, p)
      BY <1>1, <2>3 DEF CascadeInv
    <3>2. proc[p].impact = proc[p].previewed
      BY <1>1, <2>3 DEF CascadeInv
    <3>3. /\ proc'[p].intent = proc[p].intent /\ proc'[p].day = proc[p].day
          /\ proc'[p].impact = proc[p].impact /\ proc'[p].previewed = proc[p].previewed
      BY <1>3, <2>1, <3>1
    <3>4. \A key \in proc'[p].impact : StillMeant(key, p)'
      BY <1>1, <3>1, <3>3 DEF StillMeant, Meant
    <3> QED BY <1>3, <2>1, <3>1, <3>2, <3>3, <3>4
  <2>4. CascadeInv(p)'
    BY <1>3, <2>1, <2>2, <2>3 DEF CascadeInv
  <2> QED BY <1>1, <2>1, <2>4, QuietCascade
<1>4. CASE Version(p)
  <2>1. \/ Finish(p)
        \/ \E i, t : Set(p, [pc |-> "write", for |-> "change", insert |-> i, patch |-> t])
        \/ \E i, t, id : Set(p, [pc |-> "load", for |-> "change", id |-> id, insert |-> i, patch |-> t])
    BY <1>4 DEF Version
  <2>2. proc[p].pc = "version"
    BY <1>4 DEF Version
  <2>3. ASSUME NEW i, NEW t, Set(p, [pc |-> "write", for |-> "change", insert |-> i, patch |-> t])
        PROVE  \A q \in Procs : CascadeInv(q)'
    BY <1>3, <2>2, <2>3
  <2>4. ASSUME NEW i, NEW t, NEW id,
               Set(p, [pc |-> "load", for |-> "change", id |-> id, insert |-> i, patch |-> t])
        PROVE  \A q \in Procs : CascadeInv(q)'
    BY <1>3, <2>2, <2>4
  <2> QED BY <1>2, <2>1, <2>3, <2>4
<1>5. CASE Load(p)
  <2>1. proc[p].pc = "load" /\ (Finish(p) \/ \E t : Set(p, [pc |-> "diff", patch |-> t]))
    BY <1>5 DEF Load
  <2> QED BY <1>2, <1>3, <2>1
<1>6. CASE Diff(p)
  <2>1. proc[p].pc = "diff" /\ \E t : Set(p, [pc |-> "write", patch |-> t])
    BY <1>6 DEF Diff
  <2> QED BY <1>3, <2>1
<1> QED BY <1>4, <1>5, <1>6

\* The handlers that end: a decision or a filing under a change counts as raced, and
\* a cascade only cancels.
LEMMA CascadeEnds ==
    ASSUME TypeInv, \A q \in Procs : CascadeInv(q), NEW p \in Procs,
           Write(p) \/ File(p) \/ SaveDecision(p) \/ Abort(p)
    PROVE  \A q \in Procs : CascadeInv(q)'
<1>1. DOMAIN proc = Procs /\ Finish(p)
  BY DEF TypeInv, TablesOK, Write, File, SaveDecision, Abort
<1>2. proc'[p] = Idle /\ \A q \in Procs \ {p} : proc'[q] = proc[q]
  BY <1>1, GotoOnly DEF Finish
<1>3. CascadeInv(p)'
  BY <1>2, NotCascading DEF Cascading, Idle
<1>4. CASE UNCHANGED <<reqs, raced>>
  BY <1>2, <1>3, <1>4, QuietCascade
<1>5. ASSUME Write(p), reqs' = SystemCancel(ToCancel(p)), raced' = raced \cup Touched(p)
      PROVE  \A q \in Procs \ {p} : CascadeInv(q)'
  <2>1. ASSUME NEW r \in ReqIds, reqs[r] # None
        PROVE  /\ reqs'[r] # None /\ reqs'[r].emp = reqs[r].emp /\ reqs'[r].first = reqs[r].first
               /\ reqs'[r].status = reqs[r].status \/ reqs'[r].status \notin ActiveStatuses
    <3>1. reqs[r] \in ReqRow
      BY <2>1 DEF TypeInv, TablesOK
    <3>2. reqs'[r] \in ReqRow /\ None \notin ReqRow
      BY <1>5, <3>1, CancelType, ScheduleInputs
    <3>3. reqs'[r] = reqs[r] \/ reqs'[r] = [reqs[r] EXCEPT !.status = "cancelled", !.system = TRUE]
      BY <1>5 DEF SystemCancel
    <3> QED BY <3>1, <3>2, <3>3 DEF ReqRow, ActiveStatuses, PendingStatuses
  <2> QED BY <1>2, <1>5, <2>1, OtherCascade
<1>6. ASSUME NEW q \in Procs \ {p}, File(p) PROVE CascadeInv(q)'
  <2>1. PICK i \in NextId(reqs, None) :
            /\ reqs' = [reqs EXCEPT ![i] = proc[p].req] /\ raced \subseteq raced'
    BY <1>6 DEF File
  <2>2. \A r \in ReqIds : reqs[r] # None => reqs'[r] = reqs[r]
    BY <2>1 DEF NextId, TypeInv, TablesOK
  <2> QED BY <1>2, <2>1, <2>2, OtherCascade
<1>7. ASSUME NEW q \in Procs \ {p}, SaveDecision(p) PROVE CascadeInv(q)'
  <2>1. PICK i \in ReqIds : i = proc[p].req /\ reqs[i] \in ReqRow
    BY <1>7 DEF TypeInv, HandlerOK, SaveDecision
  <2>2. /\ reqs' = [reqs EXCEPT ![i].status = proc[p].status] /\ raced \subseteq raced'
        /\ Changing(reqs[i].emp) => i \in raced'
    BY <1>7, <2>1 DEF SaveDecision
  <2>3. \A r \in ReqIds : r # i => reqs'[r] = reqs[r]
    BY <2>2 DEF TypeInv, TablesOK
  <2>4. ASSUME Cascading(q), reqs[i].emp = proc[q].intent.emp PROVE i \in raced'
    <3>1. Changing(reqs[i].emp)
      BY <2>4 DEF Changing, Cascading, CascadeInv
    <3> QED BY <2>2, <3>1
  <2> QED BY <1>2, <2>2, <2>3, <2>4, OtherCascade
<1>8. CASE Abort(p)
  BY <1>4, <1>8 DEF Abort, tables
<1>9. CASE Write(p)
  <2>1. UNCHANGED <<reqs, raced>> \/ (reqs' = SystemCancel(ToCancel(p)) /\ raced' = raced \cup Touched(p))
    BY <1>9 DEF Write
  <2> QED BY <1>3, <1>4, <1>5, <1>9, <2>1
<1> QED BY <1>3, <1>6, <1>7, <1>8, <1>9

\* Every step keeps the invariant of the cascade.
LEMMA CascadeStep ==
    TypeInv /\ (\A p \in Procs : CascadeInv(p)) /\ [Next]_vars => (\A p \in Procs : CascadeInv(p))'
<1> SUFFICES ASSUME TypeInv, \A p \in Procs : CascadeInv(p), [Next]_vars
             PROVE  \A q \in Procs : CascadeInv(q)'
  OBVIOUS
<1>1. ASSUME NEW p \in Procs, Step(p) PROVE \A q \in Procs : CascadeInv(q)'
  BY <1>1, CascadeReads, CascadeWrites, CascadeEnds DEF Step
<1>2. CASE NextDay \/ UNCHANGED vars
  BY <1>2, OtherCascade DEF NextDay, vars
<1> QED BY <1>1, <1>2, CascadeStart DEF Next

CascadeInvariant == TypeInv /\ \A p \in Procs : CascadeInv(p)

\* A handler of a change holds, from its reads to its commit, what it was shown, and
\* each key of it still means the request it was read from.
THEOREM CascadeHolds == Spec => []CascadeInvariant
<1>1. Init => CascadeInvariant
  <2> SUFFICES ASSUME Init, NEW p \in Procs PROVE CascadeInv(p)
    BY TypeInit DEF CascadeInvariant
  <2>1. proc[p].pc = "idle"
    BY DEF Init, Idle
  <2> QED BY <2>1 DEF CascadeInv, Cascading
<1>2. CascadeInvariant /\ [Next]_vars => CascadeInvariant'
  BY TypeStep, CascadeStep DEF CascadeInvariant
<1> QED BY <1>1, <1>2, PTL DEF Spec

\* Only the transaction of a change cancels on behalf of the system.
LEMMA CancelledByChange ==
    ASSUME TypeInv, [Next]_vars, NEW r \in ReqIds, reqs[r] # None,
           reqs'[r].system, ~ reqs[r].system
    PROVE  \E p \in Procs : Write(p) /\ r \in ToCancel(p) /\ reqs[r].status \in ActiveStatuses
<1>1. reqs' # reqs /\ reqs[r] \in ReqRow
  BY DEF TypeInv, TablesOK
<1>2. PICK p \in Procs : Write(p) \/ File(p) \/ SaveDecision(p)
  BY <1>1 DEF Next, Start, Step, AdminWorkSchedules, AdminScheduleChanges, Requests, Create, Update,
         EndLogically, Preview, SubmitLeave, SubmitCorrection, Decide, Apply, ReadLeaves,
         ReadCorrections, Version, Load, Diff, Abort, NextDay, vars, tables
<1>3. ~ File(p)
  BY DEF File, NextId, TypeInv, TablesOK
<1>4. ~ SaveDecision(p)
  <2> SUFFICES ASSUME SaveDecision(p) PROVE FALSE
    OBVIOUS
  <2>1. reqs' = [reqs EXCEPT ![proc[p].req].status = proc[p].status]
    BY DEF SaveDecision
  <2>2. reqs'[r] = reqs[r] \/ reqs'[r] = [reqs[r] EXCEPT !.status = proc[p].status]
    BY <2>1 DEF TypeInv, TablesOK
  <2> QED BY <1>1, <2>2 DEF ReqRow
<1>5. reqs' = SystemCancel(ToCancel(p))
  BY <1>1, <1>2, <1>3, <1>4 DEF Write
<1>6. r \in ToCancel(p) /\ reqs[r].status \in ActiveStatuses
  BY <1>5 DEF SystemCancel
<1> QED BY <1>2, <1>3, <1>4, <1>6

\* What a change cancels, it holds as a key.
LEMMA CancelledKey ==
    ASSUME CascadeInvariant, [Next]_vars, NEW r \in ReqIds, reqs[r] # None,
           reqs'[r].system, ~ reqs[r].system
    PROVE  \E p \in Procs, s \in ActiveStatuses :
             /\ proc[p].pc = "write" /\ proc'[p] = Idle
             /\ <<r, s>> \in proc[p].previewed
             /\ r \in raced \/ (Meant(r, s, p) /\ reqs[r].status = s)
<1>1. PICK p \in Procs : Write(p) /\ r \in ToCancel(p) /\ reqs[r].status \in ActiveStatuses
  BY CancelledByChange DEF CascadeInvariant
<1>2. proc[p].pc = "write" /\ proc[p].for = "change" /\ \E key \in proc[p].impact : key[1] = r
  BY <1>1 DEF Write, ToCancel
<1>3. proc'[p] = Idle
  <2>1. DOMAIN proc = Procs /\ Goto(p, Idle)
    BY <1>1 DEF CascadeInvariant, TypeInv, TablesOK, Write, Finish
  <2> QED BY <2>1, GotoOnly
<1>4. proc[p].impact = proc[p].previewed /\ \A key \in proc[p].impact : StillMeant(key, p)
  BY <1>2 DEF CascadeInvariant, CascadeInv, Cascading
<1>5. PICK key \in proc[p].previewed : key[1] = r /\ StillMeant(key, p)
  BY <1>2, <1>4
<1>6. PICK s \in ActiveStatuses : key = <<r, s>> /\ (r \in raced \/ Meant(r, s, p))
  BY <1>5 DEF StillMeant
<1>7. Meant(r, s, p) => reqs[r].status = s
  BY <1>1 DEF Meant
<1> QED BY <1>2, <1>3, <1>5, <1>6, <1>7

\* The drift guard: whatever requests are filed, decided and withdrawn between the
\* preview and the commit, and whatever other changes and edits run, a change cancels
\* only what its caller was shown.
THEOREM CancelsWhatWasShown == Spec => CancelsOnlyPreviewed
<1>1. CascadeInvariant /\ [Next]_vars =>
        [\A r \in ReqIds :
            reqs[r] # None /\ reqs'[r].system /\ ~ reqs[r].system
            => \E p \in Procs : proc[p].pc = "write" /\ proc'[p] = Idle
                                /\ \E s \in Statuses : <<r, s>> \in proc[p].previewed]_vars
  BY CancelledKey DEF Statuses
<1> QED BY <1>1, CascadeHolds, PTL DEF Spec, CancelsOnlyPreviewed

\* The guard reads once and the statement writes later; still no approved leave that
\* has begun is cancelled, unless its approval ran beside the change.
THEOREM UnderwayKept == Spec => ApprovedUnderwayKept
<1>1. CascadeInvariant /\ [Next]_vars =>
        [\A r \in ReqIds \ raced :
            reqs[r] # None /\ reqs'[r].system /\ ~ reqs[r].system /\ reqs[r].status = "approved"
            => \E p \in Procs : proc[p].pc = "write" /\ reqs[r].first > proc[p].day]_vars
  BY CancelledKey DEF Meant
<1> QED BY <1>1, CascadeHolds, PTL DEF Spec, ApprovedUnderwayKept
-----------------------------------------------------------------------------
(***************************************************************************)
(* Half-day leave.  What a request is cut from is never stored beside it:  *)
(* the row stands because every writer that could take it away either is   *)
(* a change that holds the request in its impact, or is counted as raced.  *)
(***************************************************************************)
\* Only a leave of one day carries a window.
HalfDay(req) ==
    req.window # None => req.kind = "leave" /\ req.portion # "full" /\ req.first = req.last

\* The row of the table the request is cut from.
Follows(req, row) ==
    /\ row # None /\ ~ row.deleted /\ row.emp = req.emp /\ row.weekday = WeekdayOf(req.first)
    /\ row.from <= req.first /\ (row.to # None => req.first <= row.to)
    /\ req.window = HalfDayWindow(row.hours, req.portion)

Coming(r) ==
    /\ r \notin raced /\ reqs[r] # None /\ reqs[r].window # None
    /\ reqs[r].status \in ActiveStatuses /\ reqs[r].first > today

RequestsFollow ==
    \A r \in ReqIds : /\ reqs[r] # None => HalfDay(reqs[r])
                      /\ Coming(r) => \E id \in Ids : Follows(reqs[r], sched[id])

\* What a change holds of the row it read and of what it was asked.
PlanOK(p) ==
    /\ {"pc", "intent", "live", "plan", "day"} \subseteq DOMAIN proc[p]
    /\ IntentOK(proc[p].intent) /\ proc[p].intent.mode \in {"modify", "remove"}
    /\ proc[p].day \in Int /\ proc[p].day <= today
    /\ proc[p].plan = PlanVersioning(proc[p].live, proc[p].intent)
    /\ proc[p].live # None =>
        /\ proc[p].live \in SchedRow
        /\ proc[p].live.emp = proc[p].intent.emp /\ proc[p].live.weekday = proc[p].intent.weekday

\* Every coming request the change affects is in its impact.
Covered(p) ==
    proc[p].live # None =>
        \A r \in ReqIds :
            /\ Coming(r) /\ reqs[r].emp = proc[p].intent.emp
            /\ LeaveAffected(reqs[r], proc[p].live, proc[p].intent)
            => \E key \in proc[p].impact : key[1] = r

\* What a handler of a leave read: the row it cuts the window from.
FilingOK(p) ==
    /\ HalfDay(proc[p].req)
    /\ proc[p].req.window # None =>
        /\ proc[p].id \in Ids /\ proc[p].id # None /\ proc[p].live \in SchedRow
        /\ ~ proc[p].live.deleted /\ proc[p].live.to = None
        /\ proc[p].live.emp = proc[p].req.emp
        /\ proc[p].live.weekday = WeekdayOf(proc[p].req.first)
        /\ proc[p].req.window = HalfDayWindow(proc[p].live.hours, proc[p].req.portion)

InsertOK(p) ==
    proc[p].insert = IF proc[p].intent.mode = "modify" THEN {Inserted(proc[p].intent)} ELSE {}

HalfInv(p) ==
    /\ proc[p].pc = "previewed" => proc[p].intent.mode \in {"modify", "remove"}
    /\ proc[p].pc = "read_leaves" \/ Cascading(p) => PlanOK(p)
    /\ Cascading(p) => Covered(p)
    /\ Cascading(p) /\ proc[p].pc \in {"load", "diff", "write"} => InsertOK(p)
    /\ proc[p].pc = "file" => FilingOK(p)
    /\ proc[p].pc = "decide" => proc[p].status \in NextStatuses(proc[p].read)

\* A handler that waits keeps what it holds, as requests of its employee that are filed
\* or decided beside it count as raced.
LEMMA OtherHalf ==
    ASSUME TypeInv, NEW q \in Procs, proc'[q] = proc[q], HalfInv(q), raced \subseteq raced',
           today \in Int, today' \in Int, today <= today', reqs' \in [ReqIds -> ReqRow \cup {None}],
           \A r \in ReqIds :
             Cascading(q) /\ r \notin raced' /\ reqs'[r] # None /\ reqs'[r].emp = proc[q].intent.emp
             => reqs'[r] = reqs[r] \/ reqs'[r].status \notin ActiveStatuses
    PROVE  HalfInv(q)'
<1>1. Cascading(q)' <=> Cascading(q)
  BY DEF Cascading
<1>2. PlanOK(q) => PlanOK(q)'
  BY DEF PlanOK, IntentOK
<1>3. ASSUME Cascading(q), Covered(q) PROVE Covered(q)'
  <2> SUFFICES ASSUME proc[q].live # None, NEW r \in ReqIds, Coming(r)',
                      reqs'[r].emp = proc[q].intent.emp,
                      LeaveAffected(reqs'[r], proc[q].live, proc[q].intent)
               PROVE  \E key \in proc[q].impact : key[1] = r
    BY DEF Covered
  <2>1. /\ r \notin raced' /\ reqs'[r] # None /\ reqs'[r].window # None
        /\ reqs'[r].status \in ActiveStatuses /\ reqs'[r].first > today'
    BY DEF Coming
  <2>2. reqs'[r] = reqs[r]
    BY <1>3, <2>1
  <2>3. reqs'[r].first \in Int
    BY <2>1 DEF ReqRow
  <2>4. Coming(r)
    BY <2>1, <2>2, <2>3 DEF Coming
  <2> QED BY <1>3, <2>2, <2>4 DEF Covered
<1>4. InsertOK(q)' <=> InsertOK(q)
  BY DEF InsertOK
<1>5. FilingOK(q)' <=> FilingOK(q)
  BY DEF FilingOK
<1> QED BY <1>1, <1>2, <1>3, <1>4, <1>5 DEF HalfInv

\* Requests follow their schedules while no table is written.
LEMMA QuietFollow ==
    ASSUME RequestsFollow, UNCHANGED <<sched, reqs, today, raced>>
    PROVE  RequestsFollow'
BY DEF RequestsFollow, Coming

AllHalf == RequestsFollow /\ \A p \in Procs : HalfInv(p)

\* A step that writes no table and keeps the invariant of the handler that takes it.
LEMMA QuietHalf ==
    ASSUME TypeInv, AllHalf, NEW p \in Procs, UNCHANGED <<sched, reqs, today, raced>>,
           \A q \in Procs \ {p} : proc'[q] = proc[q], HalfInv(p)'
    PROVE  AllHalf'
<1>1. today \in Int
  BY ScheduleConstants DEF TypeInv, TablesOK, Days
<1>2. \A q \in Procs \ {p} : HalfInv(q)'
  BY <1>1, OtherHalf DEF AllHalf, TypeInv, TablesOK
<1> QED BY <1>2, QuietFollow DEF AllHalf

\* A handler that ends.
LEMMA FinishHalf ==
    ASSUME NEW p \in Procs, DOMAIN proc = Procs, Finish(p)
    PROVE  HalfInv(p)' /\ \A q \in Procs \ {p} : proc'[q] = proc[q]
<1>1. proc'[p] = Idle /\ \A q \in Procs \ {p} : proc'[q] = proc[q]
  BY GotoOnly DEF Finish
<1> QED BY <1>1 DEF HalfInv, Cascading, Idle

\* A handler starts: what a submission reads of its schedule, it cuts its window from.
LEMMA HalfStart ==
    ASSUME TypeInv, AllHalf, NEW p \in Procs, Start(p)
    PROVE  AllHalf'
<1>1. DOMAIN proc = Procs /\ UNCHANGED <<sched, reqs, today, raced>>
  BY DEF TypeInv, TablesOK, Start, AdminWorkSchedules, AdminScheduleChanges, Requests, Create, Update,
         EndLogically, Preview, SubmitLeave, SubmitCorrection, Decide, tables
<1>2. ASSUME NEW r, Goto(p, r), proc'[p] = r => HalfInv(p)' PROVE AllHalf'
  BY <1>1, <1>2, GotoOnly, QuietHalf
<1>3. ASSUME NEW r, Goto(p, r), r.pc \in {"load", "write"}, r.for # "change" PROVE AllHalf'
  <2>1. proc'[p] = r => HalfInv(p)'
    BY <1>3 DEF HalfInv, Cascading
  <2> QED BY <1>2, <1>3, <2>1
<1>4. CASE AdminWorkSchedules(p)
  <2>1. ASSUME NEW e \in Employees, NEW n \in NewRows, Create(p, e, n.weekday, n.hours, n.from, n.to)
        PROVE  AllHalf'
    BY <1>3, <2>1 DEF Create
  <2>2. ASSUME NEW id, NEW patch, Edit(p, id, patch) PROVE AllHalf'
    BY <1>3, <2>2 DEF Edit
  <2>3. ASSUME NEW id \in Ids, NEW patch, Update(p, id, patch) \/ EndLogically(p, id) PROVE AllHalf'
    BY <2>2, <2>3 DEF Update, EndLogically
  <2> QED BY <1>4, <2>1, <2>3 DEF AdminWorkSchedules
<1>5. CASE AdminScheduleChanges(p)
  <2>1. PICK e \in Employees, c \in Changes, remover \in Remover : Preview(p, Intent(e, c), remover)
    BY <1>5 DEF AdminScheduleChanges
  <2>2. PICK k : Goto(p, [pc |-> "previewed", intent |-> Intent(e, c), remover |-> remover, previewed |-> k])
    BY <2>1 DEF Preview
  <2>3. Intent(e, c).mode \in {"modify", "remove"}
    BY ScheduleInputs DEF Intent
  <2> DEFINE r == [pc |-> "previewed", intent |-> Intent(e, c), remover |-> remover, previewed |-> k]
  <2>4. proc'[p] = r => HalfInv(p)'
    BY <2>3 DEF HalfInv, Cascading
  <2> QED BY <1>2, <2>2, <2>4
<1>6. CASE Requests(p)
  <2>1. ASSUME NEW r \in ReqIds, Decide(p, r) PROVE AllHalf'
    <3>1. PICK s \in NextStatuses(reqs[r].status) :
            Goto(p, [pc |-> "decide", req |-> r, read |-> reqs[r].status, status |-> s])
      BY <2>1 DEF Decide
    <3> DEFINE h == [pc |-> "decide", req |-> r, read |-> reqs[r].status, status |-> s]
    <3>2. proc'[p] = h => HalfInv(p)'
      BY <3>1 DEF HalfInv, Cascading
    <3> QED BY <1>2, <3>1, <3>2
  <2>2. ASSUME NEW e \in Employees, NEW d \in Days, SubmitCorrection(p, e, d) PROVE AllHalf'
    <3> DEFINE row == [kind |-> "correction", emp |-> e, first |-> d, last |-> d,
                       portion |-> "full", status |-> "pending_l1", system |-> FALSE, window |-> None]
               h   == [pc |-> "file", id |-> None, live |-> None, req |-> row]
    <3>1. proc'[p] = h => HalfInv(p)'
      BY DEF HalfInv, Cascading, FilingOK, HalfDay
    <3>2. Goto(p, h)
      BY <2>2 DEF SubmitCorrection
    <3> QED BY <1>2, <3>1, <3>2
  <2>3. ASSUME NEW e \in Employees, NEW s \in Spans, SubmitLeave(p, e, s) PROVE AllHalf'
    <3>1. PICK id \in FindActiveForEmployeeDay(e, WeekdayOf(s.first)) :
            Goto(p, [pc |-> "file", id |-> id, live |-> sched[id],
                 req |-> [kind |-> "leave", emp |-> e, first |-> s.first, last |-> s.last,
                          portion |-> s.portion, status |-> "pending_l1", system |-> FALSE,
                          window |-> HalfDayWindow(sched[id].hours, s.portion)]])
      BY <2>3 DEF SubmitLeave
    <3>2. PICK live : live = sched[id]
      OBVIOUS
    <3>3. /\ id \in Ids /\ live \in SchedRow /\ ~ live.deleted /\ live.to = None
          /\ live.emp = e /\ live.weekday = WeekdayOf(s.first)
      BY <3>2 DEF FindActiveForEmployeeDay, FindActiveForEmployee, Standing, TypeInv, TablesOK
    <3>4. id # None
      BY <3>3, WeekConstants, ScheduleConstants DEF Ids
    <3>5. PICK window : window = HalfDayWindow(live.hours, s.portion)
      OBVIOUS
    <3>6. window # None => s.portion # "full" /\ s.first = s.last
      BY <2>3, <3>5 DEF HalfDayWindow, SubmitLeave
    <3> DEFINE row == [kind |-> "leave", emp |-> e, first |-> s.first, last |-> s.last,
                       portion |-> s.portion, status |-> "pending_l1", system |-> FALSE,
                       window |-> window]
               h   == [pc |-> "file", id |-> id, live |-> live, req |-> row]
    <3>7. HalfDay(row)
      BY <3>6 DEF HalfDay
    <3>8. ASSUME proc'[p] = h PROVE FilingOK(p)'
      BY <3>3, <3>4, <3>5, <3>7, <3>8 DEF FilingOK
    <3>9. proc'[p] = h => HalfInv(p)'
      <4> HIDE DEF row
      <4> QED BY <3>8 DEF HalfInv, Cascading
    <3>10. Goto(p, h)
      BY <3>1, <3>2, <3>5
    <3> QED BY <1>2, <3>9, <3>10
  <2> QED BY <1>6, <2>1, <2>2, <2>3 DEF Requests
<1> QED BY <1>4, <1>5, <1>6 DEF Start

\* The live row a change reads is of its employee and weekday.
LEMMA LiveRowRead ==
    ASSUME TypeInv, NEW e, NEW w, NEW id \in LiveIds(e, w), LiveRow(id) # None
    PROVE  LiveRow(id) \in SchedRow /\ LiveRow(id).emp = e /\ LiveRow(id).weekday = w
<1>1. id \in FindActiveForEmployeeDay(e, w) /\ LiveRow(id) = sched[id]
  BY DEF LiveIds, LiveRow
<1> QED BY <1>1 DEF FindActiveForEmployeeDay, FindActiveForEmployee, Standing, TypeInv, TablesOK

\* The cascade reads every coming request it affects: such a request is a candidate,
\* and all of its day lies ahead.
LEMMA CandidatesCovered ==
    ASSUME TypeInv, RequestsFollow, NEW r \in ReqIds, Coming(r), NEW live, live # None, NEW intent,
           intent.from \in Int, NEW day \in Int, day <= today, reqs[r].emp = intent.emp,
           LeaveAffected(reqs[r], live, intent)
    PROVE  \E key \in Cancelled("leave", live, intent, day) : key[1] = r
<1>1. /\ reqs[r] \in ReqRow /\ reqs[r].kind = "leave" /\ reqs[r].status \in ActiveStatuses
      /\ reqs[r] # None /\ reqs[r].first > today /\ today \in Int
  BY ScheduleConstants DEF TypeInv, TablesOK, RequestsFollow, Coming, HalfDay, Days
<1>2. reqs[r].first \in Int /\ reqs[r].last \in Int
  BY <1>1 DEF ReqRow
<1>3. PICK d \in Dates(reqs[r]) : d >= intent.from
  BY DEF LeaveAffected, GovernedDates
<1>4. d \in Int /\ reqs[r].first <= d /\ d <= reqs[r].last
  BY <1>2, <1>3 DEF Dates, DatesInRange
<1>5. r \in Candidates("leave", intent)
  BY <1>1, <1>2, <1>3, <1>4 DEF Candidates
<1>6. \A x \in Dates(reqs[r]) : x \in Int /\ x > day
  BY <1>1, <1>2 DEF Dates, DatesInRange
<1>7. TemporalClass(Dates(reqs[r]), day) = "future"
  <2>1. ~ \A x \in Dates(reqs[r]) : x < day
    BY <1>3, <1>6
  <2> QED BY <1>6, <2>1 DEF TemporalClass
<1>8. Classify("future", reqs[r].status) = "cancel"
  BY <1>1 DEF Classify, ActiveStatuses
<1>9. Cancels(reqs[r], live, intent, day)
  BY <1>1, <1>7, <1>8 DEF Cancels, Affected
<1>10. <<r, reqs[r].status>> \in Cancelled("leave", live, intent, day)
  BY <1>5, <1>9 DEF Cancelled, Keys
<1>11. <<r, reqs[r].status>>[1] = r
  OBVIOUS
<1> QED BY <1>10, <1>11

\* A change reads: it plans from the row it read, and holds every coming request that
\* the plan affects.
LEMMA HalfReads ==
    ASSUME TypeInv, \A q \in Procs : CascadeInv(q), AllHalf, NEW p \in Procs,
           Apply(p) \/ ReadLeaves(p) \/ ReadCorrections(p)
    PROVE  AllHalf'
<1>1. /\ DOMAIN proc = Procs /\ UNCHANGED <<sched, reqs, today, raced>> /\ today \in Int
      /\ HalfInv(p) /\ HandlerOK(p) /\ CascadeInv(p) /\ RequestsFollow
  BY ScheduleConstants DEF TypeInv, TablesOK, AllHalf, Apply, ReadLeaves, ReadCorrections, tables, Days
<1>2. CASE Finish(p)
  BY <1>1, <1>2, FinishHalf, QuietHalf
<1>3. ASSUME Apply(p), ~ Finish(p) PROVE AllHalf'
  <2>1. PICK id \in LiveIds(proc[p].intent.emp, proc[p].intent.weekday) :
          LET intent == proc[p].intent
              live == LiveRow(id)
              plan == PlanVersioning(live, intent)
          IN IF plan = "noop" THEN Finish(p)
             ELSE Set(p, [pc |-> "read_leaves", live |-> live, plan |-> plan, day |-> today])
    BY <1>3 DEF Apply
  <2>2. PICK live, plan : live = LiveRow(id) /\ plan = PlanVersioning(live, proc[p].intent)
    OBVIOUS
  <2>3. Set(p, [pc |-> "read_leaves", live |-> live, plan |-> plan, day |-> today])
    BY <1>3, <2>1, <2>2
  <2>4. proc[p].pc = "previewed"
    BY <1>3 DEF Apply
  <2>5. /\ {"pc", "intent"} \subseteq DOMAIN proc[p] /\ IntentOK(proc[p].intent)
        /\ proc[p].intent.mode \in {"modify", "remove"}
    BY <1>1, <2>4 DEF HalfInv, HandlerOK
  <2>6. /\ proc'[p].pc = "read_leaves" /\ proc'[p].live = live /\ proc'[p].plan = plan
        /\ proc'[p].day = today /\ proc'[p].intent = proc[p].intent
        /\ {"pc", "intent", "live", "plan", "day"} \subseteq DOMAIN proc'[p]
        /\ \A q \in Procs \ {p} : proc'[q] = proc[q]
    BY <1>1, <2>3, <2>5, SetOnly
  <2>7. live # None => /\ live \in SchedRow /\ live.emp = proc[p].intent.emp
                       /\ live.weekday = proc[p].intent.weekday
    BY <2>2, LiveRowRead
  <2>8. PlanOK(p)'
    BY <1>1, <2>2, <2>5, <2>6, <2>7 DEF PlanOK, IntentOK
  <2>9. HalfInv(p)'
    BY <2>6, <2>8 DEF HalfInv, Cascading
  <2> QED BY <1>1, <2>6, <2>9, QuietHalf
<1>4. ASSUME PlanOK(p), NEW r, Set(p, r), {"intent", "live", "plan", "day"} \cap DOMAIN r = {},
             "pc" \in DOMAIN r
      PROVE  /\ PlanOK(p)' /\ \A q \in Procs \ {p} : proc'[q] = proc[q]
             /\ proc'[p].intent = proc[p].intent /\ proc'[p].live = proc[p].live
             /\ \A c \in DOMAIN r : proc'[p][c] = r[c]
             /\ DOMAIN proc'[p] = DOMAIN proc[p] \cup DOMAIN r
             /\ \A c \in DOMAIN proc[p] \ DOMAIN r : proc'[p][c] = proc[p][c]
  <2>1. /\ \A q \in Procs \ {p} : proc'[q] = proc[q]
        /\ DOMAIN proc'[p] = DOMAIN proc[p] \cup DOMAIN r
        /\ \A c \in DOMAIN r : proc'[p][c] = r[c]
        /\ \A c \in DOMAIN proc[p] \ DOMAIN r : proc'[p][c] = proc[p][c]
    BY <1>1, <1>4, SetOnly
  <2>2. /\ proc'[p].intent = proc[p].intent /\ proc'[p].live = proc[p].live
        /\ proc'[p].plan = proc[p].plan /\ proc'[p].day = proc[p].day
        /\ {"pc", "intent", "live", "plan", "day"} \subseteq DOMAIN proc'[p]
    BY <1>4, <2>1 DEF PlanOK
  <2>3. PlanOK(p)'
    BY <1>1, <1>4, <2>2 DEF PlanOK, IntentOK
  <2> QED BY <2>1, <2>2, <2>3
<1>5. CASE ReadLeaves(p)
  <2>1. PICK impact : impact = Cancelled("leave", proc[p].live, proc[p].intent, proc[p].day)
    OBVIOUS
  <2>2. Set(p, [pc |-> "read_corrections", impact |-> impact])
    BY <1>5, <2>1 DEF ReadLeaves
  <2>3. PlanOK(p)
    BY <1>1, <1>5 DEF ReadLeaves, HalfInv
  <2>4. /\ PlanOK(p)' /\ \A q \in Procs \ {p} : proc'[q] = proc[q]
        /\ proc'[p].intent = proc[p].intent /\ proc'[p].live = proc[p].live
        /\ proc'[p].pc = "read_corrections" /\ proc'[p].impact = impact
    BY <1>4, <2>2, <2>3
  <2>5. ASSUME proc[p].live # None, NEW r \in ReqIds, Coming(r), reqs[r].emp = proc[p].intent.emp,
               LeaveAffected(reqs[r], proc[p].live, proc[p].intent)
        PROVE  \E key \in impact : key[1] = r
    <3>1. proc[p].intent.from \in Int /\ proc[p].day \in Int /\ proc[p].day <= today
      BY <2>3 DEF PlanOK, IntentOK
    <3> QED BY <1>1, <2>1, <2>5, <3>1, CandidatesCovered
  <2>6. Covered(p)'
    BY <1>1, <2>4, <2>5 DEF Covered, Coming
  <2>7. HalfInv(p)'
    BY <2>4, <2>6 DEF HalfInv
  <2> QED BY <1>1, <2>4, <2>7, QuietHalf
<1>6. ASSUME ReadCorrections(p), ~ Finish(p) PROVE AllHalf'
  <2>1. PICK impact : /\ proc[p].impact \subseteq impact
                      /\ Set(p, [pc |-> "version", impact |-> impact])
    BY <1>6 DEF ReadCorrections
  <2>2. PlanOK(p) /\ Covered(p)
    BY <1>1, <1>6 DEF ReadCorrections, HalfInv, Cascading
  <2>3. /\ PlanOK(p)' /\ \A q \in Procs \ {p} : proc'[q] = proc[q]
        /\ proc'[p].intent = proc[p].intent /\ proc'[p].live = proc[p].live
        /\ proc'[p].pc = "version" /\ proc'[p].impact = impact
    BY <1>4, <2>1, <2>2
  <2>4. Covered(p)'
    BY <1>1, <2>1, <2>2, <2>3 DEF Covered, Coming
  <2>5. HalfInv(p)'
    BY <2>3, <2>4 DEF HalfInv
  <2> QED BY <1>1, <2>3, <2>5, QuietHalf
<1> QED BY <1>2, <1>3, <1>5, <1>6

\* Versioning and saving keep what the change holds.
LEMMA HalfWrites ==
    ASSUME TypeInv, \A q \in Procs : CascadeInv(q), AllHalf, NEW p \in Procs,
           Version(p) \/ Load(p) \/ Diff(p)
    PROVE  AllHalf'
<1>1. /\ DOMAIN proc = Procs /\ UNCHANGED <<sched, reqs, today, raced>>
      /\ HalfInv(p) /\ HandlerOK(p) /\ proc[p].pc \in {"version", "load", "diff"}
  BY DEF TypeInv, TablesOK, AllHalf, Version, Load, Diff, tables
<1>2. CASE Finish(p)
  BY <1>1, <1>2, FinishHalf, QuietHalf
<1>3. ASSUME NEW r, Set(p, r), "pc" \in DOMAIN r, r.pc \in {"load", "diff", "write"},
             DOMAIN r \cap {"intent", "live", "plan", "day", "impact"} = {},
             \/ /\ proc[p].pc = "version" /\ "insert" \in DOMAIN r
                /\ r.insert = IF proc[p].intent.mode = "modify" THEN {Inserted(proc[p].intent)} ELSE {}
             \/ /\ proc[p].pc \in {"load", "diff"}
                /\ "insert" \notin DOMAIN r /\ "for" \notin DOMAIN r,
             Cascading(p) => "impact" \in DOMAIN proc[p]
      PROVE  AllHalf'
  <2>1. /\ \A q \in Procs \ {p} : proc'[q] = proc[q]
        /\ DOMAIN proc'[p] = DOMAIN proc[p] \cup DOMAIN r
        /\ \A c \in DOMAIN r : proc'[p][c] = r[c]
        /\ \A c \in DOMAIN proc[p] \ DOMAIN r : proc'[p][c] = proc[p][c]
    BY <1>1, <1>3, SetOnly
  <2>2. proc[p].pc \in {"load", "diff"} => {"for", "insert"} \subseteq DOMAIN proc[p]
    BY <1>1 DEF HandlerOK
  <2>3. Cascading(p)' => Cascading(p)
    BY <1>1, <1>3, <2>1, <2>2 DEF Cascading
  <2>4. ASSUME Cascading(p) PROVE PlanOK(p)' /\ Covered(p)' /\ InsertOK(p)'
    <3>1. PlanOK(p) /\ Covered(p) /\ (proc[p].pc \in {"load", "diff"} => InsertOK(p))
      BY <1>1, <2>4 DEF HalfInv
    <3>2. /\ proc'[p].intent = proc[p].intent /\ proc'[p].live = proc[p].live
          /\ proc'[p].plan = proc[p].plan /\ proc'[p].day = proc[p].day
          /\ proc'[p].impact = proc[p].impact
          /\ {"pc", "intent", "live", "plan", "day"} \subseteq DOMAIN proc'[p]
      BY <1>3, <2>1, <2>4, <3>1 DEF PlanOK
    <3>3. PlanOK(p)'
      BY <1>1, <3>1, <3>2 DEF PlanOK, IntentOK
    <3>4. Covered(p)'
      BY <1>1, <3>1, <3>2 DEF Covered, Coming
    <3>5. InsertOK(p)'
      <4>1. CASE proc[p].pc = "version"
        BY <1>3, <2>1, <3>2, <4>1 DEF InsertOK
      <4>2. CASE proc[p].pc \in {"load", "diff"}
        BY <1>3, <2>1, <2>2, <3>1, <3>2, <4>2 DEF InsertOK
      <4> QED BY <1>1, <4>1, <4>2
    <3> QED BY <3>3, <3>4, <3>5
  <2>5. HalfInv(p)'
    BY <1>3, <2>1, <2>3, <2>4 DEF HalfInv
  <2> QED BY <1>1, <2>1, <2>5, QuietHalf
<1>4. Cascading(p) => "impact" \in DOMAIN proc[p]
  BY DEF CascadeInv
<1>5. ASSUME Version(p), ~ Finish(p) PROVE AllHalf'
  <2>1. PICK insert : insert = IF proc[p].intent.mode = "modify" THEN {Inserted(proc[p].intent)} ELSE {}
    OBVIOUS
  <2>2. \/ \E t : Set(p, [pc |-> "write", for |-> "change", insert |-> insert, patch |-> t])
        \/ \E t, id : Set(p, [pc |-> "load", for |-> "change", id |-> id, insert |-> insert, patch |-> t])
    BY <1>5, <2>1 DEF Version
  <2>3. proc[p].pc = "version"
    BY <1>5 DEF Version
  <2>4. ASSUME NEW t, Set(p, [pc |-> "write", for |-> "change", insert |-> insert, patch |-> t])
        PROVE  AllHalf'
    BY <1>3, <1>4, <2>1, <2>3, <2>4
  <2>5. ASSUME NEW t, NEW id,
               Set(p, [pc |-> "load", for |-> "change", id |-> id, insert |-> insert, patch |-> t])
        PROVE  AllHalf'
    BY <1>3, <1>4, <2>1, <2>3, <2>5
  <2> QED BY <2>2, <2>4, <2>5
<1>6. ASSUME Load(p), ~ Finish(p) PROVE AllHalf'
  <2>1. proc[p].pc = "load" /\ \E t : Set(p, [pc |-> "diff", patch |-> t])
    BY <1>6 DEF Load
  <2> QED BY <1>3, <1>4, <2>1
<1>7. CASE Diff(p)
  <2>1. proc[p].pc = "diff" /\ \E t : Set(p, [pc |-> "write", patch |-> t])
    BY <1>7 DEF Diff
  <2> QED BY <1>3, <1>4, <2>1
<1> QED BY <1>2, <1>5, <1>6, <1>7

\* What a statement leaves of a row that was there: the row, or the row with the patch.
LEMMA WrittenRow ==
    ASSUME TypeInv, NEW p \in Procs, NEW id \in Ids, sched[id] # None
    PROVE  \/ Written(p)[id] = sched[id]
           \/ /\ DOMAIN proc[p].patch # {} /\ id = proc[p].id
              /\ Written(p)[id] = Patched(sched[id], proc[p].patch)
<1>1. id \notin NextId(sched, None)
  BY DEF NextId, TypeInv, TablesOK
<1> QED BY <1>1 DEF Written

\* The row a change inserts is stored under a new id.
LEMMA InsertedRow ==
    ASSUME TypeInv, NEW p \in Procs, NextId(sched, None) # {}, NEW row, proc[p].insert = {row},
           DOMAIN proc[p].patch # {} => sched[proc[p].id] # None
    PROVE  \E id \in Ids : Written(p)[id] = row
<1>1. PICK id \in NextId(sched, None) : TRUE
  OBVIOUS
<1>2. id \in Ids /\ sched[id] = None
  BY <1>1 DEF NextId, TypeInv, TablesOK
<1>3. (CHOOSE x \in proc[p].insert : TRUE) = row
  OBVIOUS
<1>4. ~ (DOMAIN proc[p].patch # {} /\ id = proc[p].id)
  BY <1>2
<1>5. Written(p)[id] = CHOOSE x \in proc[p].insert : TRUE
  BY <1>1, <1>2, <1>4 DEF Written
<1> QED BY <1>2, <1>3, <1>5

\* A change that neither affects a half-day leave nor keeps its row leaves another row
\* with the same hours from the day of the change.
LEMMA UnaffectedFollows ==
    ASSUME NEW req \in ReqRow, NEW live \in SchedRow, NEW intent, IntentOK(intent),
           intent.mode \in {"modify", "remove"}, req.portion # "full", req.first = req.last,
           Follows(req, live), live.emp = intent.emp, live.weekday = intent.weekday,
           req.first >= intent.from, ~ LeaveAffected(req, live, intent)
    PROVE  intent.mode = "modify" /\ Follows(req, Inserted(intent))
<1>1. req.first \in Int /\ req.last \in Int /\ live.hours \in HoursSet
  BY DEF ReqRow, SchedRow
<1>2. req.first \in GovernedDates(Dates(req), intent)
  <2>1. req.first \in Dates(req)
    BY <1>1 DEF Dates, DatesInRange
  <2>2. WeekdayOf(req.first) = intent.weekday
    BY DEF Follows
  <2> QED BY <2>1, <2>2 DEF GovernedDates
<1>3. intent.mode = "modify" /\ ~ WindowChanged(live, intent) /\ ~ BreakChanged(live, intent)
  BY <1>2 DEF LeaveAffected
<1>4. /\ live.hours \in [in : Int, out : Int, len : Int, brk : Int \cup {None}]
      /\ intent.hours \in [in : Int, out : Int, len : Int, brk : Int \cup {None}]
  BY <1>1, <1>3, ScheduleInputs DEF IntentOK
<1>5. intent.hours = live.hours
  BY <1>3, <1>4 DEF WindowChanged, BreakChanged
<1>6. Inserted(intent) # None
  BY <1>3, NewRowType, ScheduleInputs DEF IntentOK, Inserted
<1>7. /\ Inserted(intent).emp = intent.emp /\ Inserted(intent).weekday = intent.weekday
      /\ Inserted(intent).hours = intent.hours /\ Inserted(intent).from = intent.from
      /\ Inserted(intent).to = None /\ ~ Inserted(intent).deleted
  BY DEF Inserted, NewRow
<1>8. req.window = HalfDayWindow(Inserted(intent).hours, req.portion)
  BY <1>5, <1>7 DEF Follows
<1> QED BY <1>3, <1>6, <1>7, <1>8 DEF Follows

\* A request before the day of a change keeps the row the change ends.
LEMMA EndedFollows ==
    ASSUME NEW req \in ReqRow, NEW live \in SchedRow, NEW intent, IntentOK(intent), live # None,
           Follows(req, live), req.first < intent.from
    PROVE  Follows(req, Patched(live, Ending(PlanVersioning(live, intent), intent)))
<1>1. /\ req.first \in Int /\ live.from \in Int /\ intent.from \in Int
      /\ live.from <= req.first
  BY DEF ReqRow, SchedRow, IntentOK, Follows
<1>2. PlanVersioning(live, intent) \in {"end_only", "end_and_create"}
  BY <1>1 DEF PlanVersioning
<1>3. PICK d : d = DayBefore(intent.from)
  OBVIOUS
<1>4. Ending(PlanVersioning(live, intent), intent) = [to |-> d]
  BY <1>2, <1>3 DEF Ending
<1>5. d \in Int /\ req.first <= d
  BY <1>1, <1>3 DEF DayBefore
<1>6. PICK row : row = Patched(live, [to |-> d])
  OBVIOUS
<1>7. /\ row.emp = live.emp /\ row.weekday = live.weekday /\ row.from = live.from
      /\ row.hours = live.hours /\ row.deleted = live.deleted /\ row.to = d
  BY <1>6 DEF Patched, SchedRow
<1>8. row # None
  BY <1>5, <1>6, PatchedRow, ScheduleInputs DEF SchedPatch
<1> QED BY <1>4, <1>5, <1>6, <1>7, <1>8 DEF Follows

\* The statement of a change, or of HR, with the cascade: a coming half-day leave keeps
\* its row, finds the same hours in the row the change inserts, is cancelled with it,
\* or was on a day somebody wrote without a cascade.
LEMMA WriteFollows ==
    ASSUME TypeInv, AllHalf, NEW p \in Procs, Write(p)
    PROVE  RequestsFollow'
<1>1. CASE UNCHANGED <<sched, reqs, raced>>
  BY <1>1, QuietFollow DEF Write, AllHalf
<1>2. ASSUME sched' = Written(p), reqs' = SystemCancel(ToCancel(p)), raced' = raced \cup Touched(p)
      PROVE  RequestsFollow'
  <2>1. RequestsFollow /\ HalfInv(p) /\ HandlerOK(p) /\ proc[p].pc = "write" /\ today' = today
    BY DEF AllHalf, TypeInv, Write
  <2>2. ASSUME NEW r \in ReqIds, reqs'[r] # None
        PROVE  /\ reqs[r] # None
               /\ reqs'[r] = reqs[r] \/ reqs'[r] = [reqs[r] EXCEPT !.status = "cancelled", !.system = TRUE]
               /\ r \in ToCancel(p) => reqs'[r].status \notin ActiveStatuses
    <3>1. reqs[r] # None
      BY <1>2, <2>2 DEF SystemCancel, Present
    <3>2. reqs[r] \in ReqRow /\ r \in Present(reqs, None)
      BY <3>1 DEF TypeInv, TablesOK, Present
    <3> QED BY <1>2, <3>1, <3>2 DEF SystemCancel, ReqRow, ActiveStatuses, PendingStatuses
  <2>3. ASSUME NEW r \in ReqIds, reqs'[r] # None PROVE HalfDay(reqs'[r])
    <3>1. HalfDay(reqs[r]) /\ reqs[r] \in ReqRow
      BY <2>1, <2>2, <2>3 DEF RequestsFollow, TypeInv, TablesOK
    <3> QED BY <2>2, <2>3, <3>1 DEF HalfDay, ReqRow
  <2>4. ASSUME NEW r \in ReqIds, Coming(r)' PROVE \E id \in Ids : Follows(reqs'[r], sched'[id])
    <3>1. /\ reqs'[r] # None /\ reqs'[r].window # None /\ reqs'[r].status \in ActiveStatuses
          /\ reqs'[r].first > today /\ r \notin raced /\ r \notin Touched(p)
      BY <1>2, <2>1, <2>4 DEF Coming
    <3>2. reqs[r] # None /\ reqs'[r] = reqs[r] /\ r \notin ToCancel(p)
      BY <2>2, <3>1 DEF ReqRow, ActiveStatuses, PendingStatuses, TypeInv, TablesOK
    <3>3. Coming(r)
      BY <3>1, <3>2 DEF Coming
    <3>4. PICK id \in Ids : Follows(reqs[r], sched[id])
      BY <2>1, <3>3 DEF RequestsFollow
    <3>5. CASE sched'[id] = sched[id]
      BY <3>2, <3>4, <3>5
    <3>6. ASSUME sched'[id] # sched[id] PROVE \E i \in Ids : Follows(reqs'[r], sched'[i])
      <4>1. /\ sched[id] # None /\ sched[id] \in SchedRow /\ reqs[r] \in ReqRow
            /\ sched[id].emp = reqs[r].emp /\ sched[id].weekday = WeekdayOf(reqs[r].first)
        BY <3>2, <3>4 DEF Follows, TypeInv, TablesOK
      <4>2. reqs[r].portion # "full" /\ reqs[r].first = reqs[r].last /\ reqs[r].first \in Int
        BY <2>1, <3>1, <3>2, <4>1 DEF RequestsFollow, HalfDay, ReqRow
      <4>3. reqs[r].first \in Dates(reqs[r])
        BY <4>2 DEF Dates, DatesInRange
      <4>4. id \in Present(sched, None) /\ r \in Present(reqs, None)
        BY <3>2, <4>1 DEF Present, TypeInv, TablesOK
      <4>5. Foreseen(p)
        BY <1>2, <3>1, <3>6, <4>1, <4>3, <4>4 DEF Touched
      <4>6. /\ DOMAIN proc[p].patch # {} /\ id = proc[p].id
            /\ sched'[id] = Patched(sched[id], proc[p].patch)
        BY <1>2, <3>6, <4>1, WrittenRow
      <4>7. /\ proc[p].for = "change" /\ sched[id] = proc[p].live
            /\ proc[p].patch = Ending(proc[p].plan, proc[p].intent)
        BY <4>5, <4>6 DEF Foreseen
      <4>8. Cascading(p)
        BY <2>1, <4>7 DEF Cascading
      <4>9. PlanOK(p) /\ Covered(p) /\ InsertOK(p)
        BY <2>1, <4>8 DEF HalfInv
      <4>10. PICK live, intent : live = proc[p].live /\ intent = proc[p].intent
        OBVIOUS
      <4>11. /\ live \in SchedRow /\ live # None /\ IntentOK(intent)
             /\ intent.mode \in {"modify", "remove"} /\ live.emp = intent.emp
             /\ live.weekday = intent.weekday /\ Follows(reqs[r], live)
             /\ proc[p].plan = PlanVersioning(live, intent) /\ intent.from \in Int
        BY <3>4, <4>1, <4>7, <4>9, <4>10 DEF PlanOK, IntentOK
      <4>12. CASE reqs[r].first < intent.from
        <5>1. Follows(reqs[r], Patched(live, Ending(PlanVersioning(live, intent), intent)))
          BY <4>1, <4>11, <4>12, EndedFollows
        <5> QED BY <3>2, <4>6, <4>7, <4>10, <4>11, <5>1
      <4>13. CASE reqs[r].first >= intent.from
        <5>1. ~ LeaveAffected(reqs[r], live, intent)
          <6> SUFFICES ASSUME LeaveAffected(reqs[r], live, intent) PROVE FALSE
            OBVIOUS
          <6>1. reqs[r].emp = intent.emp
            BY <4>1, <4>7, <4>10, <4>11
          <6>2. \E key \in proc[p].impact : key[1] = r
            BY <3>3, <4>9, <4>10, <4>11, <6>1 DEF Covered
          <6>3. r \in ToCancel(p)
            BY <4>7, <6>2 DEF ToCancel
          <6> QED BY <3>2, <6>3
        <5>2. intent.mode = "modify" /\ Follows(reqs[r], Inserted(intent))
          BY <4>1, <4>2, <4>11, <4>13, <5>1, UnaffectedFollows
        <5>3. proc[p].insert = {Inserted(intent)}
          BY <4>9, <4>10, <5>2 DEF InsertOK
        <5>4. NextId(sched, None) # {}
          BY <5>3 DEF Write
        <5>5. sched[proc[p].id] # None
          BY <4>1, <4>6
        <5>6. \E i \in Ids : Written(p)[i] = Inserted(intent)
          BY <5>3, <5>4, <5>5, InsertedRow
        <5> QED BY <1>2, <3>2, <5>2, <5>6
      <4> QED BY <4>2, <4>11, <4>12, <4>13
    <3> QED BY <3>5, <3>6
  <2> QED BY <2>3, <2>4 DEF RequestsFollow
<1> QED BY <1>1, <1>2 DEF Write

\* The handlers that end: what is filed on a row that stands follows it, and a decision
\* moves no request to another day.
LEMMA HalfEnds ==
    ASSUME TypeInv, TypeInv', \A q \in Procs : CascadeInv(q), AllHalf, NEW p \in Procs,
           Write(p) \/ File(p) \/ SaveDecision(p) \/ Abort(p)
    PROVE  AllHalf'
<1>1. /\ DOMAIN proc = Procs /\ Finish(p) /\ today' = today /\ today \in Int /\ HalfInv(p)
      /\ reqs' \in [ReqIds -> ReqRow \cup {None}] /\ RequestsFollow /\ HandlerOK(p)
  BY ScheduleConstants DEF TypeInv, TablesOK, AllHalf, Write, File, SaveDecision, Abort, tables, Days
<1>2. HalfInv(p)' /\ \A q \in Procs \ {p} : proc'[q] = proc[q]
  BY <1>1, FinishHalf
<1>3. ASSUME raced \subseteq raced', RequestsFollow',
             \A q \in Procs \ {p}, r \in ReqIds :
               Cascading(q) /\ r \notin raced' /\ reqs'[r] # None /\ reqs'[r].emp = proc[q].intent.emp
               => reqs'[r] = reqs[r] \/ reqs'[r].status \notin ActiveStatuses
      PROVE  AllHalf'
  <2>1. ASSUME NEW q \in Procs \ {p} PROVE HalfInv(q)'
    BY <1>1, <1>2, <1>3, <2>1, OtherHalf DEF AllHalf
  <2> QED BY <1>2, <1>3, <2>1 DEF AllHalf
<1>4. CASE Abort(p)
  BY <1>1, <1>2, <1>4, QuietHalf DEF Abort, tables
<1>5. CASE Write(p)
  <2>1. raced \subseteq raced'
    BY <1>5 DEF Write
  <2>2. ASSUME NEW r \in ReqIds, reqs'[r] # None
        PROVE  reqs'[r] = reqs[r] \/ reqs'[r].status \notin ActiveStatuses
    <3>1. reqs' = reqs \/ reqs' = SystemCancel(ToCancel(p))
      BY <1>5 DEF Write
    <3>2. \/ reqs'[r] = reqs[r]
          \/ reqs[r] # None /\ reqs'[r] = [reqs[r] EXCEPT !.status = "cancelled", !.system = TRUE]
      BY <3>1 DEF SystemCancel, Present
    <3>3. reqs[r] # None => reqs[r] \in ReqRow
      BY DEF TypeInv, TablesOK
    <3> QED BY <3>2, <3>3 DEF ReqRow, ActiveStatuses, PendingStatuses
  <2> QED BY <1>3, <1>5, <2>1, <2>2, WriteFollows
<1>6. CASE File(p)
  <2>1. proc[p].pc = "file"
    BY <1>6 DEF File
  <2>2. PICK i \in NextId(reqs, None) :
          /\ reqs' = [reqs EXCEPT ![i] = proc[p].req]
          /\ raced' = IF Late(proc[p].req, proc[p].id, proc[p].live) THEN raced \cup {i} ELSE raced
    BY <1>6 DEF File
  <2>3. /\ i \in ReqIds /\ sched' = sched /\ raced \subseteq raced'
        /\ proc[p].req \in ReqRow /\ FilingOK(p) /\ reqs'[i] = proc[p].req
        /\ \A r \in ReqIds : r # i => reqs'[r] = reqs[r]
    BY <1>1, <1>6, <2>1, <2>2 DEF NextId, TypeInv, TablesOK, HandlerOK, HalfInv, File
  <2>4. i \notin raced' => ~ Late(proc[p].req, proc[p].id, proc[p].live)
    BY <2>2
  <2>5. ASSUME NEW r \in ReqIds
        PROVE  /\ reqs'[r] # None => HalfDay(reqs'[r])
               /\ Coming(r)' => \E id \in Ids : Follows(reqs'[r], sched'[id])
    <3>1. CASE r # i
      BY <1>1, <2>3, <3>1 DEF RequestsFollow, Coming
    <3>2. CASE r = i
      <4>1. HalfDay(reqs'[r])
        BY <2>3, <3>2 DEF FilingOK
      <4>2. ASSUME Coming(r)' PROVE Follows(reqs'[r], sched'[proc[p].id])
        <5>1. ~ Late(proc[p].req, proc[p].id, proc[p].live) /\ proc[p].req.window # None
          BY <2>3, <2>4, <3>2, <4>2 DEF Coming
        <5>2. PICK id, live : id = proc[p].id /\ live = proc[p].live
          OBVIOUS
        <5>3. /\ id \in Ids /\ id # None /\ live \in SchedRow /\ ~ live.deleted /\ live.to = None
              /\ live.emp = proc[p].req.emp /\ live.weekday = WeekdayOf(proc[p].req.first)
              /\ proc[p].req.window = HalfDayWindow(live.hours, proc[p].req.portion)
          BY <2>3, <5>1, <5>2 DEF FilingOK
        <5>4. sched[id] = live /\ ~ (proc[p].req.first < live.from)
          BY <5>1, <5>2, <5>3 DEF Late
        <5>5. live.from <= proc[p].req.first
          BY <2>3, <5>3, <5>4 DEF SchedRow, ReqRow
        <5>6. live # None
          BY <5>3, ScheduleInputs
        <5> QED BY <2>3, <3>2, <5>2, <5>3, <5>4, <5>5, <5>6 DEF Follows
      <4>3. Coming(r)' => proc[p].id \in Ids
        BY <2>3, <3>2 DEF Coming, FilingOK
      <4> QED BY <4>1, <4>2, <4>3
    <3> QED BY <3>1, <3>2
  <2>6. ASSUME NEW q \in Procs \ {p}, Cascading(q), reqs'[i].emp = proc[q].intent.emp PROVE i \in raced'
    <3>1. Changing(proc[p].req.emp)
      BY <2>3, <2>6 DEF Changing, Cascading, CascadeInv
    <3> QED BY <2>2, <3>1 DEF Late
  <2>7. RequestsFollow'
    BY <2>5 DEF RequestsFollow
  <2> QED BY <1>3, <2>3, <2>6, <2>7
<1>7. CASE SaveDecision(p)
  <2>1. proc[p].pc = "decide" /\ sched' = sched
    BY <1>7 DEF SaveDecision
  <2>2. PICK i \in ReqIds : i = proc[p].req /\ reqs[i] \in ReqRow
    BY <1>1, <2>1 DEF HandlerOK
  <2>3. /\ reqs' = [reqs EXCEPT ![i].status = proc[p].status] /\ raced \subseteq raced'
        /\ reqs[i].status # proc[p].read \/ Changing(reqs[i].emp) => i \in raced'
    BY <1>7, <2>2 DEF SaveDecision
  <2>4. /\ \A r \in ReqIds : r # i => reqs'[r] = reqs[r]
        /\ reqs'[i] = [reqs[i] EXCEPT !.status = proc[p].status]
    BY <2>2, <2>3 DEF TypeInv, TablesOK
  <2>5. /\ reqs'[i].status = proc[p].status /\ reqs'[i].window = reqs[i].window
        /\ reqs'[i].first = reqs[i].first /\ reqs'[i].last = reqs[i].last
        /\ reqs'[i].emp = reqs[i].emp /\ reqs'[i].kind = reqs[i].kind
        /\ reqs'[i].portion = reqs[i].portion /\ reqs[i] # None
    BY <2>2, <2>4, ScheduleInputs DEF ReqRow
  <2>6. proc[p].status \in NextStatuses(proc[p].read)
    BY <1>1, <2>1 DEF HalfInv
  <2>7. proc[p].read \in ActiveStatuses
    BY <2>6 DEF NextStatuses, ActiveStatuses, PendingStatuses
  <2>8. ASSUME NEW r \in ReqIds
        PROVE  /\ reqs'[r] # None => HalfDay(reqs'[r])
               /\ Coming(r)' => \E id \in Ids : Follows(reqs'[r], sched'[id])
    <3>1. CASE r # i
      BY <1>1, <2>1, <2>3, <2>4, <3>1 DEF RequestsFollow, Coming
    <3>2. CASE r = i
      <4>1. HalfDay(reqs'[r])
        BY <1>1, <2>5, <3>2 DEF RequestsFollow, HalfDay
      <4>2. ASSUME Coming(r)' PROVE \E id \in Ids : Follows(reqs'[r], sched'[id])
        <5>1. Coming(i)
          BY <1>1, <2>3, <2>5, <2>7, <3>2, <4>2 DEF Coming
        <5>2. PICK id \in Ids : Follows(reqs[i], sched[id])
          BY <1>1, <5>1 DEF RequestsFollow
        <5>3. Follows(reqs'[i], sched[id])
          BY <2>5, <5>2 DEF Follows
        <5> QED BY <2>1, <3>2, <5>3
      <4> QED BY <4>1, <4>2
    <3> QED BY <3>1, <3>2
  <2>9. ASSUME NEW q \in Procs \ {p}, Cascading(q), reqs'[i].emp = proc[q].intent.emp PROVE i \in raced'
    <3>1. Changing(reqs[i].emp)
      BY <2>5, <2>9 DEF Changing, Cascading, CascadeInv
    <3> QED BY <2>3, <3>1
  <2>10. RequestsFollow'
    BY <2>8 DEF RequestsFollow
  <2> QED BY <1>3, <2>3, <2>4, <2>9, <2>10
<1> QED BY <1>4, <1>5, <1>6, <1>7

\* Every step keeps coming half-day leave on its schedule.
LEMMA HalfStep ==
    TypeInv /\ (\A p \in Procs : CascadeInv(p)) /\ AllHalf /\ [Next]_vars => AllHalf'
<1> SUFFICES ASSUME TypeInv, \A p \in Procs : CascadeInv(p), AllHalf, [Next]_vars PROVE AllHalf'
  OBVIOUS
<1>1. TypeInv'
  BY TypeStep
<1>2. ASSUME NEW p \in Procs, Step(p) PROVE AllHalf'
  BY <1>1, <1>2, HalfReads, HalfWrites, HalfEnds DEF Step
<1>3. ASSUME NextDay \/ UNCHANGED vars PROVE AllHalf'
  <2>1. /\ UNCHANGED <<sched, reqs, proc, raced>> /\ today \in Int /\ today' \in Int /\ today <= today'
        /\ reqs' \in [ReqIds -> ReqRow \cup {None}]
    BY <1>1, <1>3, ScheduleConstants DEF NextDay, vars, TypeInv, TablesOK, Days
  <2>2. \A q \in Procs : HalfInv(q)'
    BY <2>1, OtherHalf DEF AllHalf
  <2>3. ASSUME NEW r \in ReqIds, Coming(r)' PROVE Coming(r)
    <3>1. reqs[r] \in ReqRow
      BY <2>1, <2>3 DEF Coming, TypeInv, TablesOK
    <3>2. reqs[r].first \in Int
      BY <3>1 DEF ReqRow
    <3> QED BY <2>1, <2>3, <3>2 DEF Coming
  <2>4. RequestsFollow'
    BY <2>1, <2>3 DEF RequestsFollow, AllHalf
  <2> QED BY <2>2, <2>4 DEF AllHalf
<1> QED BY <1>2, <1>3, HalfStart DEF Next

HalfDaysInv == CascadeInvariant /\ AllHalf

\* The inductive invariant of the cascade's purpose: requests follow their schedules,
\* and a change in flight holds every coming request that its plan affects.
THEOREM HalfDaysInvariant == Spec => []HalfDaysInv
<1>1. Init => AllHalf
  <2> SUFFICES ASSUME Init PROVE AllHalf
    OBVIOUS
  <2>1. \A p \in Procs : proc[p].pc = "idle"
    BY DEF Init, Idle
  <2>2. \A p \in Procs : HalfInv(p)
    BY <2>1 DEF HalfInv, Cascading
  <2> QED BY <2>2 DEF Init, AllHalf, RequestsFollow, Coming
<1>2. CascadeInvariant /\ AllHalf /\ [Next]_vars => AllHalf'
  BY HalfStep DEF CascadeInvariant
<1> QED BY <1>1, <1>2, CascadeHolds, PTL DEF Spec, HalfDaysInv

\* The point of the cascade: however changes, edits, filings and decisions interleave, a
\* coming half-day leave is cut from the hours of the row that governs its day, unless
\* it raced a change or its weekday was written without a cascade of its own.
THEOREM HalfDaysFollow == Spec => []HalfDaysFollowSchedule
<1>1. HalfDaysInv => HalfDaysFollowSchedule
  <2> SUFFICES ASSUME HalfDaysInv, NEW r \in ReqIds \ raced, Coming(r)
               PROVE  \E id \in Ids : /\ Governs(id, reqs[r])
                                      /\ reqs[r].window = HalfDayWindow(sched[id].hours, reqs[r].portion)
    BY DEF HalfDaysFollowSchedule, Coming
  <2>1. PICK id \in Ids : Follows(reqs[r], sched[id])
    BY DEF HalfDaysInv, AllHalf, RequestsFollow
  <2> QED BY <2>1 DEF Follows, Governs, Standing
<1> QED BY <1>1, HalfDaysInvariant, PTL
=============================================================================
