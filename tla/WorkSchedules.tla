---------------------------- MODULE WorkSchedules ----------------------------
(***************************************************************************)
(* Weekly schedules as HR creates, edits, ends and changes them, with the  *)
(* cascade of a change: the requests it invalidates are cancelled in the   *)
(* transaction that versions the row.                                      *)
(*                                                                         *)
(* A handler in flight is a process p.  A change is previewed, its client  *)
(* sends the preview back, and apply reads everything again, statement by  *)
(* statement at READ COMMITTED; what its transaction writes appears at the *)
(* commit, which also meets the constraints of the table.                  *)
(*                                                                         *)
(* Leave and correction requests are modules of their own; here a request  *)
(* is what the cascade reads of it, filed, decided and withdrawn by        *)
(* handlers of theirs.  Left out: who calls, and HR edits of leave.        *)
(***************************************************************************)
EXTENDS CascadePolicy, FiniteSets, Rows

CONSTANTS
    Procs,        \* handlers that may be in flight at once
    Employees,
    Remover,      \* whether the callers hold SCHEDULE:Delete
    HoursSet,     \* the hours of schedules
    SeedHours,    \* the hours of the seeded schedule
    NewRows,      \* the [weekday, hours, from, to] HR creates
    Patches,      \* the patches HR edits a row with
    Changes,      \* the [weekday, from, mode, hours] of changes
    Spans,        \* the [first, last, portion] of leave
    FirstDay, MaxDay,   \* bounds on the calendar
    MaxRows, MaxReqs,   \* bounds on the tables
    MaxCalls            \* bound on the number of handlers that ever start

Days     == FirstDay..MaxDay
Weekdays == 0..WeekDays - 1
Ids      == 1..MaxRows
ReqIds   == 1..MaxReqs

ASSUME ScheduleConstants ==
    /\ FirstDay \in Nat /\ MaxDay \in Nat /\ FirstDay <= MaxDay
    /\ MaxRows \in Nat /\ MaxReqs \in Nat /\ MaxCalls \in Nat
    /\ Remover \subseteq BOOLEAN /\ SeedHours \in HoursSet

VARIABLES
    sched,    \* work_schedules: the row of each id, or None
    reqs,     \* leave and correction requests
    today,    \* businessDateString()
    proc,     \* handlers in flight
    calls,    \* handlers started so far
    raced     \* history: requests that a schedule write raced with or passed over

vars == <<sched, reqs, today, proc, calls, raced>>
tables == <<sched, reqs, today, raced>>
-----------------------------------------------------------------------------
SchedRow == [emp : Employees, weekday : Weekdays, hours : HoursSet,
             from : Int, to : Int \cup {None}, deleted : BOOLEAN]
ReqRow   == [kind : {"leave", "correction"}, emp : Employees, first : Int, last : Int,
             portion : Portions, window : (Int \X Int) \cup {None}, status : Statuses,
             system : BOOLEAN]

\* A patch of columns of work_schedules.
SchedPatch(patch) ==
    /\ DOMAIN patch \subseteq {"emp", "weekday", "hours", "from", "to", "deleted"}
    /\ "emp" \in DOMAIN patch => patch.emp \in Employees
    /\ "weekday" \in DOMAIN patch => patch.weekday \in Weekdays
    /\ "hours" \in DOMAIN patch => patch.hours \in HoursSet
    /\ "from" \in DOMAIN patch => patch.from \in Int
    /\ "to" \in DOMAIN patch => patch.to \in Int \cup {None}
    /\ "deleted" \in DOMAIN patch => patch.deleted \in BOOLEAN

ASSUME ScheduleInputs ==
    /\ HoursSet \subseteq [in : Int, out : Int, len : Int, brk : Int \cup {None}]
    /\ NewRows \subseteq [weekday : Weekdays, hours : HoursSet, from : Int, to : Int \cup {None}]
    /\ \A patch \in Patches : SchedPatch(patch)
    /\ \A c \in Changes : /\ c.weekday \in Weekdays /\ c.from \in Int
                          /\ c.mode \in {"modify", "remove"}
                          /\ c.mode = "modify" => c.hours \in HoursSet
    /\ Spans \subseteq [first : Int, last : Int, portion : Portions]
    /\ None \notin SchedRow /\ None \notin ReqRow

Standing(id) == sched[id] # None /\ ~ sched[id].deleted
FindActiveForEmployee(e) ==
    {id \in Ids : Standing(id) /\ sched[id].emp = e /\ sched[id].to = None}
FindActiveForEmployeeDay(e, w) == {id \in FindActiveForEmployee(e) : sched[id].weekday = w}

\* findOne: any row that matches, or none.
LiveIds(e, w) ==
    IF FindActiveForEmployeeDay(e, w) = {} THEN {None} ELSE FindActiveForEmployeeDay(e, w)
LiveRow(id) == IF id = None THEN None ELSE sched[id]

\* The CHECKs and the partial unique index of work_schedules.
Storable_NoIndex(table) ==                                                 \* mutant
    \A id \in Present(table, None) :
        ValidHours(table[id].hours) /\ (table[id].to # None => table[id].to >= table[id].from)
Storable_NoRange(table) ==                                                 \* mutant
    LET active == {id \in Present(table, None) : ~ table[id].deleted /\ table[id].to = None} IN
    \A i, j \in active :
        table[i].emp = table[j].emp /\ table[i].weekday = table[j].weekday => i = j
Storable(table) ==
    LET ids    == Present(table, None)
        active == {id \in ids : ~ table[id].deleted /\ table[id].to = None}
    IN /\ \A id \in ids : ValidHours(table[id].hours)
       /\ \A id \in ids : table[id].to # None => table[id].to >= table[id].from
       /\ \A i, j \in active :
            table[i].emp = table[j].emp /\ table[i].weekday = table[j].weekday => i = j

Idle       == [pc |-> "idle"]
Goto(p, r) == proc' = [proc EXCEPT ![p] = r]
Finish(p)  == Goto(p, Idle)
Set(p, r)  == Goto(p, [c \in DOMAIN proc[p] \cup DOMAIN r |->
                         IF c \in DOMAIN r THEN r[c] ELSE proc[p][c]])

NewRow(e, w, hours, from, to) ==
    [emp |-> e, weekday |-> w, hours |-> hours, from |-> from, to |-> to, deleted |-> FALSE]
-----------------------------------------------------------------------------
(***************************************************************************)
(* WorkSchedulesService                                                    *)
(***************************************************************************)
\* create: the check is a courtesy, the index decides.
Create(p, e, w, hours, from, to) ==
    /\ proc[p] = Idle
    /\ ValidHours(hours)
    /\ to = None => FindActiveForEmployeeDay(e, w) = {}
    /\ Goto(p, [pc |-> "write", for |-> "create", patch |-> [c \in {} |-> None],
                insert |-> {NewRow(e, w, hours, from, to)}])
    /\ UNCHANGED tables

Edit(p, id, patch) ==
    Goto(p, [pc |-> "load", for |-> "edit", id |-> id, patch |-> patch, insert |-> {}])

\* update: no rule but the hours, and no cascade.
Update(p, id, patch) ==
    /\ proc[p] = Idle
    /\ Standing(id)
    /\ ValidHours(Patched(sched[id], patch).hours)
    /\ Edit(p, id, patch)
    /\ UNCHANGED tables

\* endLogically: the route ends the row on the UTC date, which the business date may
\* be one ahead of.
UtcDates == {DayBefore(today), today}
EndLogically(p, id) ==
    /\ proc[p] = Idle
    /\ Standing(id) /\ sched[id].to = None
    /\ \E utc \in UtcDates : Edit(p, id, [to |-> utc])
    /\ UNCHANGED tables
-----------------------------------------------------------------------------
(***************************************************************************)
(* ScheduleChangeService                                                   *)
(***************************************************************************)
\* validate: forward only; a removal needs SCHEDULE:Delete.
MayChange(intent, remover) ==
    /\ intent.from >= today
    /\ intent.mode = "modify" => ValidHours(intent.hours)
    /\ intent.mode = "remove" => remover

Candidates(kind, intent) ==
    {r \in ReqIds : /\ reqs[r] # None
                    /\ reqs[r].kind = kind /\ reqs[r].emp = intent.emp
                    /\ reqs[r].status \in ActiveStatuses
                    /\ reqs[r].last >= intent.from}

\* What a request is to the drift guard: its id and its status.
Keys(rs) == {<<r, reqs[r].status>> : r \in rs}
Cancelled(kind, live, intent, day) ==
    IF live = None THEN {}
    ELSE Keys({r \in Candidates(kind, intent) : Cancels(reqs[r], live, intent, day)})

\* preview writes nothing: its reads are one step.
Preview(p, intent, remover) ==
    /\ proc[p] = Idle
    /\ MayChange(intent, remover)
    /\ \E id \in LiveIds(intent.emp, intent.weekday) :
        LET live == LiveRow(id) IN
        /\ PlanVersioning(live, intent) # "noop"
        /\ Goto(p, [pc |-> "previewed", intent |-> intent, remover |-> remover,
                    previewed |-> Cancelled("leave", live, intent, today)
                                  \cup Cancelled("correction", live, intent, today)])
    /\ UNCHANGED tables

\* apply, in its transaction: the live row, ...
Apply(p) ==
    /\ proc[p].pc = "previewed"
    /\ MayChange(proc[p].intent, proc[p].remover)
    /\ LET intent == proc[p].intent IN
       \E id \in LiveIds(intent.emp, intent.weekday) :
        LET live == LiveRow(id)
            plan == PlanVersioning(live, intent)
        IN IF plan = "noop" THEN Finish(p)
           ELSE Set(p, [pc |-> "read_leaves", live |-> live, plan |-> plan, day |-> today])
    /\ UNCHANGED tables

\* ... the leave candidates, ...
ReadLeaves(p) ==
    /\ proc[p].pc = "read_leaves"
    /\ Set(p, [pc |-> "read_corrections",
               impact |-> Cancelled("leave", proc[p].live, proc[p].intent, proc[p].day)])
    /\ UNCHANGED tables

\* ... the correction candidates, and the drift guard over both.
NoDrift_Unchecked(impact, previewed) == TRUE                               \* mutant
NoDrift(impact, previewed) == impact = previewed
ReadCorrections(p) ==
    /\ proc[p].pc = "read_corrections"
    /\ LET impact == proc[p].impact
                     \cup Cancelled("correction", proc[p].live, proc[p].intent, proc[p].day)
       IN IF NoDrift(impact, proc[p].previewed)
          THEN Set(p, [pc |-> "version", impact |-> impact])
          ELSE Finish(p)
    /\ UNCHANGED tables

\* applyVersioning: the live row is read once more, and may be another one by now.
Inserted(intent) == NewRow(intent.emp, intent.weekday, intent.hours, intent.from, None)
Ending(plan, intent) ==
    IF plan \in {"replace", "delete_only"} THEN [deleted |-> TRUE]
    ELSE [to |-> DayBefore(intent.from)]
Version(p) ==
    /\ proc[p].pc = "version"
    /\ LET intent == proc[p].intent
           plan   == proc[p].plan
           insert == IF intent.mode = "modify" THEN {Inserted(intent)} ELSE {}
           patch  == Ending(plan, intent)
       IN IF plan = "create"
          THEN Set(p, [pc |-> "write", for |-> "change", insert |-> insert,
                       patch |-> [c \in {} |-> None]])
          ELSE \E id \in LiveIds(intent.emp, intent.weekday) :
                 IF id = None THEN Finish(p)
                 ELSE Set(p, [pc |-> "load", for |-> "change", id |-> id, insert |-> insert,
                              patch |-> patch])
    /\ UNCHANGED tables
-----------------------------------------------------------------------------
(***************************************************************************)
(* repository.update, softDelete and create                                *)
(***************************************************************************)
Load(p) ==
    /\ proc[p].pc = "load"
    /\ IF Standing(proc[p].id)
       THEN Set(p, [pc |-> "diff", patch |-> Patched(sched[proc[p].id], proc[p].patch)])
       ELSE Finish(p)
    /\ UNCHANGED tables

Diff(p) ==
    /\ proc[p].pc = "diff"
    /\ Set(p, [pc |-> "write", patch |-> Delta(proc[p].patch, sched[proc[p].id])])
    /\ UNCHANGED tables

\* The table with the patch and the new row.
Written(p) ==
    [id \in Ids |->
        CASE DOMAIN proc[p].patch # {} /\ id = proc[p].id -> Patched(sched[id], proc[p].patch)
          [] id \in NextId(sched, None) /\ proc[p].insert # {} ->
                CHOOSE row \in proc[p].insert : TRUE
          [] OTHER -> sched[id]]

\* systemCancel, for leave and corrections: rows that are still active.
SystemCancel(rs) ==
    [r \in ReqIds |-> IF r \in rs \cap Present(reqs, None) /\ reqs[r].status \in ActiveStatuses
                      THEN [reqs[r] EXCEPT !.status = "cancelled", !.system = TRUE]
                      ELSE reqs[r]]
ToCancel(p) == IF proc[p].for = "change" THEN {key[1] : key \in proc[p].impact} ELSE {}

\* A change that ends the very row its cascade was computed from, and no other column.
Foreseen(p) ==
    /\ proc[p].for = "change"
    /\ DOMAIN proc[p].patch # {} =>
        /\ sched[proc[p].id] = proc[p].live
        /\ proc[p].patch = Ending(proc[p].plan, proc[p].intent)

\* Requests whose dates fall on the weekday of a stored row that is written without a
\* cascade of its own: by HR, or by a change that meets another row than it read.
Touched(p) ==
    {r \in Present(reqs, None) : \E id \in Present(sched, None) :
        /\ ~ Foreseen(p) /\ Written(p)[id] # sched[id]
        /\ \E row \in {sched[id], Written(p)[id]} :
            /\ row.emp = reqs[r].emp
            /\ \E d \in Dates(reqs[r]) : WeekdayOf(d) = row.weekday}

\* The statement, or the transaction, goes through or leaves nothing.
Write(p) ==
    /\ proc[p].pc = "write"
    /\ proc[p].insert # {} => NextId(sched, None) # {}            \* bound
    /\ IF Storable(Written(p))
       THEN /\ sched' = Written(p)
            /\ reqs' = SystemCancel(ToCancel(p))
            /\ raced' = raced \cup Touched(p)
       ELSE UNCHANGED <<sched, reqs, raced>>
    /\ Finish(p)
    /\ UNCHANGED today

\* The client gives up, a query fails or the server stops.
Abort(p) ==
    /\ proc[p] # Idle
    /\ Finish(p)
    /\ UNCHANGED tables
-----------------------------------------------------------------------------
(***************************************************************************)
(* Handlers of the requests                                                *)
(***************************************************************************)
\* A change that has read its candidates and not committed.
Changing(e) == \E p \in Procs :
    proc[p].pc \in {"read_corrections", "version", "load", "diff", "write"}
    /\ "impact" \in DOMAIN proc[p] /\ proc[p].intent.emp = e

\* assertSubmittableRange: the boundaries are working days of the active schedule,
\* whatever day its rows start on.
SubmitLeave(p, e, s) ==
    /\ proc[p] = Idle
    /\ s.first <= s.last /\ s.first >= today
    /\ s.portion # "full" => s.first = s.last
    /\ FindActiveForEmployeeDay(e, WeekdayOf(s.last)) # {}
    /\ \E id \in FindActiveForEmployeeDay(e, WeekdayOf(s.first)) :
        Goto(p, [pc |-> "file", id |-> id, live |-> sched[id],
                 req |-> [kind |-> "leave", emp |-> e, first |-> s.first, last |-> s.last,
                          portion |-> s.portion, status |-> "pending_l1", system |-> FALSE,
                          window |-> HalfDayWindow(sched[id].hours, s.portion)]])
    /\ UNCHANGED tables

\* A correction of a day that has come.
SubmitCorrection(p, e, d) ==
    /\ proc[p] = Idle
    /\ d <= today
    /\ Goto(p, [pc |-> "file", id |-> None, live |-> None,
                req |-> [kind |-> "correction", emp |-> e, first |-> d, last |-> d,
                         portion |-> "full", status |-> "pending_l1", system |-> FALSE,
                         window |-> None]])
    /\ UNCHANGED tables

\* Filed on a schedule that has been written since, or that starts later.
Late(req, id, live) ==
    \/ Changing(req.emp)
    \/ id # None /\ (req.first < live.from \/ live # sched[id])
File(p) ==
    /\ proc[p].pc = "file"
    /\ \E r \in NextId(reqs, None) :
        /\ reqs' = [reqs EXCEPT ![r] = proc[p].req]
        /\ raced' = IF Late(proc[p].req, proc[p].id, proc[p].live) THEN raced \cup {r} ELSE raced
    /\ Finish(p)
    /\ UNCHANGED <<sched, today>>

\* An approval of either step, a rejection or a withdrawal, saved over the row.
NextStatuses(status) ==
    CASE status = "pending_l1" -> {"pending_l2", "approved", "rejected", "cancelled"}
      [] status = "pending_l2" -> {"approved", "rejected", "cancelled"}
      [] status = "approved"   -> {"cancelled"}
      [] OTHER                 -> {}
Decide(p, r) ==
    /\ proc[p] = Idle
    /\ reqs[r] # None
    /\ \E s \in NextStatuses(reqs[r].status) :
        Goto(p, [pc |-> "decide", req |-> r, read |-> reqs[r].status, status |-> s])
    /\ UNCHANGED tables
SaveDecision(p) ==
    /\ proc[p].pc = "decide"
    /\ LET r == proc[p].req IN
        /\ reqs' = [reqs EXCEPT ![r].status = proc[p].status]
        /\ raced' = IF reqs[r].status # proc[p].read \/ Changing(reqs[r].emp)
                    THEN raced \cup {r} ELSE raced
    /\ Finish(p)
    /\ UNCHANGED <<sched, today>>

NextDay ==
    /\ today < MaxDay                                        \* bound
    /\ today' = today + 1
    /\ UNCHANGED <<sched, reqs, proc, calls, raced>>
-----------------------------------------------------------------------------
\* The seed: one active row for every employee and working day.
Init ==
    /\ \E f \in [Employees \X Weekdays -> 1..Cardinality(Employees \X Weekdays)] :
        /\ \A x, y \in DOMAIN f : f[x] = f[y] => x = y
        /\ sched = [id \in Ids |->
                      IF \E x \in DOMAIN f : f[x] = id
                      THEN LET x == CHOOSE y \in DOMAIN f : f[y] = id
                           IN NewRow(x[1], x[2], SeedHours, FirstDay, None)
                      ELSE None]
    /\ reqs = [r \in ReqIds |-> None]
    /\ today = FirstDay
    /\ proc = [p \in Procs |-> Idle]
    /\ calls = 0 /\ raced = {}

\* ScheduleChangeIntent: what a change asks for one employee.
Intent(e, c) == [emp |-> e, weekday |-> c.weekday, from |-> c.from, mode |-> c.mode, hours |-> c.hours]

AdminWorkSchedules(p) ==
    \/ \E e \in Employees, n \in NewRows : Create(p, e, n.weekday, n.hours, n.from, n.to)
    \/ \E id \in Ids : (\E patch \in Patches : Update(p, id, patch)) \/ EndLogically(p, id)

AdminScheduleChanges(p) ==
    \E e \in Employees, c \in Changes, remover \in Remover : Preview(p, Intent(e, c), remover)

Requests(p) ==
    \/ \E e \in Employees :
         (\E s \in Spans : SubmitLeave(p, e, s)) \/ (\E d \in Days : SubmitCorrection(p, e, d))
    \/ \E r \in ReqIds : Decide(p, r)

Start(p) ==
    /\ calls < MaxCalls                                      \* bound
    /\ calls' = calls + 1
    /\ AdminWorkSchedules(p) \/ AdminScheduleChanges(p) \/ Requests(p)

Step(p) ==
    \/ Apply(p) \/ ReadLeaves(p) \/ ReadCorrections(p) \/ Version(p)
    \/ Load(p) \/ Diff(p) \/ Write(p) \/ File(p) \/ SaveDecision(p) \/ Abort(p)

Next ==
    \/ \E p \in Procs : Start(p)
    \/ \E p \in Procs : Step(p) /\ UNCHANGED calls
    \/ NextDay

Spec == Init /\ [][Next]_vars
-----------------------------------------------------------------------------
\* Every variable has its type, and every stored row has hours that make sense.
TypeOK ==
    /\ sched \in [Ids -> SchedRow \cup {None}]
    /\ reqs \in [ReqIds -> ReqRow \cup {None}]
    /\ today \in Days /\ calls \in 0..MaxCalls /\ raced \subseteq ReqIds
    /\ \A id \in Present(sched, None) : sched[id].to # None => sched[id].to >= sched[id].from

\* Whatever creations, edits and changes race, a weekday has one active row.
OneActivePerDay ==
    \A e \in Employees, w \in Weekdays : Cardinality(FindActiveForEmployeeDay(e, w)) <= 1

\* The point of the cascade: after a change, a coming half-day leave is still cut from
\* the hours that govern its day, unless it raced the change or the schedule was edited
\* without a cascade.
Governs(id, req) ==
    /\ Standing(id) /\ sched[id].emp = req.emp /\ sched[id].weekday = WeekdayOf(req.first)
    /\ sched[id].from <= req.first /\ (sched[id].to # None => req.first <= sched[id].to)
HalfDaysFollowSchedule ==
    \A r \in ReqIds \ raced :
        /\ reqs[r] # None /\ reqs[r].window # None
        /\ reqs[r].status \in ActiveStatuses /\ reqs[r].first > today
        => \E id \in Ids : Governs(id, reqs[r])
                           /\ reqs[r].window = HalfDayWindow(sched[id].hours, reqs[r].portion)

\* A change cancels nothing its caller was not shown.
CancelsOnlyPreviewed ==
    [][\A r \in ReqIds :
        reqs[r] # None /\ reqs'[r].system /\ ~ reqs[r].system
        => \E p \in Procs : proc[p].pc = "write" /\ proc'[p] = Idle
                            /\ \E s \in Statuses : <<r, s>> \in proc[p].previewed]_vars

\* A change never cancels an approved leave that has begun, unless it was approved
\* while the change was running.
ApprovedUnderwayKept ==
    [][\A r \in ReqIds \ raced :
        reqs[r] # None /\ reqs'[r].system /\ ~ reqs[r].system /\ reqs[r].status = "approved"
        => \E p \in Procs : proc[p].pc = "write" /\ reqs[r].first > proc[p].day]_vars
=============================================================================
