---------------------------- MODULE TimeEntries ----------------------------
(***************************************************************************)
(* The timesheet: self-service punches, the entries HR creates, edits and  *)
(* deletes, and the write of an approved correction.                       *)
(*                                                                         *)
(* A handler in flight is a process p; proc[p] is what it has read and     *)
(* means to do next, one state per await.  Nothing runs in a transaction.  *)
(* A handler that writes an entry on behalf of another component carries   *)
(* in proc[p].after the state it goes on to once the entry is stored.      *)
(*                                                                         *)
(* Left out: source, notes and the columns that record who acted, the      *)
(* events, and the retry hint of the cooldown.  Time is a clock of ticks,  *)
(* each within one UTC day.                                                *)
(***************************************************************************)
EXTENDS Integers, Rows

CONSTANTS
    Procs,           \* handlers that may be in flight at once
    Employees, Users,
    Can,             \* the users who hold each permission
    SysAdmins,       \* users with system_admin
    Cooldown,        \* PUNCH_COOLDOWN_MINUTES, in ticks
    TicksPerDay,
    LastNow,         \* bound on the clock
    HRWindows,       \* the [date, in, out] HR enters
    HREdits,         \* the patches HR edits an entry with
    OldEntries,      \* the entries an employee may have at first
    MaxEntries,      \* bound on the number of entries
    None             \* SQL null, an absent row, no patch

Ticks    == 1..LastNow
EntryIds == 1..MaxEntries
DayOf(t) == 1 + (t - 1) \div TicksPerDay                    \* utcDateString
WorkDates == {DayOf(t) : t \in Ticks}

ASSUME EntryConstants ==
    /\ Employees \subseteq Users /\ SysAdmins \subseteq Users
    /\ Cooldown \in Nat /\ TicksPerDay \in Nat \ {0} /\ LastNow \in Nat \ {0}
    /\ MaxEntries \in Nat /\ None \notin Int

VARIABLES
    entry,    \* time_entries: the row of each id, or None
    now,      \* the server clock
    active,   \* users with is_active
    proc,     \* handlers in flight
    raced     \* history: entries that two handlers were saving at once

entryVars == <<entry, raced>>
-----------------------------------------------------------------------------
EntryRow == [emp : Employees, date : WorkDates, in : Ticks, out : Ticks \cup {None},
             status : {"open", "confirmed"}, deleted : BOOLEAN]

\* A patch of columns of time_entries; HR edits neither the employee nor the status.
EntryPatch(patch) ==
    /\ DOMAIN patch \subseteq {"emp", "date", "in", "out", "status", "deleted"}
    /\ "emp" \in DOMAIN patch => patch.emp \in Employees
    /\ "date" \in DOMAIN patch => patch.date \in WorkDates
    /\ "in" \in DOMAIN patch => patch.in \in Ticks
    /\ "out" \in DOMAIN patch => patch.out \in Ticks \cup {None}
    /\ "status" \in DOMAIN patch => patch.status \in {"open", "confirmed"}
    /\ "deleted" \in DOMAIN patch => patch.deleted \in BOOLEAN

Exists(id)     == entry[id] # None
NotDeleted(id) == Exists(id) /\ ~ entry[id].deleted

\* TimeWindow: an out is strictly after the in.
ValidWindow(in, out) == out # None => out > in
DeriveStatus(out)    == IF out = None THEN "open" ELSE "confirmed"

ASSUME EntryInputs ==
    /\ HRWindows \subseteq [date : WorkDates, in : Ticks, out : Ticks \cup {None}]
    /\ \A patch \in HREdits : EntryPatch(patch) /\ DOMAIN patch \subseteq {"date", "in", "out"}
    /\ OldEntries \subseteq EntryRow /\ None \notin EntryRow
    /\ \A row \in OldEntries : ValidWindow(row.in, row.out) /\ row.status = DeriveStatus(row.out)

FindOpen(e) == {id \in EntryIds : NotDeleted(id) /\ entry[id].emp = e /\ entry[id].status = "open"}

\* COALESCE(time_out, time_in), and the rows where it is the latest.
LastEvent(id) == IF entry[id].out = None THEN entry[id].in ELSE entry[id].out
FindLatest(e) ==
    LET mine == {id \in EntryIds : NotDeleted(id) /\ entry[id].emp = e} IN
    {id \in mine : \A j \in mine : LastEvent(j) <= LastEvent(id)}

ExistsForEmployeeDate(e, d) ==
    \E id \in EntryIds : NotDeleted(id) /\ entry[id].emp = e /\ entry[id].date = d

\* What the table accepts as row id: the CHECK of the window and the partial
\* unique index on open entries.
Storable_NoIndex(id, row) == ValidWindow(row.in, row.out)                  \* mutant
Storable_NoCheck(id, row) ==                                               \* mutant
    row.status = "open" /\ ~ row.deleted => FindOpen(row.emp) \subseteq {id}
Storable(id, row) ==
    /\ ValidWindow(row.in, row.out)
    /\ row.status = "open" /\ ~ row.deleted => FindOpen(row.emp) \subseteq {id}

\* JwtAuthGuard and PermissionsGuard: the caller is active and holds the code.
MayCall(u, code) == u \in active /\ u \in SysAdmins \cup Can[code]

Idle       == [pc |-> "idle"]
Goto(p, r) == proc' = [proc EXCEPT ![p] = r]
Finish(p)  == Goto(p, Idle)
-----------------------------------------------------------------------------
\* The process will save the patch over row id.
SaveEntry(p, id, patch, after) ==
    Goto(p, [pc |-> "entry_load", id |-> id, patch |-> patch, after |-> after])
InsertEntry(p, row, after) == Goto(p, [pc |-> "entry_insert", row |-> row, after |-> after])

NewEntry(e, date, in, out) ==
    [emp |-> e, date |-> date, in |-> in, out |-> out, status |-> DeriveStatus(out), deleted |-> FALSE]

\* punch: assertNotInCooldown.
InCooldown(e) == \E id \in FindLatest(e) : now - LastEvent(id) < Cooldown
Punch(p, e) ==
    /\ proc[p] = Idle /\ e \in active
    /\ ~ InCooldown(e)
    /\ Goto(p, [pc |-> "punch", emp |-> e])
    /\ UNCHANGED <<entryVars, now, active>>

\* punch: findOpenForEmployee, then close the entry or open one.
PunchToggle(p) ==
    /\ proc[p].pc = "punch"
    /\ LET e == proc[p].emp IN
        \/ \E id \in FindOpen(e) :
            IF ValidWindow(entry[id].in, now)
            THEN SaveEntry(p, id, [out |-> now, status |-> DeriveStatus(now)], Idle)
            ELSE Finish(p)
        \/ FindOpen(e) = {} /\ InsertEntry(p, NewEntry(e, DayOf(now), now, None), Idle)
    /\ UNCHANGED <<entryVars, now, active>>

\* create: an open entry is refused while another is open.
CreateEntry(p, u, e, w) ==
    /\ proc[p] = Idle /\ MayCall(u, "TIME:Create")
    /\ w.out = None => FindOpen(e) = {}
    /\ ValidWindow(w.in, w.out)
    /\ InsertEntry(p, NewEntry(e, w.date, w.in, w.out), Idle)
    /\ UNCHANGED <<entryVars, now, active>>

\* update: the patch is laid over the row that was read, and the status of the
\* result is saved with it.
DerivedFrom_Coalesced(row, patch) ==                                       \* mutant
    DeriveStatus(IF "out" \in DOMAIN patch /\ patch.out # None THEN patch.out ELSE row.out)
DerivedFrom(row, patch) == DeriveStatus(Patched(row, patch).out)
UpdateEntry(p, u, id, patch) ==
    /\ proc[p] = Idle /\ MayCall(u, "TIME:Update")
    /\ NotDeleted(id)
    /\ ValidWindow(Patched(entry[id], patch).in, Patched(entry[id], patch).out)
    /\ SaveEntry(p, id,
                 [c \in DOMAIN patch \cup {"status"} |->
                    IF c = "status" THEN DerivedFrom(entry[id], patch) ELSE patch[c]], Idle)
    /\ UNCHANGED <<entryVars, now, active>>

DeleteEntry(p, u, id) ==
    /\ proc[p] = Idle /\ MayCall(u, "TIME:Delete")
    /\ NotDeleted(id)
    /\ Goto(p, [pc |-> "entry_delete", id |-> id])
    /\ UNCHANGED <<entryVars, now, active>>

\* softDelete: findOneOrFail, deleted_by, then deleted_at.
SoftDeleteEntry(p) ==
    /\ proc[p].pc = "entry_delete"
    /\ entry' = [entry EXCEPT ![proc[p].id].deleted = TRUE]
    /\ Finish(p)
    /\ UNCHANGED <<raced, now, active>>
-----------------------------------------------------------------------------
(***************************************************************************)
(* applyCorrection.  fix is what the request proposes; target None is a    *)
(* new log.                                                                *)
(***************************************************************************)
ApplyCorrection(p, fix, after) == Goto(p, [pc |-> "apply", fix |-> fix, after |-> after])

Corrected(fix) == [date |-> fix.date, in |-> fix.in, out |-> fix.out, status |-> DeriveStatus(fix.out)]

WriteCorrection(p, fix, after) ==
    IF fix.target # None
    THEN SaveEntry(p, fix.target, Corrected(fix), after)
    ELSE InsertEntry(p, NewEntry(fix.emp, fix.date, fix.in, fix.out), after)

\* The target still stands, or the day of a new log is still free.
ApplyFind(p) ==
    /\ proc[p].pc = "apply"
    /\ LET fix   == proc[p].fix
           found == IF fix.target # None
                    THEN NotDeleted(fix.target)
                    ELSE ~ ExistsForEmployeeDate(fix.emp, fix.date)
       IN IF ~ (found /\ ValidWindow(fix.in, fix.out)) THEN Finish(p)
          ELSE IF fix.out = None
               THEN Goto(p, [pc |-> "apply_open", fix |-> fix, after |-> proc[p].after])
               ELSE WriteCorrection(p, fix, proc[p].after)
    /\ UNCHANGED <<entryVars, now, active>>

\* assertNoOtherOpenEntry.
ApplyOpen(p) ==
    /\ proc[p].pc = "apply_open"
    /\ LET fix == proc[p].fix IN
        IF FindOpen(fix.emp) \subseteq {fix.target}
        THEN WriteCorrection(p, fix, proc[p].after)
        ELSE Finish(p)
    /\ UNCHANGED <<entryVars, now, active>>
-----------------------------------------------------------------------------
(***************************************************************************)
(* The repository                                                          *)
(***************************************************************************)
EntryInsert(p) ==
    /\ proc[p].pc = "entry_insert"
    /\ \E id \in NextId(entry, None) :
        IF Storable(id, proc[p].row)
        THEN entry' = [entry EXCEPT ![id] = proc[p].row] /\ Goto(p, proc[p].after)
        ELSE UNCHANGED entry /\ Finish(p)
    /\ UNCHANGED <<raced, now, active>>

\* findOneOrFail does not find a deleted row.
EntryLoad(p) ==
    /\ proc[p].pc = "entry_load"
    /\ LET id == proc[p].id IN
        IF NotDeleted(id)
        THEN Goto(p, [pc |-> "entry_diff", id |-> id,
                      row |-> Patched(entry[id], proc[p].patch), after |-> proc[p].after])
        ELSE Finish(p)
    /\ UNCHANGED <<entryVars, now, active>>

EntryDiff(p) ==
    /\ proc[p].pc = "entry_diff"
    /\ LET patch == Delta(proc[p].row, entry[proc[p].id]) IN
        Goto(p, [pc |-> "entry_write", id |-> proc[p].id, patch |-> patch, after |-> proc[p].after])
    /\ UNCHANGED <<entryVars, now, active>>

Saving(q, id) == proc[q].pc \in {"entry_load", "entry_diff", "entry_write"} /\ proc[q].id = id

\* The UPDATE; requireById then refuses a row deleted meanwhile.
EntryWrite(p) ==
    /\ proc[p].pc = "entry_write"
    /\ LET id  == proc[p].id
           row == Patched(entry[id], proc[p].patch) IN
        IF Storable(id, row)
        THEN /\ entry' = [entry EXCEPT ![id] = row]
             /\ raced' = raced \cup {i \in {id} : \E q \in Procs \ {p} : Saving(q, id)}
             /\ Goto(p, IF row.deleted THEN Idle ELSE proc[p].after)
        ELSE UNCHANGED entryVars /\ Finish(p)
    /\ UNCHANGED <<now, active>>

EntryStep(p) ==
    \/ PunchToggle(p) \/ SoftDeleteEntry(p) \/ ApplyFind(p) \/ ApplyOpen(p)
    \/ EntryInsert(p) \/ EntryLoad(p) \/ EntryDiff(p) \/ EntryWrite(p)

\* The routes under /users/me/time-entries and /admin/time-entries.
MeTimeEntries(p) == \E e \in Employees : Punch(p, e)
AdminTimeEntries(p) ==
    \E u \in Users :
        \/ \E e \in Employees, w \in HRWindows : CreateEntry(p, u, e, w)
        \/ \E id \in EntryIds :
            DeleteEntry(p, u, id) \/ \E patch \in HREdits : UpdateEntry(p, u, id, patch)

Tick ==
    /\ now < LastNow                                         \* bound
    /\ now' = now + 1
    /\ UNCHANGED <<entryVars, active, proc>>

EntryInit ==
    /\ \E row \in OldEntries \cup {None} : entry = [id \in EntryIds |-> IF id = 1 THEN row ELSE None]
    /\ raced = {}
    /\ now = 1
    /\ active = Users
    /\ proc = [p \in Procs |-> Idle]
-----------------------------------------------------------------------------
\* Every variable has its type, and windows stay ordered under column-wise saves.
EntryTypeOK ==
    /\ entry \in [EntryIds -> EntryRow \cup {None}]
    /\ \A id \in EntryIds : Exists(id) => (entry[id].out # None => entry[id].in < entry[id].out)
    /\ raced \subseteq EntryIds
    /\ now \in Ticks /\ active \subseteq Users

\* The status of an entry says whether it has a time_out, whatever punches, edits
\* and corrections did to it, unless two of them were saving it at once.
StatusFollowsWindow ==
    \A id \in EntryIds \ raced :
        NotDeleted(id) => (entry[id].status = "open" <=> entry[id].out = None)

\* A self-service punch finds one open entry to close, whatever HR edits and
\* approved corrections reopened.
OneOpenEntry ==
    \A i, j \in EntryIds :
        (/\ i # j /\ NotDeleted(i) /\ NotDeleted(j) /\ entry[i].emp = entry[j].emp
         /\ entry[i].status = "open")
        => entry[j].status # "open"
=============================================================================
