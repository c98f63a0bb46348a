----------------------------- MODULE Compensation -----------------------------
(***************************************************************************)
(* Effective-dated pay: set, bulk set, in-place correction and deletion of *)
(* a rate, and the audit row each of them writes.                          *)
(*                                                                         *)
(* A handler in flight is a process p; each write runs in one READ         *)
(* COMMITTED transaction.  proc[p].writes and proc[p].inserts are what the *)
(* transaction has written and nobody else sees before it commits; a row   *)
(* in proc[p].writes is locked by p.  A unique violation or a CHECK is     *)
(* found at the commit, when whoever held the key has finished.            *)
(*                                                                         *)
(* Left out: who calls (each route needs a COMPENSATION permission), who   *)
(* acted, the before-columns of the audit.  Days are numbers.  A rate is a *)
(* number of 1/10000 of the currency.                                      *)
(***************************************************************************)
EXTENDS Integers, FiniteSets, Rows

CONSTANTS
    Procs,        \* handlers that may be in flight at once
    Employees,
    Salaries,     \* monthly salaries HR enters
    Rates,        \* hourly rates HR enters to override the derived one
    BulkSets,     \* the sets of employees one call sets the pay of
    MaxDay,       \* bound on the calendar
    FirstToday,
    MaxRows,      \* bound on the number of rates
    MaxCalls,     \* bound on the number of handlers that ever start
    None          \* SQL null, an absent row

Days == 1..MaxDay
Ids  == 1..MaxRows

ASSUME PayConstants ==
    /\ Salaries \subseteq Nat /\ Rates \subseteq Nat
    /\ BulkSets \subseteq SUBSET Employees
    /\ MaxDay \in Nat /\ FirstToday \in Days /\ MaxRows \in Nat /\ MaxCalls \in Nat
    /\ None \notin Int

VARIABLES
    pay,     \* employee_compensations: the row of each id, or None
    trail,   \* compensation_audits: the after-columns of a row's last audit, or None
    today,   \* businessDateString()
    proc,    \* handlers in flight
    calls,   \* handlers started so far
    moved,   \* history: employees whose dates a correction or a stale save moved
    raced    \* history: rows that two handlers were saving at once

vars == <<pay, trail, today, proc, calls, moved, raced>>
-----------------------------------------------------------------------------
\* 208.67 paid hours a month, rounded to four places.
DeriveHourlyRate_Floor(monthly) == (1000000 * monthly) \div 20867          \* mutant
DeriveHourlyRate(monthly) == (2000000 * monthly + 20867) \div (2 * 20867)

PayRow == [emp : Employees, monthly : Nat, hourly : Nat, overridden : BOOLEAN,
           from : Int, to : Int \cup {None}, deleted : BOOLEAN]
AuditRow == [monthly : Nat, hourly : Nat, from : Int]

ASSUME PayRecords == None \notin PayRow /\ None \notin AuditRow

Standing(id) == pay[id] # None /\ ~ pay[id].deleted
RowsOf(e)    == {id \in Ids : Standing(id) /\ pay[id].emp = e}
FindActive(e) == {id \in RowsOf(e) : pay[id].to = None}

\* The latest rate that starts before a day.
FindPrevious(e, day, own) ==
    LET before == {id \in RowsOf(e) \ own : pay[id].from < day} IN
    {id \in before : \A j \in before : pay[j].from <= pay[id].from}

InEffect(id, day) == pay[id].from <= day /\ (pay[id].to # None => pay[id].to >= day)
FindRatesOnDate(e, day) == {id \in RowsOf(e) : InEffect(id, day)}

\* A rate HR enters is an override; otherwise it follows from the salary.
PayRate(monthly, hourly) ==
    [monthly    |-> monthly,
     hourly     |-> IF hourly # None THEN hourly ELSE DeriveHourlyRate(monthly),
     overridden |-> hourly # None]

\* The CHECK of the range and the partial unique index on open-ended rates.
Storable_NoIndex(table) ==                                                 \* mutant
    \A id \in Present(table, None) : table[id].to # None => table[id].to >= table[id].from
Storable(table) ==
    LET ids    == Present(table, None)
        active == {id \in ids : ~ table[id].deleted /\ table[id].to = None}
    IN /\ \A id \in ids : table[id].to # None => table[id].to >= table[id].from
       /\ \A i, j \in active : i # j => table[i].emp # table[j].emp

Idle       == [pc |-> "idle"]
Goto(p, r) == proc' = [proc EXCEPT ![p] = r]
Finish(p)  == Goto(p, Idle)
Written(q) == IF "writes" \in DOMAIN proc[q] THEN DOMAIN proc[q].writes ELSE {}
-----------------------------------------------------------------------------
(***************************************************************************)
(* Requests                                                                *)
(***************************************************************************)
NoWrites == [id \in {} |-> None]

\* create and createBulk: one item per employee, none in the future.
NotFuture_Unchecked(day) == TRUE                                           \* mutant
NotFuture(day) == day <= today
SetPay(p, emps, monthly, hourly, from) ==
    /\ proc[p] = Idle
    /\ NotFuture(from)
    /\ Goto(p, [pc |-> "insert_next", todo |-> emps, rate |-> PayRate(monthly, hourly),
                from |-> from, writes |-> NoWrites, inserts |-> {}])
    /\ UNCHANGED <<pay, trail, today, moved, raced>>

\* correct: a new salary derives the rate again unless a rate is given with it.
Correction(row, monthly, hourly, from) ==
    LET rate == PayRate(IF monthly # None THEN monthly ELSE row.monthly, hourly)
        cols == (IF monthly # None THEN {"monthly"} ELSE {})
                  \cup (IF monthly # None \/ hourly # None THEN {"hourly", "overridden"} ELSE {})
                  \cup (IF from # None THEN {"from"} ELSE {})
    IN [c \in cols |-> IF c = "from" THEN from ELSE rate[c]]

Update(p, id, monthly, hourly, from) ==
    /\ proc[p] = Idle
    /\ Standing(id)
    /\ from # None => NotFuture(from)
    /\ Goto(p, [pc |-> "load", for |-> "update", id |-> id, writes |-> NoWrites, inserts |-> {},
                patch |-> Correction(pay[id], monthly, hourly, from)])
    /\ UNCHANGED <<pay, trail, today, moved, raced>>

\* softDelete: only an active rate.
Deletable(id) == pay[id].to = None
SoftDelete(p, id) ==
    /\ proc[p] = Idle
    /\ Standing(id) /\ Deletable(id)
    /\ Goto(p, [pc |-> "load", for |-> "delete", id |-> id, gone |-> id, read |-> pay[id],
                writes |-> NoWrites, inserts |-> {}, patch |-> [deleted |-> TRUE]])
    /\ UNCHANGED <<pay, trail, today, moved, raced>>
-----------------------------------------------------------------------------
(***************************************************************************)
(* Inside a transaction                                                    *)
(***************************************************************************)
Set(p, r) == Goto(p, [c \in DOMAIN proc[p] \cup DOMAIN r |->
                        IF c \in DOMAIN r THEN r[c] ELSE proc[p][c]])

NewRate(e, rate, from) ==
    [emp |-> e, monthly |-> rate.monthly, hourly |-> rate.hourly, overridden |-> rate.overridden,
     from |-> from, to |-> None, deleted |-> FALSE]

\* insertWithin, for one employee of the call: the rate must start after the
\* active one, which ends the day before.
EndedBefore_SameDay(day) == day                                            \* mutant
EndedBefore(day) == day - 1                                                \* dayBefore
InsertNext(p) ==
    /\ proc[p].pc = "insert_next"
    /\ \E e \in proc[p].todo :
        LET from == proc[p].from
            new  == [todo    |-> proc[p].todo \ {e},
                     inserts |-> proc[p].inserts \cup {NewRate(e, proc[p].rate, from)}]
        IN \/ FindActive(e) = {} /\ Set(p, new)
           \/ \E id \in FindActive(e) :
                IF from <= pay[id].from THEN Finish(p)
                ELSE Goto(p, [pc |-> "load", for |-> "insert", id |-> id, rate |-> proc[p].rate,
                              from |-> from, writes |-> proc[p].writes, todo |-> new.todo,
                              inserts |-> new.inserts, patch |-> [to |-> EndedBefore(from)]])
    /\ UNCHANGED <<pay, trail, today, moved, raced>>

\* update: findOneOrFail leaves the select: false columns out of the entity, so
\* save writes a salary or a rate only if the patch names it.
Loaded(row, patch) ==
    [c \in {"from", "to", "overridden", "deleted"} \cup DOMAIN patch |-> Patched(row, patch)[c]]
Load(p) ==
    /\ proc[p].pc = "load"
    /\ IF Standing(proc[p].id)
       THEN Set(p, [pc |-> "diff", patch |-> Loaded(pay[proc[p].id], proc[p].patch)])
       ELSE Finish(p)
    /\ UNCHANGED <<pay, trail, today, moved, raced>>

Diff(p) ==
    /\ proc[p].pc = "diff"
    /\ Set(p, [pc |-> "write", patch |-> Delta(proc[p].patch, pay[proc[p].id])])
    /\ UNCHANGED <<pay, trail, today, moved, raced>>

\* The UPDATE waits for whoever has written the row and not committed.
Saving(q, id) == id \in Written(q) \/ (proc[q].pc \in {"load", "diff", "write"} /\ proc[q].id = id)
SharedWith(p, ids) == {id \in ids : \E q \in Procs \ {p} : Saving(q, id)}
Write(p) ==
    /\ proc[p].pc = "write"
    /\ LET id == proc[p].id IN
        /\ \A q \in Procs \ {p} : id \notin Written(q)
        /\ Set(p, [writes |-> [i \in DOMAIN proc[p].writes \cup {id} |->
                                 IF i = id THEN proc[p].patch ELSE proc[p].writes[i]],
                   pc |-> CASE proc[p].for = "insert" -> "insert_next"
                            [] proc[p].for = "delete" -> "previous"
                            [] OTHER -> "commit"])
        /\ raced' = raced \cup SharedWith(p, {id})
    /\ UNCHANGED <<pay, trail, today, moved>>

\* softDelete: the rate before the deleted one becomes active again.
ReactivatePrevious(p) ==
    /\ proc[p].pc = "previous"
    /\ LET row   == proc[p].read
           prior == FindPrevious(row.emp, row.from, {proc[p].gone})
       IN \/ prior = {} /\ Set(p, [pc |-> "commit"])
          \/ \E id \in prior : Set(p, [pc |-> "load", for |-> "reactivate", id |-> id,
                                       patch |-> [to |-> None]])
    /\ UNCHANGED <<pay, trail, today, moved, raced>>
-----------------------------------------------------------------------------
(***************************************************************************)
(* The end of a transaction                                                *)
(***************************************************************************)
AfterColumns(row) == [monthly |-> row.monthly, hourly |-> row.hourly, from |-> row.from]

\* The table with the writes of p: new rows take the next ids, in any order.
Updated(p) == [id \in Ids |-> IF id \in Written(p) THEN Patched(pay[id], proc[p].writes[id]) ELSE pay[id]]
FreeIds(n) == {id \in Ids : pay[id] = None /\ Cardinality({j \in Ids : j <= id /\ pay[j] = None}) <= n}
Orders(p)  ==
    LET new == FreeIds(Cardinality(proc[p].inserts)) IN
    {f \in [new -> proc[p].inserts] : /\ \A i, j \in new : f[i] = f[j] => i = j
                                     /\ \A row \in proc[p].inserts : \E i \in new : f[i] = row}

\* audit.record: the row as it was read back after the update.
Audited_AsRead(id, table) == AfterColumns(pay[id])                         \* mutant
Audited(id, table) == AfterColumns(table[id])

\* Dates that setting and deleting pay would have left alone: a start is corrected,
\* or a stale copy of the row is written back, which revives it or moves its end.
Shifted(old, new, corrects) ==
    \/ new.from # old.from
    \/ old.deleted /\ ~ new.deleted
    \/ corrects /\ new.to # old.to

Ready(p) ==
    \/ proc[p].pc = "commit"
    \/ proc[p].pc = "insert_next" /\ proc[p].todo = {}

Commit(p) ==
    /\ Ready(p)
    /\ Cardinality(Present(pay, None)) + Cardinality(proc[p].inserts) <= MaxRows    \* bound
    /\ \E f \in Orders(p) :
        LET table == [id \in Ids |-> IF id \in DOMAIN f THEN f[id] ELSE Updated(p)[id]]
            corrects == proc[p].pc = "commit" /\ proc[p].for = "update"
            shifted  == {id \in Written(p) : Shifted(pay[id], table[id], corrects)}
        IN IF Storable(table)
           THEN /\ pay' = table
                /\ trail' = [id \in Ids |->
                               CASE id \in DOMAIN f -> AfterColumns(table[id])
                                 [] id \in Written(p) /\ corrects -> Audited(id, table)
                                 [] OTHER -> trail[id]]
                /\ moved' = moved \cup {table[id].emp : id \in shifted}
                /\ raced' = raced \cup SharedWith(p, Written(p))
           ELSE UNCHANGED <<pay, trail, moved, raced>>
    /\ Finish(p)
    /\ UNCHANGED today

\* A query fails, a deadlock is broken, or the server stops: nothing is left of
\* the transaction.
RollBack(p) ==
    /\ proc[p] # Idle
    /\ Finish(p)
    /\ UNCHANGED <<pay, trail, today, moved, raced>>

NextDay ==
    /\ today < MaxDay                                        \* bound
    /\ today' = today + 1
    /\ UNCHANGED <<pay, trail, proc, calls, moved, raced>>
-----------------------------------------------------------------------------
Init ==
    /\ pay = [id \in Ids |-> None]
    /\ trail = [id \in Ids |-> None]
    /\ today = FirstToday
    /\ proc = [p \in Procs |-> Idle]
    /\ calls = 0
    /\ moved = {} /\ raced = {}

Optional(S) == S \cup {None}

\* AdminCompensationController.
Request(p) ==
    /\ calls < MaxCalls                                      \* bound
    /\ calls' = calls + 1
    /\ \/ \E emps \in BulkSets, m \in Salaries, h \in Optional(Rates), from \in Days :
            SetPay(p, emps, m, h, from)
       \/ \E id \in Ids :
            \/ \E m \in Optional(Salaries), h \in Optional(Rates), from \in Optional(Days) :
                 Update(p, id, m, h, from)
            \/ SoftDelete(p, id)

TransactionStep(p) ==
    InsertNext(p) \/ Load(p) \/ Diff(p) \/ Write(p) \/ ReactivatePrevious(p) \/ Commit(p) \/ RollBack(p)

Next ==
    \/ \E p \in Procs : Request(p)
    \/ \E p \in Procs : TransactionStep(p) /\ UNCHANGED calls
    \/ NextDay

Spec == Init /\ [][Next]_vars
-----------------------------------------------------------------------------
\* Every variable has its type, and no rate starts in the future.
TypeOK ==
    /\ pay \in [Ids -> PayRow \cup {None}]
    /\ trail \in [Ids -> AuditRow \cup {None}]
    /\ today \in Days /\ calls \in 0..MaxCalls
    /\ moved \subseteq Employees /\ raced \subseteq Ids
    /\ \A id \in Present(pay, None) : pay[id].from <= today

\* findRatesOnDate has one answer: the rates of an employee never overlap, through
\* racing pay changes, failures and deletions, unless a correction moved a start or
\* wrote a stale end, or a stale save revived a deleted rate.
OneRateOnDate ==
    \A e \in Employees \ moved, day \in Days : Cardinality(FindRatesOnDate(e, day)) <= 1

\* However pay changes, corrections and deletions race, an employee has at most one
\* open-ended rate: the reactivation of a rate never meets a newer one.
OneActiveRate == \A e \in Employees : Cardinality(FindActive(e)) <= 1

\* A rate that is not marked as an override is the one its salary gives, within half
\* a unit of the fourth place, unless two handlers were saving the row at once.
Rounded(monthly, hourly) ==
    LET error == 2 * (hourly * 20867 - 1000000 * monthly) IN -20867 <= error /\ error <= 20867
RateFollowsSalary ==
    \A id \in Ids \ raced :
        pay[id] # None /\ ~ pay[id].overridden => Rounded(pay[id].monthly, pay[id].hourly)

\* The last audit row of a rate shows what the rate says, unless two handlers were
\* saving the row at once.
TrailMatchesRow ==
    \A id \in Ids \ raced : Standing(id) => trail[id] = AfterColumns(pay[id])
=============================================================================
