------------------------- MODULE CompensationProofs -------------------------
(***************************************************************************)
(* Proofs about Compensation, for any number of handlers, employees, rates *)
(* and requests, any salaries and any days.                                *)
(***************************************************************************)
EXTENDS Compensation, FiniteSetTheorems, WellFoundedInduction, TLAPS

-----------------------------------------------------------------------------
(***************************************************************************)
(* Rates and patches                                                       *)
(***************************************************************************)
RateType == [monthly : Nat, hourly : Nat, overridden : BOOLEAN]

PayPatch(patch, day) ==
    /\ DOMAIN patch \subseteq {"monthly", "hourly", "overridden", "from", "to", "deleted"}
    /\ "monthly" \in DOMAIN patch => patch.monthly \in Nat
    /\ "hourly" \in DOMAIN patch => patch.hourly \in Nat
    /\ "overridden" \in DOMAIN patch => patch.overridden \in BOOLEAN
    /\ "from" \in DOMAIN patch => patch.from \in Int /\ patch.from <= day
    /\ "to" \in DOMAIN patch => patch.to \in Int \cup {None}
    /\ "deleted" \in DOMAIN patch => patch.deleted \in BOOLEAN

\* A row of the table, of a rate that has started.
Started(row, day) == row \in PayRow /\ row.from <= day

\* The rate is an override, or the one the salary gives.
Follows(row) == ~ row.overridden => Rounded(row.monthly, row.hourly)

\* A quotient by 41734, rounded down, is near what was divided.
LEMMA Quotient ==
    ASSUME NEW m \in Nat, NEW n \in Nat, NEW h \in Nat, n = 2000000 * m + 20867,
           41734 * h <= n, n < 41734 * h + 41734
    PROVE  Rounded(m, h)
<1>1. 2 * (h * 20867 - 1000000 * m) = 41734 * h - n + 20867
  BY SMT
<1>2. -20867 <= 41734 * h - n + 20867 /\ 41734 * h - n + 20867 <= 20867
  BY SMT
<1> QED BY <1>1, <1>2, SMT DEF Rounded

\* The rate of a salary is a natural number, rounded to the nearest.
LEMMA Derived ==
    ASSUME NEW m \in Nat
    PROVE  DeriveHourlyRate(m) \in Nat /\ Rounded(m, DeriveHourlyRate(m))
<1>1. PICK n \in Nat : n = 2000000 * m + 20867
  BY SMT
<1>2. PICK h \in Nat : h = n \div 41734 /\ 41734 * h <= n /\ n < 41734 * h + 41734
  BY <1>1, SMT
<1>3. DeriveHourlyRate(m) = h
  BY <1>1, <1>2, SMT DEF DeriveHourlyRate
<1> QED BY <1>1, <1>2, <1>3, Quotient

\* The rate HR enters, or the one its salary gives.
LEMMA PayRateOK ==
    ASSUME NEW m \in Nat, NEW h \in Nat \cup {None}
    PROVE  PayRate(m, h) \in RateType /\ Follows(PayRate(m, h))
<1>1. CASE h = None
  <2>1. PayRate(m, h) = [monthly |-> m, hourly |-> DeriveHourlyRate(m), overridden |-> FALSE]
    BY <1>1 DEF PayRate
  <2> QED BY <2>1, Derived DEF RateType, Follows
<1>2. CASE h # None
  <2>1. PayRate(m, h) = [monthly |-> m, hourly |-> h, overridden |-> TRUE]
    BY <1>2 DEF PayRate
  <2> QED BY <1>2, <2>1 DEF RateType, Follows
<1> QED BY <1>1, <1>2

\* A patch of typed columns leaves a row, of the same employee.
LEMMA PatchedRow ==
    ASSUME NEW day \in Int, NEW row, Started(row, day), NEW patch, PayPatch(patch, day)
    PROVE  Started(Patched(row, patch), day) /\ Patched(row, patch).emp = row.emp
BY DEF Patched, PayRow, PayPatch, Started

\* What a save keeps of a patch is a patch.
LEMMA DeltaPatch ==
    ASSUME NEW day \in Int, NEW wanted, PayPatch(wanted, day), NEW stored
    PROVE  PayPatch(Delta(wanted, stored), day)
BY DEF Delta, PayPatch

\* The columns a save holds after the load.
LEMMA LoadedPatch ==
    ASSUME NEW day \in Int, NEW row, Started(row, day), NEW patch, PayPatch(patch, day)
    PROVE  PayPatch(Loaded(row, patch), day)
<1> DEFINE l == Loaded(row, patch)
           r == Patched(row, patch)
<1>1. Started(r, day)
  BY PatchedRow
<1>2. DOMAIN l \subseteq {"monthly", "hourly", "overridden", "from", "to", "deleted"}
      /\ \A c \in DOMAIN l : l[c] = r[c]
  BY DEF Loaded, PayPatch
<1> HIDE DEF l, r
<1>3. PayPatch(l, day)
  BY <1>1, <1>2 DEF PayPatch, Started, PayRow
<1> QED BY <1>3 DEF l

\* Laying the loaded columns over the row they were loaded from is the patch.
LEMMA LoadedSame ==
    ASSUME NEW day \in Int, NEW row \in PayRow, NEW patch, PayPatch(patch, day)
    PROVE  Patched(row, Loaded(row, patch)) = Patched(row, patch)
BY DEF Patched, Loaded, PayRow

\* Laying the columns that differ over the row they were compared with is the patch.
LEMMA DeltaSame ==
    ASSUME NEW day \in Int, NEW row \in PayRow, NEW patch, PayPatch(patch, day)
    PROVE  Patched(row, Delta(patch, row)) = Patched(row, patch)
<1>1. DOMAIN patch \subseteq DOMAIN row
  BY DEF PayRow, PayPatch
<1>2. ASSUME NEW c \in DOMAIN row
      PROVE  Patched(row, Delta(patch, row))[c] = Patched(row, patch)[c]
  BY <1>1 DEF Patched, Delta
<1> QED BY <1>2 DEF Patched

\* Rows and patches outlive the day.
LEMMA LaterDay ==
    ASSUME NEW day \in Int, NEW later \in Int, day <= later
    PROVE  /\ \A row : Started(row, day) => Started(row, later)
           /\ \A patch : PayPatch(patch, day) => PayPatch(patch, later)
BY DEF Started, PayPatch, PayRow

\* A correction: typed columns, and the rate follows if the row's did.
LEMMA CorrectionOK ==
    ASSUME NEW day \in Int, NEW row, Started(row, day), NEW m \in Nat \cup {None},
           NEW h \in Nat \cup {None}, NEW from \in Int \cup {None}, from # None => from <= day
    PROVE  /\ PayPatch(Correction(row, m, h, from), day)
           /\ Follows(row) => Follows(Patched(row, Correction(row, m, h, from)))
<1> DEFINE salary == IF m # None THEN m ELSE row.monthly
           rate == PayRate(salary, h)
           cols == (IF m # None THEN {"monthly"} ELSE {})
                     \cup (IF m # None \/ h # None THEN {"hourly", "overridden"} ELSE {})
                     \cup (IF from # None THEN {"from"} ELSE {})
           patch == [c \in cols |-> IF c = "from" THEN from ELSE rate[c]]
<1>1. salary \in Nat
  BY DEF Started, PayRow
<1>2. rate \in RateType /\ Follows(rate) /\ rate.monthly = salary
  BY <1>1, PayRateOK DEF PayRate
<1>3. h # None => rate.overridden
  BY DEF PayRate
<1>4. Correction(row, m, h, from) = patch
  BY DEF Correction
<1> HIDE DEF rate, salary
<1>5. PayPatch(patch, day)
  BY <1>2 DEF PayPatch, RateType
<1>6. ASSUME Follows(row) PROVE Follows(Patched(row, patch))
  <2>1. CASE m # None
    <3>1. /\ Patched(row, patch).monthly = rate.monthly
          /\ Patched(row, patch).hourly = rate.hourly
          /\ Patched(row, patch).overridden = rate.overridden
      BY <2>1 DEF Patched, Started, PayRow
    <3> QED BY <1>2, <3>1 DEF Follows
  <2>2. CASE m = None /\ h # None
    <3>1. Patched(row, patch).overridden = TRUE
      BY <1>2, <1>3, <2>2 DEF Patched, Started, PayRow, RateType
    <3> QED BY <3>1 DEF Follows
  <2>3. CASE m = None /\ h = None
    <3>1. /\ Patched(row, patch).monthly = row.monthly
          /\ Patched(row, patch).hourly = row.hourly
          /\ Patched(row, patch).overridden = row.overridden
      BY <2>3 DEF Patched, Started, PayRow
    <3> QED BY <1>6, <3>1 DEF Follows
  <2> QED BY <2>1, <2>2, <2>3
<1> QED BY <1>4, <1>5, <1>6
-----------------------------------------------------------------------------
(***************************************************************************)
(* Handlers                                                                *)
(***************************************************************************)
\* Only the handler that moves changes.
LEMMA GotoOnly ==
    ASSUME DOMAIN proc = Procs, NEW p \in Procs, NEW r, Goto(p, r)
    PROVE  DOMAIN proc' = Procs /\ proc'[p] = r /\ \A q \in Procs \ {p} : proc'[q] = proc[q]
BY DEF Goto

\* A handler that sets some fields keeps the others.
LEMMA SetOnly ==
    ASSUME DOMAIN proc = Procs, NEW p \in Procs, NEW r, Set(p, r)
    PROVE  /\ DOMAIN proc' = Procs /\ \A q \in Procs \ {p} : proc'[q] = proc[q]
           /\ DOMAIN proc'[p] = DOMAIN proc[p] \cup DOMAIN r
           /\ \A c \in DOMAIN r : proc'[p][c] = r[c]
           /\ \A c \in DOMAIN proc[p] \ DOMAIN r : proc'[p][c] = proc[p][c]
BY DEF Set, Goto

Saves == {"load", "diff", "write"}
Steps == Saves \cup {"insert_next", "previous", "commit"}

\* What a handler holds, by its program counter: what its transaction has written, ...
OpenRate(row, day) == Started(row, day) /\ row.to = None /\ ~ row.deleted
HoldsWrites(p) ==
    /\ {"pc", "writes", "inserts"} \subseteq DOMAIN proc[p]
    /\ \A row \in proc[p].inserts : OpenRate(row, today)
    /\ DOMAIN proc[p].writes \subseteq Ids
    /\ \A i \in DOMAIN proc[p].writes : PayPatch(proc[p].writes[i], today) /\ Started(pay[i], today)

\* ... the row it saves, ...
HoldsSave(p) ==
    /\ {"id", "for", "patch"} \subseteq DOMAIN proc[p]
    /\ proc[p].for \in {"insert", "update", "delete", "reactivate"}
    /\ proc[p].id \in Ids /\ Started(pay[proc[p].id], today) /\ PayPatch(proc[p].patch, today)

\* ... the rate it sets, ...
HoldsRate(p) ==
    /\ {"todo", "rate", "from"} \subseteq DOMAIN proc[p]
    /\ proc[p].todo \subseteq Employees /\ proc[p].rate \in RateType
    /\ proc[p].from \in Int /\ proc[p].from <= today

\* ... the row it deletes.
HoldsGone(p) ==
    /\ {"id", "for", "gone", "read"} \subseteq DOMAIN proc[p]
    /\ proc[p].gone \in Ids /\ Started(pay[proc[p].gone], today) /\ Started(proc[p].read, today)
    /\ pay[proc[p].gone].emp = proc[p].read.emp
    /\ proc[p].for = "delete" => proc[p].id = proc[p].gone

Sets(p)    == proc[p].pc = "insert_next" \/ (proc[p].pc \in Saves /\ proc[p].for = "insert")
Deletes(p) == \/ proc[p].pc = "previous"
              \/ proc[p].pc \in Saves \cup {"commit"} /\ proc[p].for \in {"delete", "reactivate"}

HandlerOK(p) ==
    /\ proc[p] = Idle \/ proc[p].pc \in Steps
    /\ proc[p].pc \in Steps => HoldsWrites(p)
    /\ proc[p].pc \in Saves => HoldsSave(p)
    /\ Sets(p) => HoldsRate(p)
    /\ Deletes(p) => HoldsGone(p)
    /\ proc[p].pc = "previous" => proc[p].for = "delete"
    /\ proc[p].pc = "commit" =>
        {"id", "for"} \subseteq DOMAIN proc[p] /\ proc[p].for \in {"update", "delete", "reactivate"}

TablesOK ==
    /\ pay \in [Ids -> PayRow \cup {None}]
    /\ trail \in [Ids -> AuditRow \cup {None}]
    /\ today \in Days /\ moved \subseteq Employees /\ raced \subseteq Ids
    /\ \A id \in Ids : pay[id] # None => Started(pay[id], today)
    /\ DOMAIN proc = Procs

TypeInv == TablesOK /\ \A p \in Procs : HandlerOK(p)

\* Nothing is forgotten: a row stays a row of its employee, and no day comes back.
RowsKept ==
    /\ today \in Int /\ today' \in Int /\ today <= today'
    /\ \A id \in Ids :
        Started(pay[id], today) => Started(pay'[id], today') /\ pay'[id].emp = pay[id].emp

\* A handler that waits meanwhile still holds what it held.
LEMMA OtherHandler ==
    ASSUME NEW q \in Procs, proc'[q] = proc[q], HandlerOK(q), RowsKept
    PROVE  HandlerOK(q)'
<1>1. /\ \A row : Started(row, today) => Started(row, today')
      /\ \A patch : PayPatch(patch, today) => PayPatch(patch, today')
  BY LaterDay DEF RowsKept
<1>2. HoldsWrites(q) => HoldsWrites(q)'
  BY <1>1 DEF HoldsWrites, OpenRate, RowsKept
<1>3. HoldsSave(q) => HoldsSave(q)'
  BY <1>1 DEF HoldsSave, RowsKept
<1>4. HoldsRate(q) => HoldsRate(q)'
  BY DEF HoldsRate, RowsKept
<1>5. HoldsGone(q) => HoldsGone(q)'
  BY <1>1 DEF HoldsGone, RowsKept
<1>6. Sets(q)' = Sets(q) /\ Deletes(q)' = Deletes(q)
  BY DEF Sets, Deletes
<1> QED BY <1>2, <1>3, <1>4, <1>5, <1>6 DEF HandlerOK

\* A step of one handler that writes no table keeps the rows and the types.
Quiet == UNCHANGED <<pay, trail, today, moved, raced>>

\* A step that writes no table forgets no row.
LEMMA QuietKeeps == TypeInv /\ Quiet => RowsKept
<1>1. Days \subseteq Int
  BY PayConstants DEF Days
<1> QED BY <1>1 DEF TypeInv, TablesOK, Quiet, RowsKept

\* Such a step keeps the types when the handler that takes it keeps its own.
LEMMA QuietType ==
    ASSUME TypeInv, NEW p \in Procs, Quiet, DOMAIN proc' = Procs,
           \A q \in Procs \ {p} : proc'[q] = proc[q], HandlerOK(p)'
    PROVE  TypeInv'
<1>1. \A q \in Procs \ {p} : HandlerOK(q)'
  BY QuietKeeps, OtherHandler DEF TypeInv
<1>2. TablesOK'
  BY DEF TypeInv, TablesOK, Quiet
<1> QED BY <1>1, <1>2 DEF TypeInv

\* An idle handler holds nothing.
LEMMA FinishOK ==
    ASSUME DOMAIN proc = Procs, NEW p \in Procs, Finish(p)
    PROVE  /\ HandlerOK(p)' /\ DOMAIN proc' = Procs /\ proc'[p] = Idle
           /\ \A q \in Procs \ {p} : proc'[q] = proc[q]
BY GotoOnly DEF Finish, Idle, HandlerOK, Steps, Saves, Sets, Deletes

\* A handler that ends without writing.
LEMMA FinishType ==
    ASSUME TypeInv, NEW p \in Procs, Finish(p), Quiet
    PROVE  TypeInv'
BY FinishOK, QuietType DEF TypeInv, TablesOK

\* A handler that moves without writing.
LEMMA GotoType ==
    ASSUME TypeInv, NEW p \in Procs, NEW r, Goto(p, r), Quiet, proc'[p] = r => HandlerOK(p)'
    PROVE  TypeInv'
BY GotoOnly, QuietType DEF TypeInv, TablesOK

\* The types, for a step that sets some fields of one handler.
LEMMA SetType ==
    ASSUME TypeInv, NEW p \in Procs, NEW r, Set(p, r), Quiet,
           ASSUME DOMAIN proc'[p] = DOMAIN proc[p] \cup DOMAIN r,
                  \A c \in DOMAIN r : proc'[p][c] = r[c],
                  \A c \in DOMAIN proc[p] \ DOMAIN r : proc'[p][c] = proc[p][c]
           PROVE  HandlerOK(p)'
    PROVE  TypeInv'
BY SetOnly, QuietType DEF TypeInv, TablesOK
-----------------------------------------------------------------------------
(***************************************************************************)
(* Types, one lemma per group of actions                                   *)
(***************************************************************************)
\* What a set-pay, a correction and a deletion begin with.
LEMMA TypeSetPay ==
    ASSUME TypeInv, NEW p \in Procs, NEW emps \in BulkSets, NEW m \in Salaries,
           NEW h \in Optional(Rates), NEW from \in Days, SetPay(p, emps, m, h, from)
    PROVE  TypeInv'
<1> DEFINE r == [pc |-> "insert_next", todo |-> emps, rate |-> PayRate(m, h), from |-> from,
                 writes |-> NoWrites, inserts |-> {}]
<1>1. PayRate(m, h) \in RateType /\ emps \subseteq Employees /\ from \in Int /\ from <= today
  BY PayConstants, PayRateOK DEF Optional, Days, SetPay, NotFuture
<1>2. proc'[p] = r => HandlerOK(p)'
  BY <1>1 DEF HandlerOK, HoldsWrites, HoldsRate, NoWrites, Steps, Saves, Sets, Deletes, SetPay
<1> QED BY <1>2, GotoType DEF SetPay, Quiet

\* A correction, up to the load of its row.
LEMMA TypeUpdate ==
    ASSUME TypeInv, NEW p \in Procs, NEW id \in Ids, NEW m \in Optional(Salaries),
           NEW h \in Optional(Rates), NEW from \in Optional(Days), Update(p, id, m, h, from)
    PROVE  TypeInv'
<1> DEFINE patch == Correction(pay[id], m, h, from)
           r == [pc |-> "load", for |-> "update", id |-> id, writes |-> NoWrites, inserts |-> {},
                 patch |-> patch]
<1>1. Started(pay[id], today) /\ today \in Int
  BY PayConstants DEF TypeInv, TablesOK, Update, Standing, Days
<1>2. m \in Nat \cup {None} /\ h \in Nat \cup {None} /\ from \in Int \cup {None}
      /\ (from # None => from <= today)
  BY PayConstants DEF Optional, Days, Update, NotFuture
<1>3. PayPatch(patch, today)
  BY <1>1, <1>2, CorrectionOK
<1> HIDE DEF patch
<1>4. proc'[p] = r => HandlerOK(p)'
  <2> SUFFICES ASSUME proc'[p] = r PROVE HandlerOK(p)'
    OBVIOUS
  <2>1. HoldsWrites(p)' /\ HoldsSave(p)'
    BY <1>1, <1>3 DEF HoldsWrites, HoldsSave, NoWrites, Update
  <2> QED BY <2>1 DEF HandlerOK, Steps, Saves, Sets, Deletes
<1> QED BY <1>4, GotoType DEF Update, Quiet, patch

\* A deletion, up to the load of its row.
LEMMA TypeSoftDelete ==
    ASSUME TypeInv, NEW p \in Procs, NEW id \in Ids, SoftDelete(p, id)
    PROVE  TypeInv'
<1> DEFINE r == [pc |-> "load", for |-> "delete", id |-> id, gone |-> id, read |-> pay[id],
                 writes |-> NoWrites, inserts |-> {}, patch |-> [deleted |-> TRUE]]
<1>1. Started(pay[id], today)
  BY DEF TypeInv, TablesOK, SoftDelete, Standing
<1>2. PayPatch([deleted |-> TRUE], today)
  BY DEF PayPatch
<1>3. proc'[p] = r => HandlerOK(p)'
  <2> SUFFICES ASSUME proc'[p] = r PROVE HandlerOK(p)'
    OBVIOUS
  <2>1. HoldsWrites(p)' /\ HoldsSave(p)' /\ HoldsGone(p)'
    BY <1>1, <1>2 DEF HoldsWrites, HoldsSave, HoldsGone, NoWrites, SoftDelete
  <2> QED BY <2>1 DEF HandlerOK, Steps, Saves, Sets, Deletes
<1> QED BY <1>3, GotoType DEF SoftDelete, Quiet

\* The next employee of a set-pay: the row to end, the row to insert.
Ending(p, e, id) ==
    Goto(p, [pc |-> "load", for |-> "insert", id |-> id, rate |-> proc[p].rate,
             from |-> proc[p].from, writes |-> proc[p].writes, todo |-> proc[p].todo \ {e},
             inserts |-> proc[p].inserts \cup {NewRate(e, proc[p].rate, proc[p].from)},
             patch |-> [to |-> EndedBefore(proc[p].from)]])
Adding(p, e) ==
    Set(p, [todo    |-> proc[p].todo \ {e},
            inserts |-> proc[p].inserts \cup {NewRate(e, proc[p].rate, proc[p].from)}])

\* What a set-pay does next: it adds a rate, ends the active one first, or is refused.
LEMMA InsertNextCases ==
    ASSUME NEW p \in Procs, InsertNext(p)
    PROVE  /\ proc[p].pc = "insert_next" /\ Quiet
           /\ \E e \in proc[p].todo :
                \/ FindActive(e) = {} /\ Adding(p, e)
                \/ Finish(p)
                \/ \E id \in FindActive(e) : ~ (proc[p].from <= pay[id].from) /\ Ending(p, e, id)
BY DEF InsertNext, Quiet, Ending, Adding

\* A set-pay turns to its next employee.
LEMMA TypeInsertNext ==
    ASSUME TypeInv, NEW p \in Procs, InsertNext(p)
    PROVE  TypeInv'
<1>1. /\ HoldsWrites(p) /\ HoldsRate(p) /\ DOMAIN proc = Procs /\ proc[p].pc = "insert_next" /\ Quiet
  BY InsertNextCases DEF TypeInv, TablesOK, HandlerOK, Steps, Sets
<1>2. PICK e \in proc[p].todo :
        \/ FindActive(e) = {} /\ Adding(p, e)
        \/ Finish(p)
        \/ \E id \in FindActive(e) : ~ (proc[p].from <= pay[id].from) /\ Ending(p, e, id)
  BY InsertNextCases
<1>3. PICK inserts : inserts = proc[p].inserts \cup {NewRate(e, proc[p].rate, proc[p].from)}
  OBVIOUS
<1>4. \A row \in inserts : OpenRate(row, today)
  <2>1. OpenRate(NewRate(e, proc[p].rate, proc[p].from), today)
    BY <1>1, <1>2 DEF NewRate, OpenRate, Started, PayRow, HoldsRate, RateType
  <2> QED BY <1>1, <1>3, <2>1 DEF HoldsWrites
<1>5. PICK todo : todo = proc[p].todo \ {e} /\ todo \subseteq Employees
  BY <1>1 DEF HoldsRate
<1>6. CASE Adding(p, e)
  <2> DEFINE r == [todo |-> todo, inserts |-> inserts]
  <2>1. Set(p, r)
    BY <1>3, <1>5, <1>6 DEF Adding
  <2>2. ASSUME DOMAIN proc'[p] = DOMAIN proc[p] \cup DOMAIN r,
               \A c \in DOMAIN r : proc'[p][c] = r[c],
               \A c \in DOMAIN proc[p] \ DOMAIN r : proc'[p][c] = proc[p][c]
        PROVE  HandlerOK(p)'
    <3>1. HoldsWrites(p)' /\ HoldsRate(p)' /\ proc'[p].pc = "insert_next"
      BY <1>1, <1>4, <1>5, <2>2 DEF HoldsWrites, HoldsRate, Quiet
    <3> QED BY <3>1 DEF HandlerOK, Steps, Saves, Sets, Deletes
  <2> QED BY <1>1, <2>1, <2>2, SetType
<1>7. ASSUME NEW id \in FindActive(e), Ending(p, e, id) PROVE TypeInv'
  <2> DEFINE r == [pc |-> "load", for |-> "insert", id |-> id, rate |-> proc[p].rate,
                   from |-> proc[p].from, writes |-> proc[p].writes, todo |-> todo,
                   inserts |-> inserts, patch |-> [to |-> EndedBefore(proc[p].from)]]
  <2>1. id \in Ids /\ Started(pay[id], today)
    BY DEF FindActive, RowsOf, Standing, TypeInv, TablesOK
  <2>2. PayPatch([to |-> EndedBefore(proc[p].from)], today)
    BY <1>1 DEF PayPatch, EndedBefore, HoldsRate
  <2>3. ASSUME proc'[p] = r PROVE HandlerOK(p)'
    <3>1. HoldsWrites(p)' /\ HoldsSave(p)' /\ HoldsRate(p)'
      BY <1>1, <1>4, <1>5, <2>1, <2>2, <2>3 DEF HoldsWrites, HoldsSave, HoldsRate, Quiet
    <3> QED BY <2>3, <3>1 DEF HandlerOK, Steps, Saves, Sets, Deletes
  <2> QED BY <1>1, <1>3, <1>5, <1>7, <2>3, GotoType DEF Ending
<1> QED BY <1>1, <1>2, <1>6, <1>7, FinishType

\* From one statement of a save to the next.
LEMMA NextSave ==
    ASSUME NEW p \in Procs, HandlerOK(p), proc[p].pc \in Saves, Quiet, NEW pc \in {"diff", "write"},
           NEW patch, PayPatch(patch, today),
           DOMAIN proc'[p] = DOMAIN proc[p] \cup {"pc", "patch"},
           proc'[p].pc = pc, proc'[p].patch = patch,
           \A c \in DOMAIN proc[p] \ {"pc", "patch"} : proc'[p][c] = proc[p][c]
    PROVE  HandlerOK(p)'
<1>1. HoldsSave(p)' /\ HoldsWrites(p)' /\ proc'[p].for = proc[p].for
  BY DEF HandlerOK, HoldsSave, HoldsWrites, Steps, Saves, Quiet
<1>2. Sets(p)' => HoldsRate(p)'
  BY <1>1 DEF HandlerOK, Sets, HoldsRate, Saves, Quiet
<1>3. Deletes(p)' => HoldsGone(p)'
  BY <1>1 DEF HandlerOK, Deletes, HoldsGone, Saves, Quiet
<1> QED BY <1>1, <1>2, <1>3 DEF HandlerOK, Steps, Saves

\* The row is loaded and patched.
LEMMA TypeLoad ==
    ASSUME TypeInv, NEW p \in Procs, Load(p)
    PROVE  TypeInv'
<1>1. /\ HandlerOK(p) /\ HoldsSave(p) /\ HoldsWrites(p) /\ proc[p].pc = "load" /\ Quiet
      /\ today \in Int
  BY PayConstants DEF TypeInv, TablesOK, HandlerOK, Load, Steps, Saves, Quiet, Days
<1>2. CASE ~ Standing(proc[p].id)
  BY <1>1, <1>2, FinishType DEF Load
<1>3. CASE Standing(proc[p].id)
  <2>1. PICK patch : patch = Loaded(pay[proc[p].id], proc[p].patch)
    OBVIOUS
  <2>2. PayPatch(patch, today)
    BY <1>1, <2>1, LoadedPatch DEF HoldsSave
  <2> DEFINE r == [pc |-> "diff", patch |-> patch]
  <2>3. Set(p, r)
    BY <1>3, <2>1 DEF Load
  <2>4. ASSUME DOMAIN proc'[p] = DOMAIN proc[p] \cup DOMAIN r,
               \A c \in DOMAIN r : proc'[p][c] = r[c],
               \A c \in DOMAIN proc[p] \ DOMAIN r : proc'[p][c] = proc[p][c]
        PROVE  HandlerOK(p)'
    BY <1>1, <2>2, <2>4, NextSave DEF Saves
  <2> QED BY <1>1, <2>3, <2>4, SetType
<1> QED BY <1>2, <1>3

\* The columns that differ are kept.
LEMMA TypeDiff ==
    ASSUME TypeInv, NEW p \in Procs, Diff(p)
    PROVE  TypeInv'
<1>1. /\ HandlerOK(p) /\ HoldsSave(p) /\ HoldsWrites(p) /\ proc[p].pc = "diff" /\ Quiet
      /\ today \in Int
  BY PayConstants DEF TypeInv, TablesOK, HandlerOK, Diff, Steps, Saves, Quiet, Days
<1>2. PICK patch : patch = Delta(proc[p].patch, pay[proc[p].id])
  OBVIOUS
<1>3. PayPatch(patch, today)
  BY <1>1, <1>2, DeltaPatch DEF HoldsSave
<1> DEFINE r == [pc |-> "write", patch |-> patch]
<1>4. Set(p, r)
  BY <1>2 DEF Diff
<1>5. ASSUME DOMAIN proc'[p] = DOMAIN proc[p] \cup DOMAIN r,
             \A c \in DOMAIN r : proc'[p][c] = r[c],
             \A c \in DOMAIN proc[p] \ DOMAIN r : proc'[p][c] = proc[p][c]
      PROVE  HandlerOK(p)'
  BY <1>1, <1>3, <1>5, NextSave DEF Saves
<1> QED BY <1>1, <1>4, <1>5, SetType

\* The UPDATE: the patch joins what the transaction has written.
LEMMA WriteStep ==
    ASSUME DOMAIN proc = Procs, NEW p \in Procs, Write(p)
    PROVE  /\ proc[p].pc = "write" /\ UNCHANGED <<pay, trail, today, moved>>
           /\ \A q \in Procs \ {p} : proc[p].id \notin Written(q)
           /\ raced' = raced \cup SharedWith(p, {proc[p].id})
           /\ DOMAIN proc' = Procs /\ \A q \in Procs \ {p} : proc'[q] = proc[q]
           /\ DOMAIN proc'[p] = DOMAIN proc[p] \cup {"writes", "pc"}
           /\ \A c \in DOMAIN proc[p] \ {"writes", "pc"} : proc'[p][c] = proc[p][c]
           /\ DOMAIN proc'[p].writes = DOMAIN proc[p].writes \cup {proc[p].id}
           /\ proc'[p].writes[proc[p].id] = proc[p].patch
           /\ \A i \in DOMAIN proc[p].writes \ {proc[p].id} : proc'[p].writes[i] = proc[p].writes[i]
           /\ proc[p].for = "insert" => proc'[p].pc = "insert_next"
           /\ proc[p].for = "delete" => proc'[p].pc = "previous"
           /\ proc[p].for \notin {"insert", "delete"} => proc'[p].pc = "commit"
<1>1. PICK writes : writes = [i \in DOMAIN proc[p].writes \cup {proc[p].id} |->
                                IF i = proc[p].id THEN proc[p].patch ELSE proc[p].writes[i]]
  OBVIOUS
<1>2. PICK pc : pc = CASE proc[p].for = "insert" -> "insert_next"
                       [] proc[p].for = "delete" -> "previous"
                       [] OTHER -> "commit"
  OBVIOUS
<1>3. Set(p, [writes |-> writes, pc |-> pc])
  BY <1>1, <1>2 DEF Write
<1>4. /\ DOMAIN proc' = Procs /\ \A q \in Procs \ {p} : proc'[q] = proc[q]
      /\ DOMAIN proc'[p] = DOMAIN proc[p] \cup {"writes", "pc"}
      /\ proc'[p].writes = writes /\ proc'[p].pc = pc
      /\ \A c \in DOMAIN proc[p] \ {"writes", "pc"} : proc'[p][c] = proc[p][c]
  BY <1>3, SetOnly
<1>5. /\ proc[p].for = "insert" => pc = "insert_next"
      /\ proc[p].for = "delete" => pc = "previous"
      /\ proc[p].for \notin {"insert", "delete"} => pc = "commit"
  BY <1>2
<1>6. /\ DOMAIN writes = DOMAIN proc[p].writes \cup {proc[p].id}
      /\ writes[proc[p].id] = proc[p].patch
      /\ \A i \in DOMAIN proc[p].writes \ {proc[p].id} : writes[i] = proc[p].writes[i]
  BY <1>1
<1>7. /\ proc[p].pc = "write" /\ UNCHANGED <<pay, trail, today, moved>>
      /\ \A q \in Procs \ {p} : proc[p].id \notin Written(q)
      /\ raced' = raced \cup SharedWith(p, {proc[p].id})
  BY DEF Write
<1> QED BY <1>4, <1>5, <1>6, <1>7

\* A handler that writes no row of the table, whoever else was saving one.
LEMMA SameRowsType ==
    ASSUME TypeInv, NEW p \in Procs, UNCHANGED <<pay, trail, today, moved>>, raced' \subseteq Ids,
           DOMAIN proc' = Procs, \A q \in Procs \ {p} : proc'[q] = proc[q], HandlerOK(p)'
    PROVE  TypeInv'
<1>1. RowsKept
  BY PayConstants DEF TypeInv, TablesOK, RowsKept, Days
<1>2. \A q \in Procs \ {p} : HandlerOK(q)'
  BY <1>1, OtherHandler DEF TypeInv
<1>3. TablesOK'
  BY DEF TypeInv, TablesOK
<1> QED BY <1>2, <1>3 DEF TypeInv

\* A statement of the transaction joins what will be committed.
LEMMA TypeWrite ==
    ASSUME TypeInv, NEW p \in Procs, Write(p)
    PROVE  TypeInv'
<1>1. /\ HandlerOK(p) /\ HoldsSave(p) /\ HoldsWrites(p) /\ proc[p].pc = "write"
      /\ DOMAIN proc = Procs /\ raced \subseteq Ids
  BY DEF TypeInv, TablesOK, HandlerOK, Write, Steps, Saves
<1> DEFINE W == proc'[p].writes
<1>2. /\ UNCHANGED <<pay, trail, today, moved>>
      /\ raced' = raced \cup SharedWith(p, {proc[p].id})
      /\ DOMAIN proc' = Procs /\ \A q \in Procs \ {p} : proc'[q] = proc[q]
      /\ DOMAIN proc'[p] = DOMAIN proc[p] \cup {"writes", "pc"}
      /\ \A c \in DOMAIN proc[p] \ {"writes", "pc"} : proc'[p][c] = proc[p][c]
      /\ DOMAIN W = DOMAIN proc[p].writes \cup {proc[p].id}
      /\ W[proc[p].id] = proc[p].patch
      /\ \A i \in DOMAIN proc[p].writes \ {proc[p].id} : W[i] = proc[p].writes[i]
      /\ proc[p].for = "insert" => proc'[p].pc = "insert_next"
      /\ proc[p].for = "delete" => proc'[p].pc = "previous"
      /\ proc[p].for \notin {"insert", "delete"} => proc'[p].pc = "commit"
  BY <1>1, WriteStep
<1>3. raced' \subseteq Ids
  BY <1>1, <1>2 DEF SharedWith, HoldsSave
<1>4. \A i \in DOMAIN W : i \in Ids /\ PayPatch(W[i], today) /\ Started(pay[i], today)
  BY <1>1, <1>2 DEF HoldsSave, HoldsWrites
<1>5. HoldsWrites(p)'
  BY <1>1, <1>2, <1>4 DEF HoldsWrites
<1>6. /\ {"id", "for"} \subseteq DOMAIN proc'[p] /\ proc'[p].for = proc[p].for /\ proc'[p].id = proc[p].id
      /\ proc[p].for \in {"insert", "update", "delete", "reactivate"}
  BY <1>1, <1>2 DEF HoldsSave
<1>7. proc[p].for = "insert" => HoldsRate(p)'
  BY <1>1, <1>2 DEF HandlerOK, Sets, HoldsRate, Saves
<1>8. proc[p].for \in {"delete", "reactivate"} => HoldsGone(p)'
  BY <1>1, <1>2, <1>6 DEF HandlerOK, Deletes, HoldsGone, Saves
<1> HIDE DEF W
<1>9. HandlerOK(p)'
  BY <1>2, <1>5, <1>6, <1>7, <1>8 DEF HandlerOK, Sets, Deletes, Steps, Saves
<1> QED BY <1>2, <1>3, <1>9, SameRowsType

\* The rate before the deleted one.
LEMMA PreviousCases ==
    ASSUME NEW p \in Procs, ReactivatePrevious(p)
    PROVE  LET prior == FindPrevious(proc[p].read.emp, proc[p].read.from, {proc[p].gone}) IN
           /\ proc[p].pc = "previous" /\ Quiet
           /\ \/ prior = {} /\ Set(p, [pc |-> "commit"])
              \/ \E id \in prior : Set(p, [pc |-> "load", for |-> "reactivate", id |-> id,
                                           patch |-> [to |-> None]])
BY DEF ReactivatePrevious, Quiet

\* A deletion looks for the rate before the deleted one.
LEMMA TypePrevious ==
    ASSUME TypeInv, NEW p \in Procs, ReactivatePrevious(p)
    PROVE  TypeInv'
<1> DEFINE prior == FindPrevious(proc[p].read.emp, proc[p].read.from, {proc[p].gone})
<1>1. /\ HandlerOK(p) /\ HoldsGone(p) /\ HoldsWrites(p) /\ proc[p].pc = "previous" /\ Quiet
      /\ proc[p].for = "delete"
  BY PreviousCases DEF TypeInv, TablesOK, HandlerOK, Steps, Saves, Deletes
<1>2. CASE Set(p, [pc |-> "commit"])
  <2> DEFINE r == [pc |-> "commit"]
  <2>1. ASSUME DOMAIN proc'[p] = DOMAIN proc[p] \cup DOMAIN r,
               \A c \in DOMAIN r : proc'[p][c] = r[c],
               \A c \in DOMAIN proc[p] \ DOMAIN r : proc'[p][c] = proc[p][c]
        PROVE  HandlerOK(p)'
    <3>1. HoldsWrites(p)' /\ HoldsGone(p)' /\ proc'[p].pc = "commit" /\ proc'[p].for = "delete"
      BY <1>1, <2>1 DEF HoldsWrites, HoldsGone, Quiet
    <3> QED BY <3>1 DEF HandlerOK, Sets, Steps, Saves, HoldsGone
  <2> QED BY <1>1, <1>2, <2>1, SetType
<1>3. ASSUME NEW id \in prior, Set(p, [pc |-> "load", for |-> "reactivate", id |-> id,
                                      patch |-> [to |-> None]])
      PROVE  TypeInv'
  <2> DEFINE r == [pc |-> "load", for |-> "reactivate", id |-> id, patch |-> [to |-> None]]
  <2>1. id \in Ids /\ Started(pay[id], today)
    BY DEF FindPrevious, RowsOf, Standing, TypeInv, TablesOK
  <2>2. PayPatch([to |-> None], today)
    BY DEF PayPatch
  <2>3. ASSUME DOMAIN proc'[p] = DOMAIN proc[p] \cup DOMAIN r,
               \A c \in DOMAIN r : proc'[p][c] = r[c],
               \A c \in DOMAIN proc[p] \ DOMAIN r : proc'[p][c] = proc[p][c]
        PROVE  HandlerOK(p)'
    <3>1. HoldsWrites(p)'
      BY <1>1, <2>3 DEF HoldsWrites, Quiet
    <3>2. HoldsSave(p)'
      BY <1>1, <2>1, <2>2, <2>3 DEF HoldsSave, Quiet
    <3>3. HoldsGone(p)'
      BY <1>1, <2>3 DEF HoldsGone, Quiet
    <3> QED BY <2>3, <3>1, <3>2, <3>3 DEF HandlerOK, Sets, Steps, Saves
  <2> QED BY <1>1, <1>3, <2>3, SetType
<1> QED BY <1>2, <1>3, PreviousCases
-----------------------------------------------------------------------------
(***************************************************************************)
(* The commit: each row is rewritten, inserted or left alone.              *)
(***************************************************************************)
Corrects(p) == proc[p].pc = "commit" /\ proc[p].for = "update"
Rewritten(p, id) == Patched(pay[id], proc[p].writes[id])

Commits(p) ==
    /\ Storable(pay')
    /\ pay' = [id \in Ids |-> pay'[id]] /\ trail' = [id \in Ids |-> trail'[id]]
    /\ \A id \in Written(p) : pay'[id] = Rewritten(p, id)
    /\ \A id \in Ids \ Written(p) :
        pay'[id] = pay[id] \/ (pay[id] = None /\ pay'[id] \in proc[p].inserts)
    /\ \A row \in proc[p].inserts : \E id \in Ids : pay[id] = None /\ pay'[id] = row
    /\ \A id \in Ids : trail'[id] = IF \/ pay[id] = None /\ pay'[id] # None
                                       \/ id \in Written(p) /\ Corrects(p)
                                    THEN AfterColumns(pay'[id]) ELSE trail[id]
    /\ moved' = moved \cup {pay'[id].emp : id \in
                              {i \in Written(p) : Shifted(pay[i], pay'[i], Corrects(p))}}
    /\ raced' = raced \cup SharedWith(p, Written(p))

\* A transaction commits all of its writes or leaves nothing.
LEMMA CommitCases ==
    ASSUME TypeInv, NEW p \in Procs, Commit(p)
    PROVE  /\ Ready(p) /\ HoldsWrites(p) /\ Written(p) = DOMAIN proc[p].writes
           /\ Finish(p) /\ today' = today
           /\ Commits(p) \/ UNCHANGED <<pay, trail, moved, raced>>
<1>1. Ready(p) /\ Finish(p) /\ today' = today
  BY DEF Commit
<1>2. HoldsWrites(p)
  BY <1>1 DEF TypeInv, HandlerOK, Ready, Steps
<1>3. Written(p) = DOMAIN proc[p].writes /\ Written(p) \subseteq Ids
  BY <1>2 DEF HoldsWrites, Written
<1>4. PICK f \in Orders(p) :
        LET table == [id \in Ids |-> IF id \in DOMAIN f THEN f[id] ELSE Updated(p)[id]]
            corrects == proc[p].pc = "commit" /\ proc[p].for = "update"
            shifted  == {id \in Written(p) : Shifted(pay[id], table[id], corrects)}
        IN IF Storable(table)
           THEN /\ pay' = table
                /\ trail' = [id \in Ids |->
                               CASE id \in DOMAIN f -> AfterColumns(table[id])
                                 [] id \in Written(p) /\ corrects -> Audited(id, table)
                                 [] OTHER -> trail[id]]
                /\ moved' = moved \cup {table[id].emp : id \in shifted}
                /\ raced' = raced \cup SharedWith(p, Written(p))
           ELSE UNCHANGED <<pay, trail, moved, raced>>
  BY DEF Commit
<1>5. PICK table : table = [id \in Ids |-> IF id \in DOMAIN f THEN f[id] ELSE Updated(p)[id]]
  OBVIOUS
<1>6. CASE ~ Storable(table)
  BY <1>1, <1>2, <1>3, <1>4, <1>5, <1>6
<1>7. CASE Storable(table)
  <2>1. /\ pay' = table
        /\ trail' = [id \in Ids |->
                       CASE id \in DOMAIN f -> AfterColumns(table[id])
                         [] id \in Written(p) /\ Corrects(p) -> Audited(id, table)
                         [] OTHER -> trail[id]]
        /\ moved' = moved \cup {table[id].emp : id \in
                                  {i \in Written(p) : Shifted(pay[i], table[i], Corrects(p))}}
        /\ raced' = raced \cup SharedWith(p, Written(p))
    BY <1>4, <1>5, <1>7 DEF Corrects
  <2>2. /\ f \in [DOMAIN f -> proc[p].inserts]
        /\ \A id \in DOMAIN f : id \in Ids /\ pay[id] = None
        /\ \A row \in proc[p].inserts : \E id \in DOMAIN f : f[id] = row
    BY DEF Orders, FreeIds
  <2>3. \A id \in Written(p) : pay[id] # None
    BY <1>2, <1>3, PayRecords DEF HoldsWrites, Started
  <2>4. \A row \in proc[p].inserts : row # None
    BY <1>2, PayRecords DEF HoldsWrites, OpenRate, Started
  <2>5. \A id \in Written(p) : table[id] = Rewritten(p, id)
    BY <1>3, <1>5, <2>2, <2>3 DEF Updated, Rewritten
  <2>6. \A id \in Ids \ Written(p) :
          IF id \in DOMAIN f THEN pay[id] = None /\ table[id] = f[id] /\ f[id] \in proc[p].inserts
          ELSE table[id] = pay[id]
    BY <1>5, <2>2 DEF Updated
  <2>7. ASSUME NEW row \in proc[p].inserts PROVE \E id \in Ids : pay[id] = None /\ table[id] = row
    <3>1. PICK id \in DOMAIN f : f[id] = row
      BY <2>2
    <3> QED BY <1>5, <2>2, <3>1
  <2>8. ASSUME NEW id \in Ids
        PROVE  trail'[id] = IF \/ pay[id] = None /\ table[id] # None
                               \/ id \in Written(p) /\ Corrects(p)
                            THEN AfterColumns(table[id]) ELSE trail[id]
    <3>1. id \in DOMAIN f <=> pay[id] = None /\ table[id] # None
      BY <1>5, <2>2, <2>3, <2>4, <2>6
    <3> QED BY <2>1, <3>1 DEF Audited
  <2>9. table = [id \in Ids |-> table[id]] /\ trail' = [id \in Ids |-> trail'[id]]
    BY <1>5, <2>1
  <2>10. Commits(p)
    <3> HIDE DEF Storable
    <3> QED BY <1>7, <2>1, <2>5, <2>6, <2>7, <2>8, <2>9 DEF Commits
  <2> QED BY <1>1, <1>2, <1>3, <2>10
<1> QED BY <1>6, <1>7

\* What is committed is a row, of the employee it was of.
LEMMA CommitRows ==
    ASSUME TypeInv, NEW p \in Procs, Commit(p), Commits(p)
    PROVE  /\ \A id \in Ids : pay'[id] # None => Started(pay'[id], today)
           /\ \A id \in Ids : pay[id] # None => pay'[id] # None /\ pay'[id].emp = pay[id].emp
<1>1. HoldsWrites(p) /\ Written(p) = DOMAIN proc[p].writes /\ today \in Int
  BY CommitCases, PayConstants DEF TypeInv, TablesOK, Days
<1>2. ASSUME NEW id \in Written(p) PROVE Started(pay'[id], today) /\ pay'[id].emp = pay[id].emp
  BY <1>1, PatchedRow DEF HoldsWrites, Commits, Rewritten
<1>3. ASSUME NEW id \in Ids \ Written(p)
      PROVE  /\ pay'[id] # None => Started(pay'[id], today)
             /\ pay[id] # None => pay'[id] = pay[id]
  BY <1>1, <1>3 DEF Commits, HoldsWrites, OpenRate, TypeInv, TablesOK
<1>4. \A id \in Written(p) : pay'[id] # None
  BY <1>2, PayRecords DEF Started
<1> QED BY <1>2, <1>3, <1>4

\* The commit keeps the types, and every row that was there.
LEMMA TypeCommit ==
    ASSUME TypeInv, NEW p \in Procs, Commit(p)
    PROVE  TypeInv' /\ RowsKept
<1>1. TablesOK /\ DOMAIN proc = Procs /\ Finish(p) /\ today' = today /\ today \in Int
  BY CommitCases, PayConstants DEF TypeInv, TablesOK, Days
<1>2. HandlerOK(p)' /\ DOMAIN proc' = Procs /\ \A q \in Procs \ {p} : proc'[q] = proc[q]
  BY <1>1, FinishOK
<1>3. CASE UNCHANGED <<pay, trail, moved, raced>>
  BY <1>1, <1>2, <1>3, QuietType, QuietKeeps DEF Quiet
<1>4. CASE Commits(p)
  <2>1. HoldsWrites(p) /\ Written(p) \subseteq Ids
    BY CommitCases DEF HoldsWrites
  <2>2. /\ \A id \in Ids : pay'[id] # None => Started(pay'[id], today)
        /\ \A id \in Ids : pay[id] # None => pay'[id] # None /\ pay'[id].emp = pay[id].emp
    BY <1>4, CommitRows
  <2>3. RowsKept
    BY <1>1, <2>2, PayRecords DEF RowsKept, Started
  <2>4. pay' \in [Ids -> PayRow \cup {None}]
    <3>1. pay' = [id \in Ids |-> pay'[id]]
      BY <1>4 DEF Commits
    <3> QED BY <2>2, <3>1 DEF Started
  <2>5. \A row \in PayRow : AfterColumns(row) \in AuditRow
    BY DEF PayRow, AfterColumns, AuditRow
  <2>6. trail' \in [Ids -> AuditRow \cup {None}]
    <3>1. ASSUME NEW id \in Ids PROVE trail'[id] \in AuditRow \cup {None}
      <4>1. id \in Written(p) => pay'[id] \in PayRow
        BY <1>4, <2>1, <2>2, PayRecords DEF HoldsWrites, Started, Written
      <4>2. pay'[id] # None => pay'[id] \in PayRow
        BY <2>2 DEF Started
      <4>3. \/ trail'[id] = trail[id]
            \/ trail'[id] = AfterColumns(pay'[id]) /\ pay'[id] \in PayRow
        BY <1>4, <4>1, <4>2 DEF Commits
      <4> QED BY <1>1, <2>5, <4>3 DEF TablesOK
    <3>2. trail' = [id \in Ids |-> trail'[id]]
      BY <1>4 DEF Commits
    <3> QED BY <3>1, <3>2
  <2>7. moved' \subseteq Employees
    <3>1. \A id \in Written(p) : pay'[id].emp \in Employees
      BY <2>1, <2>2, PayRecords DEF HoldsWrites, Started, Written, PayRow
    <3> QED BY <1>1, <1>4, <3>1 DEF Commits, TablesOK
  <2>8. raced' \subseteq Ids
    BY <1>1, <1>4, <2>1 DEF Commits, TablesOK, SharedWith
  <2>9. \A q \in Procs \ {p} : HandlerOK(q)'
    BY <1>2, <2>3, OtherHandler DEF TypeInv
  <2> QED BY <1>1, <1>2, <2>2, <2>3, <2>4, <2>6, <2>7, <2>8, <2>9 DEF TypeInv, TablesOK
<1> QED BY <1>3, <1>4, CommitCases

\* Every step keeps tables and handlers in their types.
LEMMA TypeStep == TypeInv /\ [Next]_vars => TypeInv'
<1> SUFFICES ASSUME TypeInv, [Next]_vars PROVE TypeInv'
  OBVIOUS
<1>1. ASSUME NEW p \in Procs, Request(p) PROVE TypeInv'
  BY <1>1, TypeSetPay, TypeUpdate, TypeSoftDelete DEF Request
<1>2. ASSUME NEW p \in Procs, TransactionStep(p) PROVE TypeInv'
  <2>1. CASE RollBack(p)
    BY <2>1, FinishType DEF RollBack, Quiet
  <2> QED BY <1>2, <2>1, TypeInsertNext, TypeLoad, TypeDiff, TypeWrite, TypePrevious, TypeCommit
          DEF TransactionStep
<1>3. CASE NextDay
  <2>1. today' \in Days /\ RowsKept
    <3>1. today \in Int /\ today' = today + 1 /\ today < MaxDay /\ UNCHANGED <<pay, proc>>
      BY <1>3, PayConstants DEF NextDay, TypeInv, TablesOK, Days
    <3>2. \A row : Started(row, today) => Started(row, today')
      BY <3>1, LaterDay
    <3> QED BY <3>1, <3>2, PayConstants DEF TypeInv, TablesOK, Days, RowsKept
  <2>2. \A q \in Procs : HandlerOK(q)'
    BY <1>3, <2>1, OtherHandler DEF NextDay, TypeInv
  <2> QED BY <1>3, <2>1, <2>2, PayRecords DEF NextDay, TypeInv, TablesOK, RowsKept
<1>4. CASE UNCHANGED vars
  <2>1. \A q \in Procs : HandlerOK(q)'
    BY <1>4, QuietKeeps, OtherHandler DEF vars, TypeInv, Quiet
  <2> QED BY <1>4, <2>1 DEF vars, TypeInv, TablesOK
<1> QED BY <1>1, <1>2, <1>3, <1>4 DEF Next

\* Nothing is stored and nobody is served at first.
LEMMA TypeInit == Init => TypeInv
BY PayConstants DEF Init, TypeInv, TablesOK, HandlerOK, Idle, Steps, Saves, Sets, Deletes, Days
-----------------------------------------------------------------------------
(***************************************************************************)
(* The index: only a commit writes employee_compensations, and what it     *)
(* writes meets the constraints of the table.                              *)
(***************************************************************************)
OneOpen(table) ==
    LET active == {id \in Present(table, None) : ~ table[id].deleted /\ table[id].to = None} IN
    \A i, j \in active : i # j => table[i].emp # table[j].emp
OrderedRows(table) ==
    \A id \in Present(table, None) : table[id].to # None => table[id].to >= table[id].from
Constraints == OneOpen(pay) /\ OrderedRows(pay)

\* No step but a commit touches the rows.
LEMMA OnlyCommits ==
    ASSUME [Next]_vars
    PROVE  UNCHANGED <<pay, trail, moved>> \/ \E p \in Procs : Commit(p)
BY DEF Next, Request, TransactionStep, SetPay, Update, SoftDelete, InsertNext, Load, Diff, Write,
       ReactivatePrevious, RollBack, NextDay, vars

\* Only a commit writes the table, and it meets the index and the CHECK.
LEMMA IndexStep == TypeInv /\ Constraints /\ [Next]_vars => Constraints'
<1> SUFFICES ASSUME TypeInv, Constraints, [Next]_vars PROVE Constraints'
  OBVIOUS
<1>1. CASE pay' = pay
  BY <1>1 DEF Constraints
<1>2. ASSUME NEW p \in Procs, Commit(p), pay' # pay PROVE Constraints'
  <2>1. Storable(pay')
    BY <1>2, CommitCases DEF Commits
  <2> QED BY <2>1 DEF Storable, Constraints, OneOpen, OrderedRows
<1> QED BY <1>1, <1>2, OnlyCommits

\* The table meets its constraints at first.
LEMMA IndexInit == Init => Constraints
BY DEF Init, Constraints, OneOpen, OrderedRows, Present

\* The inductive invariant of types, constraints and handlers.
IndInv == TypeInv /\ Constraints /\ calls \in 0..MaxCalls

\* The invariant holds in every reachable state.
THEOREM PayInvariant == Spec => []IndInv
<1>1. Init => IndInv
  <2>1. Init => calls \in 0..MaxCalls
    BY PayConstants DEF Init
  <2> QED BY <2>1, TypeInit, IndexInit DEF IndInv
<1>2. IndInv /\ [Next]_vars => IndInv'
  <2> SUFFICES ASSUME IndInv, [Next]_vars PROVE IndInv'
    OBVIOUS
  <2>1. TypeInv' /\ Constraints'
    BY TypeStep, IndexStep DEF IndInv
  <2>2. calls' = calls \/ (calls < MaxCalls /\ calls' = calls + 1)
    BY DEF Next, Request, NextDay, vars
  <2>3. calls' \in 0..MaxCalls
    BY <2>2, PayConstants DEF IndInv
  <2> QED BY <2>1, <2>3 DEF IndInv
<1> QED BY <1>1, <1>2, PTL DEF Spec

\* Every reachable state is well typed and no rate starts in the future, whatever HR
\* enters and however pay changes, corrections and deletions interleave.
THEOREM TypeCorrect == Spec => []TypeOK
<1>1. IndInv => TypeOK
  BY DEF IndInv, TypeInv, TablesOK, TypeOK, Present, Started
<1> QED BY <1>1, PayInvariant, PTL

\* A set of ids that are all one has at most one member.
LEMMA AtMostOne ==
    ASSUME NEW S, \A i, j \in S : i = j
    PROVE  Cardinality(S) <= 1
<1>1. CASE S = {}
  BY <1>1, FS_EmptySet
<1>2. ASSUME NEW x \in S PROVE Cardinality(S) <= 1
  <2>1. S = {x}
    BY <1>2
  <2> QED BY <2>1, FS_Singleton
<1> QED BY <1>1, <1>2

\* An employee never has two open-ended rates: two set-pays, or a set-pay and the
\* reactivation of a deletion, never both commit one.
THEOREM ActiveRateUnique == Spec => []OneActiveRate
<1>1. IndInv => OneActiveRate
  <2> SUFFICES ASSUME IndInv, NEW e \in Employees PROVE Cardinality(FindActive(e)) <= 1
    BY DEF OneActiveRate
  <2>1. \A i, j \in FindActive(e) : i = j
    BY DEF IndInv, Constraints, OneOpen, Present, FindActive, RowsOf, Standing, TypeInv, TablesOK
  <2> QED BY <2>1, AtMostOne
<1> QED BY <1>1, PayInvariant, PTL
-----------------------------------------------------------------------------
(***************************************************************************)
(* Rates and audits.  What a handler will write follows the salary, and    *)
(* leaves alone what the audit shows unless it writes an audit itself: for *)
(* a row nobody else saves, the patch is laid over the row it was made     *)
(* for.                                                                    *)
(***************************************************************************)
Fits(row, patch)   == Follows(Patched(row, patch))
Unseen(row, patch) == AfterColumns(Patched(row, patch)) = AfterColumns(row)

Sound(p) ==
    /\ proc[p].pc \in Saves =>
        /\ proc[p].id \notin raced =>
            /\ Fits(pay[proc[p].id], proc[p].patch)
            /\ proc[p].for = "update" \/ Unseen(pay[proc[p].id], proc[p].patch)
        /\ proc[p].for = "update" => DOMAIN proc[p].writes = {}
    /\ proc[p].pc \in Steps =>
        /\ \A i \in DOMAIN proc[p].writes \ raced :
            Fits(pay[i], proc[p].writes[i]) /\ (Corrects(p) \/ Unseen(pay[i], proc[p].writes[i]))
        /\ \A row \in proc[p].inserts : Follows(row)
    /\ Sets(p) => Follows(proc[p].rate)

RowsSound ==
    \A id \in Ids \ raced :
        pay[id] # None => Follows(pay[id]) /\ trail[id] = AfterColumns(pay[id])

ColumnsInv == RowsSound /\ \A p \in Procs : Sound(p)

\* A patch of the end or of the deletion leaves the rate and the audit alone.
LEMMA DatesFit ==
    ASSUME NEW row \in PayRow, Follows(row), NEW patch, DOMAIN patch \subseteq {"to", "deleted"}
    PROVE  Fits(row, patch) /\ Unseen(row, patch)
<1>1. \A c \in {"monthly", "hourly", "overridden", "from"} : Patched(row, patch)[c] = row[c]
  BY DEF Patched, PayRow
<1> QED BY <1>1 DEF Fits, Unseen, Follows, AfterColumns

\* A handler that waits stays sound: a row it saves and another writes is raced.
LEMMA OtherSound ==
    ASSUME NEW q \in Procs, proc'[q] = proc[q], Sound(q), HandlerOK(q), raced \subseteq raced',
           \A id \in Ids \ raced' : Saving(q, id) => pay'[id] = pay[id]
    PROVE  Sound(q)'
<1>1. /\ Sets(q)' = Sets(q) /\ Corrects(q)' = Corrects(q)
  BY DEF Sets, Corrects
<1>2. ASSUME proc[q].pc \in Saves, proc[q].id \notin raced'
      PROVE  /\ Fits(pay'[proc[q].id], proc[q].patch)
             /\ proc[q].for = "update" \/ Unseen(pay'[proc[q].id], proc[q].patch)
  BY <1>2 DEF Sound, HandlerOK, HoldsSave, Saving, Saves
<1>3. ASSUME proc[q].pc \in Steps, NEW i \in DOMAIN proc[q].writes \ raced'
      PROVE  Fits(pay'[i], proc[q].writes[i]) /\ (Corrects(q) \/ Unseen(pay'[i], proc[q].writes[i]))
  <2>1. i \in Ids /\ Saving(q, i)
    BY <1>3 DEF HandlerOK, HoldsWrites, Saving, Written
  <2> QED BY <1>3, <2>1 DEF Sound
<1> QED BY <1>1, <1>2, <1>3 DEF Sound

\* A step of one handler that commits nothing.
LEMMA SoundStep ==
    ASSUME TypeInv, ColumnsInv, NEW p \in Procs, UNCHANGED <<pay, trail>>, raced \subseteq raced',
           \A q \in Procs \ {p} : proc'[q] = proc[q], Sound(p)'
    PROVE  ColumnsInv'
<1>1. \A q \in Procs \ {p} : Sound(q)'
  BY OtherSound DEF ColumnsInv, TypeInv
<1>2. RowsSound'
  BY DEF ColumnsInv, RowsSound
<1> QED BY <1>1, <1>2 DEF ColumnsInv

\* A handler that moves, or sets some fields, without writing.
LEMMA GotoSound ==
    ASSUME TypeInv, ColumnsInv, NEW p \in Procs, NEW r, Goto(p, r), Quiet, proc'[p] = r => Sound(p)'
    PROVE  ColumnsInv'
BY GotoOnly, SoundStep DEF TypeInv, TablesOK, Quiet

\* Rates and audits, for a step that sets some fields of one handler.
LEMMA SetSound ==
    ASSUME TypeInv, ColumnsInv, NEW p \in Procs, NEW r, Set(p, r), Quiet,
           ASSUME DOMAIN proc'[p] = DOMAIN proc[p] \cup DOMAIN r,
                  \A c \in DOMAIN r : proc'[p][c] = r[c],
                  \A c \in DOMAIN proc[p] \ DOMAIN r : proc'[p][c] = proc[p][c]
           PROVE  Sound(p)'
    PROVE  ColumnsInv'
BY SetOnly, SoundStep DEF TypeInv, TablesOK, Quiet

\* Rates and audits, when a handler ends without writing.
LEMMA FinishSound ==
    ASSUME TypeInv, ColumnsInv, NEW p \in Procs, Finish(p), Quiet
    PROVE  ColumnsInv'
<1>1. proc'[p] = Idle => Sound(p)'
  BY DEF Idle, Sound, Steps, Saves, Sets
<1> QED BY <1>1, GotoSound DEF Finish

\* What requests begin with is sound.
LEMMA SoundRequest ==
    ASSUME TypeInv, ColumnsInv, NEW p \in Procs, Request(p)
    PROVE  ColumnsInv'
<1>1. ASSUME NEW emps \in BulkSets, NEW m \in Salaries, NEW h \in Optional(Rates), NEW from \in Days,
             SetPay(p, emps, m, h, from)
      PROVE  ColumnsInv'
  <2>1. Follows(PayRate(m, h))
    BY PayConstants, PayRateOK DEF Optional
  <2> DEFINE r == [pc |-> "insert_next", todo |-> emps, rate |-> PayRate(m, h), from |-> from,
                   writes |-> NoWrites, inserts |-> {}]
  <2>2. proc'[p] = r => Sound(p)'
    BY <2>1 DEF Sound, Saves, Steps, NoWrites
  <2> QED BY <1>1, <2>2, GotoSound DEF SetPay, Quiet
<1>2. ASSUME NEW id \in Ids, NEW m \in Optional(Salaries), NEW h \in Optional(Rates),
             NEW from \in Optional(Days), Update(p, id, m, h, from)
      PROVE  ColumnsInv'
  <2>1. /\ Started(pay[id], today) /\ today \in Int
        /\ m \in Nat \cup {None} /\ h \in Nat \cup {None} /\ from \in Int \cup {None}
        /\ (from # None => from <= today)
    BY <1>2, PayConstants DEF TypeInv, TablesOK, Update, Standing, Optional, Days, NotFuture
  <2>2. PICK patch : patch = Correction(pay[id], m, h, from)
    OBVIOUS
  <2>3. id \notin raced => Follows(Patched(pay[id], patch))
    BY <1>2, <2>1, <2>2, CorrectionOK DEF ColumnsInv, RowsSound, Update, Standing
  <2> DEFINE r == [pc |-> "load", for |-> "update", id |-> id, writes |-> NoWrites, inserts |-> {},
                   patch |-> patch]
  <2>4. proc'[p] = r => Sound(p)'
    BY <1>2, <2>3 DEF Sound, Saves, Steps, Sets, NoWrites, Fits, Update
  <2> QED BY <1>2, <2>2, <2>4, GotoSound DEF Update, Quiet
<1>3. ASSUME NEW id \in Ids, SoftDelete(p, id) PROVE ColumnsInv'
  <2>1. pay[id] \in PayRow /\ (id \notin raced => Follows(pay[id]))
    BY <1>3 DEF TypeInv, TablesOK, Started, SoftDelete, Standing, ColumnsInv, RowsSound
  <2>2. id \notin raced => Fits(pay[id], [deleted |-> TRUE]) /\ Unseen(pay[id], [deleted |-> TRUE])
    BY <2>1, DatesFit
  <2> DEFINE r == [pc |-> "load", for |-> "delete", id |-> id, gone |-> id, read |-> pay[id],
                   writes |-> NoWrites, inserts |-> {}, patch |-> [deleted |-> TRUE]]
  <2>3. proc'[p] = r => Sound(p)'
    BY <1>3, <2>2 DEF Sound, Saves, Steps, Sets, NoWrites, SoftDelete
  <2> QED BY <1>3, <2>3, GotoSound DEF SoftDelete, Quiet
<1> QED BY <1>1, <1>2, <1>3 DEF Request

\* The rates of a set-pay follow its salary, and ending a rate leaves it alone.
LEMMA SoundInsertNext ==
    ASSUME TypeInv, ColumnsInv, NEW p \in Procs, InsertNext(p)
    PROVE  ColumnsInv'
<1>1. /\ HoldsWrites(p) /\ HoldsRate(p) /\ proc[p].pc = "insert_next" /\ Quiet
      /\ Follows(proc[p].rate) /\ \A row \in proc[p].inserts : Follows(row)
      /\ \A i \in DOMAIN proc[p].writes \ raced :
            Fits(pay[i], proc[p].writes[i]) /\ Unseen(pay[i], proc[p].writes[i])
  BY InsertNextCases
     DEF TypeInv, HandlerOK, Steps, Sets, ColumnsInv, Sound, Corrects
<1>2. PICK e \in proc[p].todo :
        \/ FindActive(e) = {} /\ Adding(p, e)
        \/ Finish(p)
        \/ \E id \in FindActive(e) : ~ (proc[p].from <= pay[id].from) /\ Ending(p, e, id)
  BY InsertNextCases
<1>3. PICK inserts : inserts = proc[p].inserts \cup {NewRate(e, proc[p].rate, proc[p].from)}
  OBVIOUS
<1>4. \A row \in inserts : Follows(row)
  BY <1>1, <1>3 DEF NewRate, Follows
<1>5. CASE Adding(p, e)
  <2> DEFINE r == [todo |-> proc[p].todo \ {e}, inserts |-> inserts]
  <2>1. ASSUME DOMAIN proc'[p] = DOMAIN proc[p] \cup DOMAIN r,
               \A c \in DOMAIN r : proc'[p][c] = r[c],
               \A c \in DOMAIN proc[p] \ DOMAIN r : proc'[p][c] = proc[p][c]
        PROVE  Sound(p)'
    <3>1. /\ proc'[p].pc = "insert_next" /\ proc'[p].inserts = inserts
          /\ proc'[p].writes = proc[p].writes /\ proc'[p].rate = proc[p].rate
      BY <1>1, <2>1 DEF HoldsWrites, HoldsRate
    <3> QED BY <1>1, <1>4, <3>1 DEF Sound, Saves, Corrects, Quiet
  <2> QED BY <1>1, <1>3, <1>5, <2>1, SetSound DEF Adding
<1>6. ASSUME NEW id \in FindActive(e), Ending(p, e, id) PROVE ColumnsInv'
  <2>1. id \in Ids /\ pay[id] \in PayRow /\ (id \notin raced => Follows(pay[id]))
    BY DEF FindActive, RowsOf, Standing, TypeInv, TablesOK, ColumnsInv, RowsSound
  <2>2. id \notin raced => /\ Fits(pay[id], [to |-> EndedBefore(proc[p].from)])
                           /\ Unseen(pay[id], [to |-> EndedBefore(proc[p].from)])
    BY <2>1, DatesFit
  <2> DEFINE r == [pc |-> "load", for |-> "insert", id |-> id, rate |-> proc[p].rate,
                   from |-> proc[p].from, writes |-> proc[p].writes, todo |-> proc[p].todo \ {e},
                   inserts |-> inserts, patch |-> [to |-> EndedBefore(proc[p].from)]]
  <2>3. proc'[p] = r => Sound(p)'
    BY <1>1, <1>4, <2>2 DEF Sound, Saves, Corrects, Quiet
  <2> QED BY <1>1, <1>3, <1>6, <2>3, GotoSound DEF Ending
<1> QED BY <1>1, <1>2, <1>5, <1>6, FinishSound

\* Loading and comparing change nothing of what the patch makes of the row.
LEMMA NextSaveSound ==
    ASSUME TypeInv, ColumnsInv, NEW p \in Procs, proc[p].pc \in Saves, Quiet,
           NEW pc \in {"diff", "write"}, NEW patch,
           Patched(pay[proc[p].id], patch) = Patched(pay[proc[p].id], proc[p].patch),
           Set(p, [pc |-> pc, patch |-> patch])
    PROVE  ColumnsInv'
<1>1. HoldsSave(p) /\ HoldsWrites(p) /\ Sound(p) /\ HandlerOK(p)
  BY DEF TypeInv, HandlerOK, ColumnsInv, Steps
<1> DEFINE r == [pc |-> pc, patch |-> patch]
<1>2. ASSUME DOMAIN proc'[p] = DOMAIN proc[p] \cup DOMAIN r,
             \A c \in DOMAIN r : proc'[p][c] = r[c],
             \A c \in DOMAIN proc[p] \ DOMAIN r : proc'[p][c] = proc[p][c]
      PROVE  Sound(p)'
  <2>1. /\ proc'[p].pc = pc /\ proc'[p].patch = patch /\ proc'[p].id = proc[p].id
        /\ proc'[p].for = proc[p].for /\ proc'[p].writes = proc[p].writes
        /\ proc'[p].inserts = proc[p].inserts
    BY <1>1, <1>2 DEF HoldsSave, HoldsWrites
  <2>2. Sets(p) => proc'[p].rate = proc[p].rate
    BY <1>1, <1>2 DEF HandlerOK, HoldsRate
  <2>3. Sets(p)' => Sets(p)
    BY <2>1 DEF Sets, Saves
  <2>4. ~ Corrects(p) /\ ~ Corrects(p)'
    BY <2>1 DEF Corrects, Saves
  <2>5. proc[p].id \notin raced => /\ Fits(pay[proc[p].id], patch)
                                   /\ proc[p].for = "update" \/ Unseen(pay[proc[p].id], patch)
    BY <1>1 DEF Sound, Fits, Unseen
  <2> QED BY <1>1, <2>1, <2>2, <2>3, <2>4, <2>5 DEF Sound, Steps, Quiet
<1> QED BY <1>2, SetSound

\* Load and comparison keep the patch fit for the row it was made for.
LEMMA SoundLoad ==
    ASSUME TypeInv, ColumnsInv, NEW p \in Procs, Load(p) \/ Diff(p)
    PROVE  ColumnsInv'
<1>1. /\ HoldsSave(p) /\ Quiet /\ proc[p].pc \in Saves /\ today \in Int
  BY PayConstants DEF TypeInv, TablesOK, HandlerOK, Load, Diff, Saves, Quiet, Days
<1>2. pay[proc[p].id] \in PayRow
  BY <1>1 DEF HoldsSave, Started
<1>3. CASE Load(p)
  <2>1. Patched(pay[proc[p].id], Loaded(pay[proc[p].id], proc[p].patch))
          = Patched(pay[proc[p].id], proc[p].patch)
    BY <1>1, <1>2, LoadedSame DEF HoldsSave
  <2>2. Finish(p) \/ Set(p, [pc |-> "diff", patch |-> Loaded(pay[proc[p].id], proc[p].patch)])
    BY <1>3 DEF Load
  <2> QED BY <1>1, <2>1, <2>2, NextSaveSound, FinishSound
<1>4. CASE Diff(p)
  <2>1. Patched(pay[proc[p].id], Delta(proc[p].patch, pay[proc[p].id]))
          = Patched(pay[proc[p].id], proc[p].patch)
    BY <1>1, <1>2, DeltaSame DEF HoldsSave
  <2>2. Set(p, [pc |-> "write", patch |-> Delta(proc[p].patch, pay[proc[p].id])])
    BY <1>4 DEF Diff
  <2> QED BY <1>1, <2>1, <2>2, NextSaveSound
<1> QED BY <1>3, <1>4

\* A statement that joins the transaction is as fit as its patch.
LEMMA SoundWrite ==
    ASSUME TypeInv, ColumnsInv, NEW p \in Procs, Write(p)
    PROVE  ColumnsInv'
<1>1. /\ HandlerOK(p) /\ HoldsSave(p) /\ HoldsWrites(p) /\ proc[p].pc = "write"
      /\ DOMAIN proc = Procs /\ Sound(p)
  BY DEF TypeInv, TablesOK, HandlerOK, Write, Steps, Saves, ColumnsInv
<1>2. /\ UNCHANGED <<pay, trail>> /\ raced \subseteq raced'
      /\ \A q \in Procs \ {p} : proc'[q] = proc[q]
      /\ \A c \in DOMAIN proc[p] \ {"writes", "pc"} : proc'[p][c] = proc[p][c]
      /\ DOMAIN proc'[p].writes = DOMAIN proc[p].writes \cup {proc[p].id}
      /\ proc'[p].writes[proc[p].id] = proc[p].patch
      /\ \A i \in DOMAIN proc[p].writes \ {proc[p].id} : proc'[p].writes[i] = proc[p].writes[i]
      /\ proc[p].for = "insert" => proc'[p].pc = "insert_next"
      /\ proc[p].for = "delete" => proc'[p].pc = "previous"
      /\ proc[p].for \notin {"insert", "delete"} => proc'[p].pc = "commit"
  BY <1>1, WriteStep
<1>3. proc'[p].for = proc[p].for /\ proc'[p].inserts = proc[p].inserts
  BY <1>1, <1>2 DEF HoldsSave, HoldsWrites
<1>4. Sets(p)' => Sets(p) /\ proc'[p].rate = proc[p].rate
  BY <1>1, <1>2, <1>3 DEF HandlerOK, HoldsRate, Sets, Saves, HoldsSave
<1>5. Corrects(p)' <=> proc[p].for = "update"
  BY <1>1, <1>2, <1>3 DEF Corrects, HoldsSave
<1>6. ASSUME NEW i \in DOMAIN proc'[p].writes \ raced'
      PROVE  /\ Fits(pay[i], proc'[p].writes[i])
             /\ proc[p].for = "update" \/ Unseen(pay[i], proc'[p].writes[i])
  <2>1. CASE i = proc[p].id
    BY <1>1, <1>2, <1>6, <2>1 DEF Sound, Saves
  <2>2. CASE i # proc[p].id
    BY <1>1, <1>2, <1>6, <2>2 DEF Sound, Saves, Steps, Corrects
  <2> QED BY <2>1, <2>2
<1>7. Sound(p)'
  BY <1>1, <1>2, <1>3, <1>4, <1>5, <1>6 DEF Sound, Steps, Saves
<1> QED BY <1>2, <1>7, SoundStep

\* The patch that reopens the rate before leaves salary and audit columns alone.
LEMMA SoundPrevious ==
    ASSUME TypeInv, ColumnsInv, NEW p \in Procs, ReactivatePrevious(p)
    PROVE  ColumnsInv'
<1> DEFINE prior == FindPrevious(proc[p].read.emp, proc[p].read.from, {proc[p].gone})
<1>1. /\ HoldsGone(p) /\ HoldsWrites(p) /\ proc[p].pc = "previous" /\ proc[p].for = "delete"
      /\ Sound(p) /\ Quiet
  BY PreviousCases DEF TypeInv, HandlerOK, Steps, Saves, Deletes, ColumnsInv
<1>2. ~ Corrects(p)
  BY <1>1 DEF Corrects
<1>3. CASE Set(p, [pc |-> "commit"])
  <2> DEFINE r == [pc |-> "commit"]
  <2>1. ASSUME DOMAIN proc'[p] = DOMAIN proc[p] \cup DOMAIN r,
               \A c \in DOMAIN r : proc'[p][c] = r[c],
               \A c \in DOMAIN proc[p] \ DOMAIN r : proc'[p][c] = proc[p][c]
        PROVE  Sound(p)'
    <3>1. /\ proc'[p].pc = "commit" /\ proc'[p].for = "delete"
          /\ proc'[p].writes = proc[p].writes /\ proc'[p].inserts = proc[p].inserts
      BY <1>1, <2>1 DEF HoldsWrites, HoldsGone
    <3> QED BY <1>1, <1>2, <3>1 DEF Sound, Saves, Steps, Sets, Corrects, Quiet
  <2> QED BY <1>1, <1>3, <2>1, SetSound
<1>4. ASSUME NEW id \in prior, Set(p, [pc |-> "load", for |-> "reactivate", id |-> id,
                                      patch |-> [to |-> None]])
      PROVE  ColumnsInv'
  <2> DEFINE r == [pc |-> "load", for |-> "reactivate", id |-> id, patch |-> [to |-> None]]
  <2>1. pay[id] \in PayRow /\ (id \notin raced => Follows(pay[id]))
    BY DEF FindPrevious, RowsOf, Standing, TypeInv, TablesOK, ColumnsInv, RowsSound
  <2>2. id \notin raced => Fits(pay[id], [to |-> None]) /\ Unseen(pay[id], [to |-> None])
    BY <2>1, DatesFit
  <2>3. ASSUME DOMAIN proc'[p] = DOMAIN proc[p] \cup DOMAIN r,
               \A c \in DOMAIN r : proc'[p][c] = r[c],
               \A c \in DOMAIN proc[p] \ DOMAIN r : proc'[p][c] = proc[p][c]
        PROVE  Sound(p)'
    <3>1. /\ proc'[p].pc = "load" /\ proc'[p].for = "reactivate" /\ proc'[p].id = id
          /\ proc'[p].patch = [to |-> None]
          /\ proc'[p].writes = proc[p].writes /\ proc'[p].inserts = proc[p].inserts
      BY <1>1, <2>3 DEF HoldsWrites
    <3> QED BY <1>1, <1>2, <2>2, <3>1 DEF Sound, Steps, Sets, Corrects, Quiet
  <2> QED BY <1>1, <1>4, <2>3, SetSound
<1> QED BY <1>3, <1>4, PreviousCases

\* What is committed follows its salary, and an audit is written where it would show.
LEMMA SoundCommit ==
    ASSUME TypeInv, ColumnsInv, NEW p \in Procs, Commit(p)
    PROVE  ColumnsInv'
<1>1. /\ Ready(p) /\ HoldsWrites(p) /\ Written(p) = DOMAIN proc[p].writes /\ Finish(p)
      /\ today' = today /\ DOMAIN proc = Procs /\ Sound(p) /\ proc[p].pc \in Steps
  BY CommitCases DEF TypeInv, TablesOK, ColumnsInv, Ready, Steps
<1>2. CASE UNCHANGED <<pay, trail, moved, raced>>
  BY <1>1, <1>2, FinishSound DEF Quiet
<1>3. CASE Commits(p)
  <2>1. /\ raced' = raced \cup SharedWith(p, Written(p))
        /\ \A q \in Procs \ {p} : proc'[q] = proc[q]
        /\ proc'[p] = Idle
    BY <1>1, <1>3, FinishOK DEF Commits
  <2>2. ASSUME NEW q \in Procs \ {p}, NEW id \in Ids \ raced', Saving(q, id)
        PROVE  pay'[id] = pay[id]
    <3>1. id \notin Written(p)
      BY <2>1, <2>2 DEF SharedWith
    <3>2. pay[id] # None
      <4>1. HandlerOK(q)
        BY DEF TypeInv
      <4>2. CASE id \in Written(q)
        <5>1. proc[q].pc \in Steps
          BY <4>1, <4>2 DEF HandlerOK, Written, Idle
        <5> QED BY <4>1, <4>2, <5>1, PayRecords DEF HandlerOK, HoldsWrites, Started, Written
      <4>3. CASE proc[q].pc \in Saves /\ proc[q].id = id
        BY <4>1, <4>3, PayRecords DEF HandlerOK, HoldsSave, Started
      <4> QED BY <2>2, <4>2, <4>3 DEF Saving, Saves
    <3> QED BY <1>3, <3>1, <3>2 DEF Commits
  <2>3. \A q \in Procs \ {p} : Sound(q)'
    BY <2>1, <2>2, OtherSound DEF TypeInv, ColumnsInv
  <2>4. Sound(p)'
    BY <2>1 DEF Idle, Sound, Steps, Saves, Sets
  <2>5. ASSUME NEW id \in Ids \ raced', pay'[id] # None
        PROVE  Follows(pay'[id]) /\ trail'[id] = AfterColumns(pay'[id])
    <3>1. CASE id \in Written(p)
      <4>1. pay'[id] = Patched(pay[id], proc[p].writes[id]) /\ pay[id] # None
        BY <1>1, <1>3, <3>1, PayRecords DEF Commits, Rewritten, HoldsWrites, Started
      <4>2. /\ Fits(pay[id], proc[p].writes[id])
            /\ Corrects(p) \/ Unseen(pay[id], proc[p].writes[id])
        BY <1>1, <2>1, <2>5, <3>1 DEF Sound
      <4>3. trail[id] = AfterColumns(pay[id])
        BY <2>1, <2>5, <4>1 DEF ColumnsInv, RowsSound
      <4> QED BY <1>3, <3>1, <4>1, <4>2, <4>3 DEF Commits, Fits, Unseen
    <3>2. CASE id \notin Written(p) /\ pay'[id] = pay[id]
      <4>1. trail'[id] = trail[id]
        BY <1>3, <2>5, <3>2 DEF Commits
      <4> QED BY <2>1, <2>5, <3>2, <4>1 DEF ColumnsInv, RowsSound
    <3>3. CASE pay[id] = None /\ pay'[id] \in proc[p].inserts
      BY <1>1, <1>3, <2>5, <3>3 DEF Commits, Sound
    <3> QED BY <1>3, <3>1, <3>2, <3>3 DEF Commits
  <2> QED BY <2>3, <2>4, <2>5 DEF ColumnsInv, RowsSound
<1> QED BY <1>2, <1>3, CommitCases

\* Every step keeps rates and audits sound.
LEMMA ColumnsStep == TypeInv /\ ColumnsInv /\ [Next]_vars => ColumnsInv'
<1> SUFFICES ASSUME TypeInv, ColumnsInv, [Next]_vars PROVE ColumnsInv'
  OBVIOUS
<1>1. ASSUME NEW p \in Procs, TransactionStep(p) PROVE ColumnsInv'
  <2>1. CASE RollBack(p)
    BY <2>1, FinishSound DEF RollBack, Quiet
  <2> QED BY <1>1, <2>1, SoundInsertNext, SoundLoad, SoundWrite, SoundPrevious, SoundCommit
          DEF TransactionStep
<1>2. CASE UNCHANGED <<pay, trail, proc, moved, raced>>
  BY <1>2 DEF ColumnsInv, RowsSound, Sound, Sets, Corrects
<1> QED BY <1>1, <1>2, SoundRequest DEF Next, NextDay, vars

\* Rates and audits hold at first: nothing is stored.
LEMMA ColumnsInit == Init => ColumnsInv
BY DEF Init, ColumnsInv, RowsSound, Sound, Idle, Saves, Steps, Sets

\* Every stored rate that no stale save touched follows its salary and is as its last
\* audit row says, whatever set-pays, corrections and deletions interleave.
THEOREM ColumnsInvariant == Spec => [](TypeInv /\ ColumnsInv)
<1>1. Init => TypeInv /\ ColumnsInv
  BY TypeInit, ColumnsInit
<1>2. TypeInv /\ ColumnsInv /\ [Next]_vars => (TypeInv /\ ColumnsInv)'
  BY TypeStep, ColumnsStep
<1> QED BY <1>1, <1>2, PTL DEF Spec

\* A stored rate that is no override is the rounded quotient of the stored salary,
\* whatever corrections and stale saves ran, as long as no two saved the row at once.
THEOREM RateIsDerived == Spec => []RateFollowsSalary
<1>1. TypeInv /\ ColumnsInv => RateFollowsSalary
  BY DEF ColumnsInv, RowsSound, Follows, RateFollowsSalary
<1> QED BY <1>1, ColumnsInvariant, PTL

\* The last audit row of a standing rate shows its salary, its rate and its start, unless
\* two handlers were saving the rate at once.
THEOREM AuditIsCurrent == Spec => []TrailMatchesRow
<1>1. TypeInv /\ ColumnsInv => TrailMatchesRow
  BY DEF ColumnsInv, RowsSound, TrailMatchesRow, Standing
<1> QED BY <1>1, ColumnsInvariant, PTL
-----------------------------------------------------------------------------
(***************************************************************************)
(* Dates.  As long as no start of an employee is corrected and no stale    *)
(* save revives a rate or moves an end, the rates that stand are apart and *)
(* one of them is open-ended: so an insert can only come after all of      *)
(* them, and a deletion gives the day back to the rate it was taken from.  *)
(***************************************************************************)
Apart(a, b) == (a.to # None /\ a.to < b.from) \/ (b.to # None /\ b.to < a.from)
Calm(id)    == pay[id].emp \notin moved

Sequenced(e) ==
    /\ \A i, j \in RowsOf(e) : i # j => Apart(pay[i], pay[j])
    /\ RowsOf(e) # {} => FindActive(e) # {}

\* A row that a set-pay ends: the rate that follows starts later, and is inserted.
Spares(patch)      == "deleted" \in DOMAIN patch => ~ patch.deleted
Ends(patch, from)  == Spares(patch) /\ ("to" \in DOMAIN patch => patch.to = from - 1)
Replaced(p, i) ==
    /\ pay[i].emp \notin proc[p].todo
    /\ \E row \in proc[p].inserts : row.emp = pay[i].emp
    /\ Calm(i) => pay[i].from < proc[p].from
SetsInOrder(p) ==
    /\ \A row \in proc[p].inserts : row.from = proc[p].from
    /\ \A i \in DOMAIN proc[p].writes : Ends(proc[p].writes[i], proc[p].from) /\ Replaced(p, i)
    /\ \A i, j \in DOMAIN proc[p].writes : pay[i].emp = pay[j].emp => i = j
    /\ proc[p].pc \in Saves =>
        /\ Ends(proc[p].patch, proc[p].from) /\ Replaced(p, proc[p].id)
        /\ \A i \in DOMAIN proc[p].writes : pay[i].emp # pay[proc[p].id].emp
        /\ proc[p].pc # "write" => "to" \in DOMAIN proc[p].patch

\* A correction deletes nothing and inserts nothing.
Spared(p) ==
    /\ proc[p].inserts = {}
    /\ proc[p].pc \in Saves => DOMAIN proc[p].writes = {} /\ Spares(proc[p].patch)
    /\ proc[p].pc = "commit" => \A i \in DOMAIN proc[p].writes : Spares(proc[p].writes[i])

\* The rates before the deleted one, and the one that a deletion makes active.
Below(d) == {j \in RowsOf(pay[d].emp) \ {d} : pay[j].from < pay[d].from}
Drops(d, patch) ==
    /\ "deleted" \in DOMAIN patch => patch.deleted
    /\ Calm(d) => pay[d].deleted \/ "deleted" \in DOMAIN patch
Latest(d, id) ==
    Below(d) = {} \/ (id \in Below(d) /\ \A j \in Below(d) : pay[j].from <= pay[id].from)
Reopens(d, id, patch) ==
    /\ Spares(patch) /\ ("to" \in DOMAIN patch => patch.to = None)
    /\ Calm(d) /\ Standing(d) /\ Standing(id) => "to" \in DOMAIN patch
Follower(d, id) ==
    /\ id # d /\ pay[id].emp = pay[d].emp
    /\ Calm(d) => pay[id].from < pay[d].from
    /\ Calm(d) /\ Standing(d) => Latest(d, id)

DropsInOrder(p) ==
    LET d == proc[p].gone
        W == proc[p].writes
    IN /\ Calm(d) => pay[d].from = proc[p].read.from
       /\ proc[p].inserts = {}
       /\ proc[p].pc \in Saves /\ proc[p].for = "delete" =>
            /\ DOMAIN W = {} /\ Drops(d, proc[p].patch)
            /\ proc[p].pc # "write" => "deleted" \in DOMAIN proc[p].patch
       /\ proc[p].pc = "previous" => DOMAIN W = {d} /\ Drops(d, W[d])
       /\ proc[p].pc = "commit" /\ proc[p].for = "delete" =>
            DOMAIN W = {d} /\ Drops(d, W[d]) /\ (Calm(d) /\ Standing(d) => Below(d) = {})
       /\ proc[p].pc \in Saves /\ proc[p].for = "reactivate" =>
            /\ DOMAIN W = {d} /\ Drops(d, W[d])
            /\ Follower(d, proc[p].id) /\ Reopens(d, proc[p].id, proc[p].patch)
            /\ proc[p].pc # "write" => "to" \in DOMAIN proc[p].patch
       /\ proc[p].pc = "commit" /\ proc[p].for = "reactivate" =>
            /\ DOMAIN W = {d, proc[p].id} /\ Drops(d, W[d])
            /\ Follower(d, proc[p].id) /\ Reopens(d, proc[p].id, W[proc[p].id])

Dated(p) ==
    /\ Sets(p) => SetsInOrder(p)
    /\ proc[p].pc \in Saves \cup {"commit"} /\ proc[p].for = "update" => Spared(p)
    /\ Deletes(p) => DropsInOrder(p)

Locks == \A p, q \in Procs : p # q => Written(p) \cap Written(q) = {}

DatesInv ==
    /\ \A e \in Employees \ moved : Sequenced(e)
    /\ Locks
    /\ \A p \in Procs : Dated(p)

\* Steps that write no table keep the sequences, and the handlers that wait.
SameRows == UNCHANGED <<pay, moved>>

\* Rates stay in sequence while no row is written.
LEMMA SequencedSame ==
    ASSUME SameRows, \A e \in Employees \ moved : Sequenced(e)
    PROVE  \A e \in (Employees \ moved)' : Sequenced(e)'
BY DEF SameRows, Sequenced, RowsOf, FindActive, Standing, Apart

\* A handler that waits keeps its dates while no row is written.
LEMMA DatedSame ==
    ASSUME SameRows, NEW q \in Procs, proc'[q] = proc[q], Dated(q)
    PROVE  Dated(q)'
<1>1. /\ Sets(q)' = Sets(q) /\ Deletes(q)' = Deletes(q)
  BY DEF Sets, Deletes
<1>2. SetsInOrder(q)' = SetsInOrder(q)
  BY DEF SameRows, SetsInOrder, Replaced, Calm
<1>3. Spared(q)' = Spared(q)
  BY DEF Spared
<1>4. DropsInOrder(q)' = DropsInOrder(q)
  BY DEF SameRows, DropsInOrder, Drops, Follower, Latest, Below, Reopens, Calm, Standing, RowsOf
<1> QED BY <1>1, <1>2, <1>3, <1>4 DEF Dated

\* Whoever writes a row that nobody else has written keeps the locks.
LEMMA LocksKept ==
    ASSUME Locks, NEW p \in Procs, DOMAIN proc' = Procs, \A q \in Procs \ {p} : proc'[q] = proc[q],
           NEW id, \A q \in Procs \ {p} : id \notin Written(q),
           Written(p)' \subseteq Written(p) \cup {id}
    PROVE  Locks'
<1>1. \A q \in Procs \ {p} : Written(q)' = Written(q)
  BY DEF Written
<1> QED BY <1>1 DEF Locks

\* A step of one handler that commits nothing.
LEMMA DatedStep ==
    ASSUME TypeInv, DatesInv, NEW p \in Procs, SameRows, DOMAIN proc' = Procs,
           \A q \in Procs \ {p} : proc'[q] = proc[q], Dated(p)', Locks'
    PROVE  DatesInv'
BY SequencedSame, DatedSame DEF DatesInv

\* A handler that moves keeps the locks it had, or drops them.
LEMMA GotoDated ==
    ASSUME TypeInv, DatesInv, NEW p \in Procs, NEW r, Goto(p, r), Quiet,
           proc'[p] = r => Dated(p)',
           "writes" \in DOMAIN r => DOMAIN r.writes \subseteq Written(p)
    PROVE  DatesInv'
<1>1. DOMAIN proc' = Procs /\ proc'[p] = r /\ \A q \in Procs \ {p} : proc'[q] = proc[q]
  BY GotoOnly DEF TypeInv, TablesOK
<1>2. Written(p)' \subseteq Written(p)
  BY <1>1 DEF Written
<1>3. \A q \in Procs \ {p} : Written(q)' = Written(q)
  BY <1>1 DEF Written
<1>4. Locks'
  BY <1>2, <1>3 DEF Locks, DatesInv
<1> QED BY <1>1, <1>4, DatedStep DEF Quiet, SameRows

\* A handler that sets other fields than its writes.
LEMMA SetDated ==
    ASSUME TypeInv, DatesInv, NEW p \in Procs, NEW r, Set(p, r), Quiet, "writes" \notin DOMAIN r,
           ASSUME DOMAIN proc'[p] = DOMAIN proc[p] \cup DOMAIN r,
                  \A c \in DOMAIN r : proc'[p][c] = r[c],
                  \A c \in DOMAIN proc[p] \ DOMAIN r : proc'[p][c] = proc[p][c]
           PROVE  Dated(p)'
    PROVE  DatesInv'
<1>1. /\ DOMAIN proc' = Procs /\ \A q \in Procs \ {p} : proc'[q] = proc[q]
      /\ DOMAIN proc'[p] = DOMAIN proc[p] \cup DOMAIN r
      /\ \A c \in DOMAIN r : proc'[p][c] = r[c]
      /\ \A c \in DOMAIN proc[p] \ DOMAIN r : proc'[p][c] = proc[p][c]
  BY SetOnly DEF TypeInv, TablesOK
<1>2. Written(p)' = Written(p)
  BY <1>1 DEF Written
<1>3. \A q \in Procs \ {p} : Written(q)' = Written(q)
  BY <1>1 DEF Written
<1>4. Locks'
  BY <1>2, <1>3 DEF Locks, DatesInv
<1> QED BY <1>1, <1>4, DatedStep DEF Quiet, SameRows

\* An idle handler promises nothing.
LEMMA FinishDated ==
    ASSUME TypeInv, DatesInv, NEW p \in Procs, Finish(p), Quiet
    PROVE  DatesInv'
<1>1. proc'[p] = Idle => Dated(p)'
  BY DEF Idle, Dated, Saves, Sets, Deletes
<1>2. "writes" \notin DOMAIN Idle
  BY DEF Idle
<1> QED BY <1>1, <1>2, GotoDated DEF Finish

\* What requests begin with: nothing is ended or deleted yet.
LEMMA DatedRequest ==
    ASSUME TypeInv, DatesInv, NEW p \in Procs, Request(p)
    PROVE  DatesInv'
<1>1. ASSUME NEW emps \in BulkSets, NEW m \in Salaries, NEW h \in Optional(Rates), NEW from \in Days,
             SetPay(p, emps, m, h, from)
      PROVE  DatesInv'
  <2> DEFINE r == [pc |-> "insert_next", todo |-> emps, rate |-> PayRate(m, h), from |-> from,
                   writes |-> NoWrites, inserts |-> {}]
  <2>1. proc'[p] = r => Dated(p)'
    BY DEF Dated, Sets, Deletes, Saves, SetsInOrder, NoWrites
  <2>2. DOMAIN r.writes = {}
    BY DEF NoWrites
  <2> QED BY <1>1, <2>1, <2>2, GotoDated DEF SetPay, Quiet
<1>2. ASSUME NEW id \in Ids, NEW m \in Optional(Salaries), NEW h \in Optional(Rates),
             NEW from \in Optional(Days), Update(p, id, m, h, from)
      PROVE  DatesInv'
  <2>1. PICK patch : patch = Correction(pay[id], m, h, from)
    OBVIOUS
  <2>2. "deleted" \notin DOMAIN patch
    BY <2>1 DEF Correction
  <2> DEFINE r == [pc |-> "load", for |-> "update", id |-> id, writes |-> NoWrites, inserts |-> {},
                   patch |-> patch]
  <2>3. proc'[p] = r => Dated(p)'
    BY <2>2 DEF Dated, Sets, Deletes, Saves, Spared, Spares, NoWrites
  <2>4. DOMAIN r.writes = {}
    BY DEF NoWrites
  <2> QED BY <1>2, <2>1, <2>3, <2>4, GotoDated DEF Update, Quiet
<1>3. ASSUME NEW id \in Ids, SoftDelete(p, id) PROVE DatesInv'
  <2> DEFINE r == [pc |-> "load", for |-> "delete", id |-> id, gone |-> id, read |-> pay[id],
                   writes |-> NoWrites, inserts |-> {}, patch |-> [deleted |-> TRUE]]
  <2>1. proc'[p] = r => Dated(p)'
    <3> SUFFICES ASSUME proc'[p] = r PROVE Dated(p)'
      OBVIOUS
    <3>1. DropsInOrder(p)'
      BY <1>3 DEF DropsInOrder, Drops, Calm, NoWrites, Saves, SoftDelete
    <3> QED BY <3>1 DEF Dated, Sets, Saves
  <2>2. DOMAIN r.writes = {}
    BY DEF NoWrites
  <2> QED BY <1>3, <2>1, <2>2, GotoDated DEF SoftDelete, Quiet
<1> QED BY <1>1, <1>2, <1>3 DEF Request

\* A set-pay goes on to the next employee, or ends the active rate, which starts earlier.
LEMMA DatedInsertNext ==
    ASSUME TypeInv, DatesInv, NEW p \in Procs, InsertNext(p)
    PROVE  DatesInv'
<1>1. /\ HoldsWrites(p) /\ HoldsRate(p) /\ proc[p].pc = "insert_next" /\ Quiet
      /\ SetsInOrder(p)
  BY InsertNextCases
     DEF TypeInv, HandlerOK, Steps, Sets, DatesInv, Dated
<1>2. PICK e \in proc[p].todo :
        \/ FindActive(e) = {} /\ Adding(p, e)
        \/ Finish(p)
        \/ \E id \in FindActive(e) : ~ (proc[p].from <= pay[id].from) /\ Ending(p, e, id)
  BY InsertNextCases
<1>3. PICK inserts : inserts = proc[p].inserts \cup {NewRate(e, proc[p].rate, proc[p].from)}
  OBVIOUS
<1>4. PICK todo : todo = proc[p].todo \ {e}
  OBVIOUS
<1>5. /\ \A row \in inserts : row.from = proc[p].from
      /\ \E row \in inserts : row.emp = e
  <2>1. PICK row : row = NewRate(e, proc[p].rate, proc[p].from)
    OBVIOUS
  <2>2. row.emp = e /\ row.from = proc[p].from
    BY <2>1 DEF NewRate
  <2> QED BY <1>1, <1>3, <2>1, <2>2 DEF SetsInOrder
<1>6. \A i \in DOMAIN proc[p].writes :
        /\ Ends(proc[p].writes[i], proc[p].from)
        /\ pay[i].emp \notin todo
        /\ \E row \in inserts : row.emp = pay[i].emp
        /\ Calm(i) => pay[i].from < proc[p].from
        /\ pay[i].emp # e
  BY <1>1, <1>2, <1>3, <1>4 DEF SetsInOrder, Replaced
<1>7. CASE Adding(p, e)
  <2> DEFINE r == [todo |-> todo, inserts |-> inserts]
  <2>1. ASSUME DOMAIN proc'[p] = DOMAIN proc[p] \cup DOMAIN r,
               \A c \in DOMAIN r : proc'[p][c] = r[c],
               \A c \in DOMAIN proc[p] \ DOMAIN r : proc'[p][c] = proc[p][c]
        PROVE  Dated(p)'
    <3>1. /\ proc'[p].pc = "insert_next" /\ proc'[p].inserts = inserts /\ proc'[p].todo = todo
          /\ proc'[p].writes = proc[p].writes /\ proc'[p].from = proc[p].from
      BY <1>1, <2>1 DEF HoldsWrites, HoldsRate
    <3>2. SetsInOrder(p)'
      BY <1>1, <1>5, <1>6, <3>1 DEF SetsInOrder, Replaced, Calm, Saves, Quiet
    <3> QED BY <3>1, <3>2 DEF Dated, Deletes, Saves
  <2> QED BY <1>3, <1>4, <1>1, <1>7, <2>1, SetDated DEF Adding
<1>8. ASSUME NEW id \in FindActive(e), ~ (proc[p].from <= pay[id].from), Ending(p, e, id)
      PROVE  DatesInv'
  <2> DEFINE r == [pc |-> "load", for |-> "insert", id |-> id, rate |-> proc[p].rate,
                   from |-> proc[p].from, writes |-> proc[p].writes, todo |-> todo,
                   inserts |-> inserts, patch |-> [to |-> EndedBefore(proc[p].from)]]
  <2>1. id \in Ids /\ pay[id] \in PayRow /\ pay[id].emp = e
    BY DEF FindActive, RowsOf, Standing, TypeInv, TablesOK
  <2>2. pay[id].from < proc[p].from
    BY <1>1, <1>8, <2>1 DEF PayRow, HoldsRate
  <2>3. Ends([to |-> EndedBefore(proc[p].from)], proc[p].from)
    BY DEF Ends, Spares, EndedBefore
  <2>4. ASSUME proc'[p] = r PROVE Dated(p)'
    <3>1. SetsInOrder(p)'
      BY <1>1, <1>4, <1>5, <1>6, <2>1, <2>2, <2>3, <2>4 DEF SetsInOrder, Replaced, Calm, Saves, Quiet
    <3> QED BY <2>4, <3>1 DEF Dated, Deletes, Saves
  <2>5. DOMAIN r.writes \subseteq Written(p)
    BY <1>1 DEF Written, HoldsWrites
  <2> QED BY <1>1, <1>3, <1>4, <1>8, <2>4, <2>5, GotoDated DEF Ending
<1> QED BY <1>1, <1>2, <1>7, <1>8, FinishDated

\* What the load and the comparison leave of the dates of a patch.
SameDates(old, new, row) ==
    /\ Spares(old) => Spares(new)
    /\ \A c \in {"to", "deleted"} \cap DOMAIN old :
        /\ c \in DOMAIN new => new[c] = old[c]
        /\ c \in DOMAIN new \/ row[c] = old[c]

\* The load adds columns to a patch and changes none of its dates.
LEMMA LoadedDates ==
    ASSUME NEW row \in PayRow, ~ row.deleted, NEW patch
    PROVE  /\ SameDates(patch, Loaded(row, patch), row)
           /\ DOMAIN patch \subseteq DOMAIN Loaded(row, patch)
<1>1. PICK new : new = Loaded(row, patch)
  OBVIOUS
<1>2. /\ DOMAIN new = {"from", "to", "overridden", "deleted"} \cup DOMAIN patch
      /\ \A c \in {"to", "deleted"} : new[c] = IF c \in DOMAIN patch THEN patch[c] ELSE row[c]
  BY <1>1 DEF Loaded, Patched, PayRow
<1> QED BY <1>1, <1>2 DEF SameDates, Spares

\* The comparison drops a date of a patch only where the row has it already.
LEMMA DeltaDates ==
    ASSUME NEW row, NEW patch
    PROVE  SameDates(patch, Delta(patch, row), row)
<1>1. PICK new : new = Delta(patch, row)
  OBVIOUS
<1>2. /\ DOMAIN new = {c \in DOMAIN patch : patch[c] # row[c]}
      /\ \A c \in DOMAIN new : new[c] = patch[c]
  BY <1>1 DEF Delta
<1> QED BY <1>1, <1>2 DEF SameDates, Spares

\* Of two rates that stand, the one that starts earlier ends before the other starts.
LEMMA EndsBefore ==
    ASSUME TypeInv, Constraints, NEW e, Sequenced(e), NEW i \in RowsOf(e), NEW j \in RowsOf(e),
           pay[i].from < pay[j].from
    PROVE  pay[i].to # None /\ pay[i].to < pay[j].from
<1>1. /\ pay[i] \in PayRow /\ pay[j] \in PayRow
      /\ pay[i].to # None => pay[i].to >= pay[i].from
      /\ pay[j].to # None => pay[j].to >= pay[j].from
  BY DEF RowsOf, Standing, TypeInv, TablesOK, Started, Constraints, OrderedRows, Present
<1>2. i # j
  BY <1>1 DEF PayRow
<1>3. Apart(pay[i], pay[j])
  BY <1>2 DEF Sequenced
<1>4. CASE pay[j].to # None /\ pay[j].to < pay[i].from
  BY <1>1, <1>4 DEF PayRow
<1> QED BY <1>3, <1>4 DEF Apart

\* From one statement of a save to the next.
LEMMA NextSaveDated ==
    ASSUME TypeInv, Constraints, DatesInv, NEW p \in Procs, proc[p].pc \in {"load", "diff"}, Quiet,
           NEW pc \in {"diff", "write"}, NEW patch,
           SameDates(proc[p].patch, patch, pay[proc[p].id]),
           pc = "diff" => DOMAIN proc[p].patch \subseteq DOMAIN patch,
           Set(p, [pc |-> pc, patch |-> patch])
    PROVE  DatesInv'
<1>1. HoldsSave(p) /\ HoldsWrites(p) /\ Dated(p) /\ HandlerOK(p) /\ proc[p].pc \in Saves
  BY DEF TypeInv, HandlerOK, DatesInv, Steps, Saves
<1> DEFINE r == [pc |-> pc, patch |-> patch]
<1>2. ASSUME DOMAIN proc'[p] = DOMAIN proc[p] \cup DOMAIN r,
             \A c \in DOMAIN r : proc'[p][c] = r[c],
             \A c \in DOMAIN proc[p] \ DOMAIN r : proc'[p][c] = proc[p][c]
      PROVE  Dated(p)'
  <2>1. /\ proc'[p].pc = pc /\ proc'[p].patch = patch /\ proc'[p].id = proc[p].id
        /\ proc'[p].for = proc[p].for /\ proc'[p].writes = proc[p].writes
        /\ proc'[p].inserts = proc[p].inserts
    BY <1>1, <1>2 DEF HoldsSave, HoldsWrites
  <2>2. ASSUME proc[p].for = "insert" PROVE Dated(p)'
    <3>1. SetsInOrder(p) /\ HoldsRate(p)
      BY <1>1, <2>2 DEF Dated, Sets, HandlerOK
    <3>2. proc'[p].from = proc[p].from /\ proc'[p].todo = proc[p].todo
      BY <1>2, <3>1 DEF HoldsRate
    <3>3. Ends(patch, proc[p].from)
      BY <1>1, <3>1 DEF SetsInOrder, Ends, SameDates
    <3>4. SetsInOrder(p)'
      BY <1>1, <2>1, <3>1, <3>2, <3>3 DEF SetsInOrder, Replaced, Calm, Saves, Quiet
    <3> QED BY <2>1, <2>2, <3>4 DEF Dated, Deletes, Saves
  <2>3. ASSUME proc[p].for = "update" PROVE Dated(p)'
    <3>1. Spares(proc[p].patch) /\ DOMAIN proc[p].writes = {} /\ proc[p].inserts = {}
      BY <1>1, <2>3 DEF Dated, Spared
    <3>2. Spared(p)'
      BY <1>1, <2>1, <3>1 DEF Spared, SameDates, Saves
    <3> QED BY <2>1, <2>3, <3>2 DEF Dated, Deletes, Sets, Saves
  <2>4. ASSUME proc[p].for \in {"delete", "reactivate"} PROVE Dated(p)'
    <3>1. DropsInOrder(p) /\ HoldsGone(p)
      BY <1>1, <2>4 DEF Dated, Deletes, HandlerOK
    <3>2. proc'[p].gone = proc[p].gone /\ proc'[p].read = proc[p].read
      BY <1>2, <3>1 DEF HoldsGone
    <3>3. ASSUME proc[p].for = "delete" PROVE Drops(proc[p].gone, patch)
      BY <1>1, <3>1, <3>3 DEF DropsInOrder, Drops, SameDates, HoldsGone
    <3>4. ASSUME proc[p].for = "reactivate" PROVE Reopens(proc[p].gone, proc[p].id, patch)
      <4> DEFINE d == proc[p].gone
                 id == proc[p].id
                 e == pay[d].emp
      <4>1. "to" \in DOMAIN proc[p].patch /\ proc[p].patch.to = None /\ Spares(proc[p].patch)
            /\ Follower(d, id)
        BY <1>1, <3>1, <3>4 DEF DropsInOrder, Reopens
      <4>2. ASSUME Calm(d), Standing(d), Standing(id) PROVE "to" \in DOMAIN patch
        <5>1. d \in RowsOf(e) /\ id \in RowsOf(e) /\ pay[id].from < pay[d].from
          BY <1>1, <3>1, <4>1, <4>2 DEF HoldsGone, HoldsSave, RowsOf, Follower
        <5>2. Sequenced(e)
          BY <1>1, <3>1, <4>2 DEF DatesInv, Calm, HoldsGone, Started, PayRow
        <5>3. pay[id].to # None
          BY <5>1, <5>2, EndsBefore
        <5> QED BY <4>1, <5>3 DEF SameDates
      <4> QED BY <4>1, <4>2 DEF Reopens, SameDates
    <3>5. DropsInOrder(p)'
      <4>1. /\ DropsInOrder(p)' <=>
                LET d == proc[p].gone
                    W == proc[p].writes
                IN /\ Calm(d) => pay[d].from = proc[p].read.from
                   /\ proc[p].inserts = {}
                   /\ proc[p].for = "delete" =>
                        /\ DOMAIN W = {} /\ Drops(d, patch)
                        /\ pc # "write" => "deleted" \in DOMAIN patch
                   /\ proc[p].for = "reactivate" =>
                        /\ DOMAIN W = {d} /\ Drops(d, W[d])
                        /\ Follower(d, proc[p].id) /\ Reopens(d, proc[p].id, patch)
                        /\ pc # "write" => "to" \in DOMAIN patch
        BY <2>1, <3>2 DEF Quiet, DropsInOrder, Drops, Follower, Latest, Below, Reopens, Calm, Standing,
                          RowsOf, Saves
      <4> QED BY <1>1, <3>1, <3>3, <3>4, <4>1 DEF DropsInOrder
    <3> QED BY <2>1, <2>4, <3>5 DEF Dated, Sets, Saves
  <2> QED BY <1>1, <2>2, <2>3, <2>4 DEF HoldsSave
<1>3. "writes" \notin DOMAIN r
  OBVIOUS
<1> QED BY <1>2, <1>3, SetDated

\* Load and comparison keep the order of dates.
LEMMA DatedLoad ==
    ASSUME TypeInv, Constraints, DatesInv, NEW p \in Procs, Load(p) \/ Diff(p)
    PROVE  DatesInv'
<1>1. HoldsSave(p) /\ Quiet /\ proc[p].pc \in {"load", "diff"}
  BY DEF TypeInv, HandlerOK, Load, Diff, Saves, Quiet
<1>2. pay[proc[p].id] \in PayRow
  BY <1>1 DEF HoldsSave, Started
<1>3. CASE Load(p)
  <2>1. CASE ~ Standing(proc[p].id)
    BY <1>1, <1>3, <2>1, FinishDated DEF Load
  <2>2. CASE Standing(proc[p].id)
    <3>1. PICK patch : patch = Loaded(pay[proc[p].id], proc[p].patch)
      OBVIOUS
    <3>2. /\ SameDates(proc[p].patch, patch, pay[proc[p].id])
          /\ DOMAIN proc[p].patch \subseteq DOMAIN patch
      BY <1>2, <2>2, <3>1, LoadedDates DEF Standing
    <3>3. Set(p, [pc |-> "diff", patch |-> patch])
      BY <1>3, <2>2, <3>1 DEF Load
    <3> QED BY <1>1, <3>2, <3>3, NextSaveDated
  <2> QED BY <2>1, <2>2
<1>4. CASE Diff(p)
  <2>1. PICK patch : patch = Delta(proc[p].patch, pay[proc[p].id])
    OBVIOUS
  <2>2. SameDates(proc[p].patch, patch, pay[proc[p].id])
    BY <2>1, DeltaDates
  <2>3. Set(p, [pc |-> "write", patch |-> patch])
    BY <1>4, <2>1 DEF Diff
  <2> QED BY <1>1, <2>2, <2>3, NextSaveDated
<1> QED BY <1>3, <1>4

\* A statement that joins the transaction keeps the order of dates.
LEMMA DatedWrite ==
    ASSUME TypeInv, DatesInv, NEW p \in Procs, Write(p)
    PROVE  DatesInv'
<1>1. /\ HandlerOK(p) /\ HoldsSave(p) /\ HoldsWrites(p) /\ proc[p].pc = "write"
      /\ DOMAIN proc = Procs /\ Dated(p)
  BY DEF TypeInv, TablesOK, HandlerOK, Write, Steps, Saves, DatesInv
<1>w. PICK W : W = proc'[p].writes
  OBVIOUS
<1>d. PICK id : id = proc[p].id
  OBVIOUS
<1>2. /\ UNCHANGED <<pay, moved>> /\ DOMAIN proc' = Procs
      /\ \A q \in Procs \ {p} : id \notin Written(q)
      /\ \A q \in Procs \ {p} : proc'[q] = proc[q]
      /\ DOMAIN proc'[p] = DOMAIN proc[p] \cup {"writes", "pc"}
      /\ \A c \in DOMAIN proc[p] \ {"writes", "pc"} : proc'[p][c] = proc[p][c]
      /\ DOMAIN W = DOMAIN proc[p].writes \cup {id}
      /\ W[id] = proc[p].patch
      /\ \A i \in DOMAIN proc[p].writes \ {id} : W[i] = proc[p].writes[i]
      /\ proc[p].for = "insert" => proc'[p].pc = "insert_next"
      /\ proc[p].for = "delete" => proc'[p].pc = "previous"
      /\ proc[p].for \notin {"insert", "delete"} => proc'[p].pc = "commit"
  BY <1>1, <1>w, <1>d, WriteStep
<1>3. proc'[p].for = proc[p].for /\ proc'[p].inserts = proc[p].inserts /\ proc'[p].id = id
  BY <1>1, <1>d, <1>2 DEF HoldsSave, HoldsWrites
<1>4. Locks'
  <2>1. Written(p)' \subseteq Written(p) \cup {id}
    BY <1>1, <1>w, <1>2 DEF Written, HoldsWrites
  <2> QED BY <1>2, <2>1, LocksKept DEF DatesInv
<1>5. ASSUME proc[p].for = "insert" PROVE Dated(p)'
  <2>1. SetsInOrder(p) /\ HoldsRate(p)
    BY <1>1, <1>5 DEF Dated, Sets, HandlerOK, Saves
  <2>2. proc'[p].from = proc[p].from /\ proc'[p].todo = proc[p].todo
    BY <1>2, <2>1 DEF HoldsRate
  <2>3. SetsInOrder(p)'
    <3>1. \A i \in DOMAIN W : Ends(W[i], proc[p].from) /\ Replaced(p, i)
      BY <1>1, <1>d, <1>2, <2>1 DEF SetsInOrder, Saves
    <3>2. \A i, j \in DOMAIN W : pay[i].emp = pay[j].emp => i = j
      BY <1>1, <1>d, <1>2, <2>1 DEF SetsInOrder, Saves
    <3>3. \A i \in DOMAIN W : Replaced(p, i)'
      BY <1>2, <1>3, <2>2, <3>1 DEF Replaced, Calm
    <3> QED BY <1>w, <1>2, <1>3, <1>5, <2>1, <2>2, <3>1, <3>2, <3>3 DEF SetsInOrder, Saves
  <2> QED BY <1>2, <1>5, <2>3 DEF Dated, Deletes, Saves
<1>6. ASSUME proc[p].for = "update" PROVE Dated(p)'
  <2>1. Spared(p)
    BY <1>1, <1>6 DEF Dated, Saves
  <2>2. Spared(p)'
    BY <1>1, <1>w, <1>d, <1>2, <1>3, <1>6, <2>1 DEF Spared, Saves
  <2> QED BY <1>2, <1>3, <1>6, <2>2 DEF Dated, Deletes, Sets, Saves
<1>7. ASSUME proc[p].for \in {"delete", "reactivate"} PROVE Dated(p)'
  <2>d. PICK d : d = proc[p].gone
    OBVIOUS
  <2>1. DropsInOrder(p) /\ HoldsGone(p)
    BY <1>1, <1>7 DEF Dated, Deletes, HandlerOK, Saves
  <2>2. proc'[p].gone = d /\ proc'[p].read = proc[p].read
    BY <1>2, <2>d, <2>1 DEF HoldsGone
  <2>3. CASE proc[p].for = "delete"
    <3>1. id = d /\ DOMAIN W = {d} /\ Drops(d, W[d])
      BY <1>1, <1>d, <1>2, <2>d, <2>1, <2>3 DEF DropsInOrder, HoldsGone, Saves
    <3>2. proc[p].inserts = {} /\ (Calm(d) => pay[d].from = proc[p].read.from)
      BY <2>d, <2>1 DEF DropsInOrder
    <3>3. DropsInOrder(p)'
      BY <1>w, <1>2, <1>3, <2>2, <2>3, <3>1, <3>2 DEF DropsInOrder, Drops, Calm, Saves
    <3> QED BY <1>2, <1>3, <2>3, <3>3 DEF Dated, Sets, Saves
  <2>4. CASE proc[p].for = "reactivate"
    <3>1. /\ DOMAIN W = {d, id} /\ Drops(d, W[d])
          /\ Follower(d, id) /\ Reopens(d, id, W[id])
      BY <1>1, <1>d, <1>2, <2>d, <2>1, <2>4 DEF DropsInOrder, Saves, Follower
    <3>2. proc[p].inserts = {} /\ (Calm(d) => pay[d].from = proc[p].read.from)
      BY <2>d, <2>1 DEF DropsInOrder
    <3>3. DropsInOrder(p)'
      BY <1>w, <1>2, <1>3, <2>2, <2>4, <3>1, <3>2
         DEF DropsInOrder, Drops, Calm, Saves, Follower, Latest, Below, Reopens, Standing, RowsOf
    <3> QED BY <1>2, <1>3, <2>4, <3>3 DEF Dated, Sets, Saves
  <2> QED BY <1>7, <2>3, <2>4
<1>8. SameRows /\ Dated(p)'
  BY <1>1, <1>2, <1>5, <1>6, <1>7 DEF HoldsSave, SameRows
<1> QED BY <1>1, <1>2, <1>4, <1>8, DatedStep

\* A set of naturals has a least one.
LEMMA LeastNat ==
    ASSUME NEW T, T \subseteq Nat, T # {}
    PROVE  \E x \in T : \A y \in T : x <= y
<1> DEFINE R == {ss \in Nat \X Nat : ss[1] < ss[2]}
<1>1. IsWellFoundedOn(R, Nat)
  BY NatLessThanWellFounded, Zenon DEF OpToRel
<1>2. \A x, y \in Nat : x < y => <<x, y>> \in R
  OBVIOUS
<1>3. PICK x \in T : \A y \in T : ~ (<<y, x>> \in R)
  <2> HIDE DEF R
  <2> QED BY <1>1, WFMin
<1>4. ASSUME NEW y \in T PROVE x <= y
  <2>1. ~ (y < x)
    BY <1>2, <1>3
  <2> QED BY <2>1
<1> QED BY <1>3, <1>4

\* Among rates that started there is a latest.
LEMMA LatestExists ==
    ASSUME today \in Int, NEW S, \A i \in S : Started(pay[i], today), S # {}
    PROVE  \E i \in S : \A j \in S : pay[j].from <= pay[i].from
<1> DEFINE T == {n \in Nat : \E i \in S : n = today - pay[i].from}
<1>1. \A i \in S : pay[i].from \in Int /\ pay[i].from <= today
  BY DEF Started, PayRow
<1>2. \A i \in S : today - pay[i].from \in T
  BY <1>1
<1>3. PICK x \in T : \A y \in T : x <= y
  <2>1. T \subseteq Nat /\ T # {}
    BY <1>2
  <2> HIDE DEF T
  <2> QED BY <2>1, LeastNat
<1>4. PICK i \in S : x = today - pay[i].from
  OBVIOUS
<1>5. ASSUME NEW j \in S PROVE pay[j].from <= pay[i].from
  <2>1. x <= today - pay[j].from
    BY <1>2, <1>3
  <2> QED BY <1>1, <1>4, <2>1
<1> QED BY <1>5

\* What a deletion finds before the deleted rate.
LEMMA PreviousOfGone ==
    ASSUME TypeInv, NEW d \in Ids, Started(pay[d], today), NEW read, read.emp = pay[d].emp,
           Calm(d) => pay[d].from = read.from
    PROVE  LET prior == FindPrevious(read.emp, read.from, {d}) IN
           /\ \A id \in prior : id \in Ids /\ id # d /\ pay[id].emp = pay[d].emp
           /\ Calm(d) => /\ \A id \in prior : pay[id].from < pay[d].from /\ Latest(d, id)
                         /\ prior = {} => Below(d) = {}
<1> DEFINE prior == FindPrevious(read.emp, read.from, {d})
<1>1. \A id \in prior : id \in Ids /\ id # d /\ pay[id].emp = pay[d].emp
  BY DEF FindPrevious, RowsOf
<1>2. ASSUME Calm(d)
      PROVE  prior = {id \in Below(d) : \A j \in Below(d) : pay[j].from <= pay[id].from}
  BY <1>2 DEF FindPrevious, Below
<1>3. ASSUME Calm(d), Below(d) # {} PROVE prior # {}
  <2>1. \A i \in Below(d) : Started(pay[i], today)
    BY DEF Below, RowsOf, Standing, TypeInv, TablesOK
  <2>2. today \in Int
    BY PayConstants DEF TypeInv, TablesOK, Days
  <2>3. PICK i \in Below(d) : \A j \in Below(d) : pay[j].from <= pay[i].from
    BY <1>3, <2>1, <2>2, LatestExists
  <2> QED BY <1>2, <1>3, <2>3
<1>4. ASSUME Calm(d), NEW id \in prior PROVE pay[id].from < pay[d].from /\ Latest(d, id)
  <2>1. id \in Below(d) /\ \A j \in Below(d) : pay[j].from <= pay[id].from
    BY <1>2, <1>4
  <2> QED BY <2>1 DEF Below, Latest
<1> QED BY <1>1, <1>3, <1>4

\* The rate that a deletion reopens is the latest before the deleted one.
LEMMA DatedPrevious ==
    ASSUME TypeInv, DatesInv, NEW p \in Procs, ReactivatePrevious(p)
    PROVE  DatesInv'
<1>d. PICK d : d = proc[p].gone
  OBVIOUS
<1>p. PICK prior : prior = FindPrevious(proc[p].read.emp, proc[p].read.from, {d})
  OBVIOUS
<1>1. /\ HoldsGone(p) /\ HoldsWrites(p) /\ proc[p].pc = "previous" /\ proc[p].for = "delete"
      /\ DropsInOrder(p) /\ Quiet
  BY PreviousCases DEF TypeInv, HandlerOK, Steps, Saves, Deletes, DatesInv, Dated
<1>2. /\ DOMAIN proc[p].writes = {d} /\ Drops(d, proc[p].writes[d]) /\ proc[p].inserts = {}
      /\ Calm(d) => pay[d].from = proc[p].read.from
  BY <1>d, <1>1 DEF DropsInOrder
<1>3. /\ \A id \in prior : id \in Ids /\ id # d /\ pay[id].emp = pay[d].emp
      /\ Calm(d) => /\ \A id \in prior : pay[id].from < pay[d].from /\ Latest(d, id)
                    /\ prior = {} => Below(d) = {}
  <2>1. /\ d \in Ids /\ Started(pay[d], today) /\ proc[p].read.emp = pay[d].emp
        /\ Calm(d) => pay[d].from = proc[p].read.from
    BY <1>d, <1>1, <1>2 DEF HoldsGone
  <2> QED BY <1>p, <2>1, PreviousOfGone
<1>4. CASE prior = {} /\ Set(p, [pc |-> "commit"])
  <2> DEFINE r == [pc |-> "commit"]
  <2>1. ASSUME DOMAIN proc'[p] = DOMAIN proc[p] \cup DOMAIN r,
               \A c \in DOMAIN r : proc'[p][c] = r[c],
               \A c \in DOMAIN proc[p] \ DOMAIN r : proc'[p][c] = proc[p][c]
        PROVE  Dated(p)'
    <3>1. /\ proc'[p].pc = "commit" /\ proc'[p].for = "delete" /\ proc'[p].gone = d
          /\ proc'[p].writes = proc[p].writes /\ proc'[p].read = proc[p].read
          /\ proc'[p].inserts = proc[p].inserts
      BY <1>d, <1>1, <2>1 DEF HoldsWrites, HoldsGone
    <3>2. DropsInOrder(p)'
      BY <1>1, <1>2, <1>3, <1>4, <3>1
         DEF DropsInOrder, Drops, Calm, Saves, Below, Standing, RowsOf, Quiet
    <3> QED BY <3>1, <3>2 DEF Dated, Saves, Sets
  <2> QED BY <1>1, <1>4, <2>1, SetDated
<1>5. ASSUME NEW id \in prior, Set(p, [pc |-> "load", for |-> "reactivate", id |-> id,
                                      patch |-> [to |-> None]])
      PROVE  DatesInv'
  <2> DEFINE r == [pc |-> "load", for |-> "reactivate", id |-> id, patch |-> [to |-> None]]
  <2>1. Follower(d, id) /\ Reopens(d, id, [to |-> None])
    BY <1>3 DEF Follower, Reopens, Spares
  <2>2. ASSUME DOMAIN proc'[p] = DOMAIN proc[p] \cup DOMAIN r,
               \A c \in DOMAIN r : proc'[p][c] = r[c],
               \A c \in DOMAIN proc[p] \ DOMAIN r : proc'[p][c] = proc[p][c]
        PROVE  Dated(p)'
    <3>1. /\ proc'[p].pc = "load" /\ proc'[p].for = "reactivate" /\ proc'[p].id = id
          /\ proc'[p].patch = [to |-> None] /\ proc'[p].gone = d
          /\ proc'[p].writes = proc[p].writes /\ proc'[p].read = proc[p].read
          /\ proc'[p].inserts = proc[p].inserts
      BY <1>d, <1>1, <2>2 DEF HoldsWrites, HoldsGone
    <3>2. DropsInOrder(p)'
      BY <1>1, <1>2, <2>1, <3>1
         DEF DropsInOrder, Drops, Calm, Saves, Follower, Latest, Below, Reopens, Standing, RowsOf, Quiet
    <3> QED BY <3>1, <3>2 DEF Dated, Sets, Saves
  <2> QED BY <1>1, <1>5, <2>2, SetDated
<1> QED BY <1>d, <1>p, <1>4, <1>5, PreviousCases

\* What a commit writes into the dates of a row it had.
LEMMA WrittenDates ==
    ASSUME TypeInv, NEW p \in Procs, Commit(p), Commits(p), NEW i \in Written(p)
    PROVE  /\ i \in Ids /\ pay[i] \in PayRow /\ i \in DOMAIN proc[p].writes
           /\ pay'[i].to = IF "to" \in DOMAIN proc[p].writes[i] THEN proc[p].writes[i].to ELSE pay[i].to
           /\ pay'[i].deleted = IF "deleted" \in DOMAIN proc[p].writes[i]
                                THEN proc[p].writes[i].deleted ELSE pay[i].deleted
<1>1. HoldsWrites(p) /\ Written(p) = DOMAIN proc[p].writes
  BY CommitCases
<1>2. i \in Ids /\ pay[i] \in PayRow
  BY <1>1 DEF HoldsWrites, Started
<1>3. pay'[i] = Patched(pay[i], proc[p].writes[i])
  BY DEF Commits, Rewritten
<1>4. {"to", "deleted"} \subseteq DOMAIN pay[i]
  BY <1>2 DEF PayRow
<1> QED BY <1>1, <1>2, <1>3, <1>4 DEF Patched

\* The rows of an employee whose dates no correction and no stale save moved keep
\* their start and their deletion; a correction leaves their end alone.
LEMMA Undisturbed ==
    ASSUME TypeInv, NEW p \in Procs, Commit(p), Commits(p)
    PROVE  /\ moved \subseteq moved'
           /\ \A i \in Ids : pay[i] # None =>
                /\ pay'[i] # None /\ pay'[i].emp = pay[i].emp
                /\ pay'[i] \in PayRow /\ pay[i] \in PayRow
                /\ pay[i].emp \notin moved' =>
                    /\ pay'[i].from = pay[i].from
                    /\ pay[i].deleted => pay'[i].deleted
                    /\ Corrects(p) => pay'[i].to = pay[i].to
                /\ i \notin Written(p) => pay'[i] = pay[i]
<1>1. moved' = moved \cup {pay'[id].emp : id \in
                             {i \in Written(p) : Shifted(pay[i], pay'[i], Corrects(p))}}
  BY DEF Commits
<1>2. ASSUME NEW i \in Ids, pay[i] # None
      PROVE  /\ pay'[i] # None /\ pay'[i].emp = pay[i].emp
             /\ pay'[i] \in PayRow /\ pay[i] \in PayRow
             /\ i \notin Written(p) => pay'[i] = pay[i]
  BY <1>2, CommitRows DEF TypeInv, TablesOK, Started, Commits
<1>3. ASSUME NEW i \in Ids, pay[i] # None, pay[i].emp \notin moved'
      PROVE  /\ pay'[i].from = pay[i].from
             /\ pay[i].deleted => pay'[i].deleted
             /\ Corrects(p) => pay'[i].to = pay[i].to
  <2>1. CASE i \notin Written(p)
    BY <1>2, <1>3, <2>1
  <2>2. CASE i \in Written(p)
    <3>1. ~ Shifted(pay[i], pay'[i], Corrects(p))
      BY <1>1, <1>2, <1>3, <2>2
    <3> QED BY <3>1 DEF Shifted
  <2> QED BY <2>1, <2>2
<1> QED BY <1>1, <1>2, <1>3

\* The commit of a set-pay inserts a rate after all those of the employee: the index
\* lets it in only because it ended the active one, which started earlier.
LEMMA InsertedRow ==
    ASSUME TypeInv, Constraints, DatesInv, NEW p \in Procs, Commit(p), Commits(p),
           proc[p].pc = "insert_next", NEW e \in Employees \ moved',
           NEW n \in Ids, pay[n] = None, pay'[n] # None, pay'[n].emp = e
    PROVE  /\ RowsOf(e)' = RowsOf(e) \cup {n} /\ n \notin RowsOf(e) /\ pay'[n].to = None
           /\ \A j \in RowsOf(e) : /\ pay[j].from < pay'[n].from
                                   /\ pay'[j].to # None /\ pay'[j].to < pay'[n].from
           /\ \A i, j \in RowsOf(e) : i # j => Apart(pay'[i], pay'[j])
<1>0. PICK F : F = proc[p].from
  OBVIOUS
<1>1. SetsInOrder(p) /\ HoldsRate(p) /\ HoldsWrites(p) /\ Written(p) = DOMAIN proc[p].writes
      /\ F \in Int
  BY <1>0, CommitCases DEF TypeInv, HandlerOK, DatesInv, Dated, Sets, HoldsRate
<1>2. e \in Employees /\ e \notin moved /\ Sequenced(e)
  BY Undisturbed DEF DatesInv
<1>3. ASSUME NEW m \in Ids, pay[m] = None, pay'[m] # None
      PROVE  /\ pay'[m].to = None /\ ~ pay'[m].deleted /\ pay'[m].from = F /\ pay'[m] \in PayRow
             /\ m \notin Written(p)
  <2>1. m \notin Written(p)
    BY <1>3, <1>1, PayRecords DEF HoldsWrites, Started
  <2>2. pay'[m] \in proc[p].inserts
    BY <1>3, <2>1 DEF Commits
  <2> QED BY <1>0, <1>1, <2>1, <2>2 DEF SetsInOrder, HoldsWrites, OpenRate, Started
<1>4. OneOpen(pay') /\ OrderedRows(pay) /\ OneOpen(pay)
  BY DEF Commits, Storable, OneOpen, Constraints
<1>5. DOMAIN pay' = Ids /\ DOMAIN pay = Ids
  BY DEF Commits, TypeInv, TablesOK
<1>6. ASSUME NEW m \in Ids, pay'[m] # None, ~ pay'[m].deleted, pay'[m].to = None, pay'[m].emp = e
      PROVE  m = n
  BY <1>3, <1>4, <1>5, <1>6 DEF OneOpen, Present
<1>7. \A j \in RowsOf(e) : /\ j \in Ids /\ pay[j] # None /\ ~ pay[j].deleted /\ pay[j].emp = e
                           /\ pay[j] \in PayRow /\ pay'[j].from = pay[j].from
                           /\ pay'[j] # None /\ pay'[j].emp = e /\ j # n
                           /\ j \notin Written(p) => pay'[j] = pay[j]
                           /\ pay[j].to # None => pay[j].to >= pay[j].from
  BY <1>4, <1>5, Undisturbed DEF RowsOf, Standing, OrderedRows, Present
<1>8. \A j \in RowsOf(e) \cap Written(p) :
        /\ Ends(proc[p].writes[j], F) /\ pay[j].from < F
        /\ \A i \in RowsOf(e) \cap Written(p) : i = j
  BY <1>0, <1>1, <1>2, <1>7 DEF SetsInOrder, Replaced, Calm
<1>9. ASSUME NEW j \in RowsOf(e) PROVE ~ pay'[j].deleted
  <2>1. CASE j \in Written(p)
    <3>1. pay'[j].deleted = IF "deleted" \in DOMAIN proc[p].writes[j]
                            THEN proc[p].writes[j].deleted ELSE pay[j].deleted
      BY <2>1, WrittenDates
    <3> QED BY <1>7, <1>8, <2>1, <3>1 DEF Ends, Spares
  <2>2. CASE j \notin Written(p)
    BY <1>7, <2>2
  <2> QED BY <2>1, <2>2
<1>10. RowsOf(e)' = RowsOf(e) \cup {n}
  <2>1. ASSUME NEW m \in Ids, pay'[m] # None, ~ pay'[m].deleted, pay'[m].emp = e
        PROVE  m \in RowsOf(e) \cup {n}
    <3>1. CASE pay[m] = None
      BY <1>3, <1>6, <2>1, <3>1
    <3>2. CASE pay[m] # None
      BY <2>1, <3>2, Undisturbed DEF RowsOf, Standing
    <3> QED BY <3>1, <3>2
  <2>2. n \in RowsOf(e)'
    BY <1>3 DEF RowsOf, Standing
  <2>3. \A m \in RowsOf(e) : m \in RowsOf(e)'
    BY <1>7, <1>9 DEF RowsOf, Standing
  <2>4. \A m \in RowsOf(e)' : m \in Ids /\ pay'[m] # None /\ ~ pay'[m].deleted /\ pay'[m].emp = e
    BY DEF RowsOf, Standing
  <2> QED BY <2>1, <2>2, <2>3, <2>4
<1>11. ASSUME RowsOf(e) # {}
       PROVE  \E a \in RowsOf(e) : /\ pay[a].to = None /\ pay[a].from < F /\ pay'[a].to = F - 1
                                   /\ \A j \in RowsOf(e) : j # a => pay'[j] = pay[j]
  <2>1. PICK a \in RowsOf(e) : pay[a].to = None
    BY <1>2, <1>11 DEF Sequenced, FindActive
  <2>2. a \in Written(p)
    BY <1>6, <1>7, <2>1
  <2>3. /\ pay'[a].to = IF "to" \in DOMAIN proc[p].writes[a] THEN proc[p].writes[a].to ELSE None
    BY <2>1, <2>2, WrittenDates
  <2>4. pay'[a].to # None
    BY <1>6, <1>7, <1>9
  <2>5. pay'[a].to = F - 1 /\ pay[a].from < F
    BY <1>8, <2>2, <2>3, <2>4 DEF Ends
  <2>6. \A j \in RowsOf(e) : j # a => pay'[j] = pay[j]
    BY <1>7, <1>8, <2>2
  <2> QED BY <2>1, <2>5, <2>6
<1>12. ASSUME NEW j \in RowsOf(e)
       PROVE  pay[j].from < F /\ pay'[j].to # None /\ pay'[j].to < F
  <2>1. PICK a \in RowsOf(e) : /\ pay[a].to = None /\ pay[a].from < F /\ pay'[a].to = F - 1
                               /\ \A m \in RowsOf(e) : m # a => pay'[m] = pay[m]
    BY <1>11
  <2>2. CASE j = a
    BY <1>1, <2>1, <2>2, PayConstants
  <2>3. CASE j # a
    <3>1. Apart(pay[j], pay[a])
      BY <1>2, <2>3 DEF Sequenced
    <3>2. pay[j].to # None /\ pay[j].to < pay[a].from
      BY <2>1, <3>1 DEF Apart
    <3>3. pay[j].from \in Int /\ pay[j].to \in Int /\ pay[a].from \in Int
          /\ pay[j].to >= pay[j].from
      BY <1>7, <3>2 DEF PayRow
    <3> QED BY <1>1, <2>1, <2>3, <3>2, <3>3
  <2> QED BY <2>2, <2>3
<1>13. ASSUME NEW i \in RowsOf(e), NEW j \in RowsOf(e), i # j PROVE Apart(pay'[i], pay'[j])
  <2>1. PICK a \in RowsOf(e) : /\ pay[a].to = None /\ pay[a].from < F /\ pay'[a].to = F - 1
                               /\ \A m \in RowsOf(e) : m # a => pay'[m] = pay[m]
    BY <1>11
  <2>2. Apart(pay[i], pay[j])
    BY <1>2, <1>13 DEF Sequenced
  <2> QED BY <1>7, <1>13, <2>1, <2>2 DEF Apart
<1>14. n \notin RowsOf(e) /\ pay'[n].to = None /\ pay'[n].from = F
  BY <1>3, <1>7
<1> QED BY <1>10, <1>12, <1>13, <1>14

\* An employee whose dates a commit leaves as they were keeps the sequence.
LEMMA SequencedKept ==
    ASSUME NEW e, Sequenced(e), RowsOf(e)' = RowsOf(e),
           \A i \in RowsOf(e) : pay'[i].from = pay[i].from /\ pay'[i].to = pay[i].to
    PROVE  Sequenced(e)'
<1>1. \A i, j \in RowsOf(e) : i # j => Apart(pay'[i], pay'[j])
  BY DEF Sequenced, Apart
<1>2. \A i \in FindActive(e) : i \in FindActive(e)'
  BY DEF FindActive
<1>3. RowsOf(e) # {} => FindActive(e)' # {}
  BY <1>2 DEF Sequenced
<1> QED BY <1>1, <1>3 DEF Sequenced, Apart

\* The rows of an employee after a commit that inserts none for the employee.
LEMMA RowsAfter ==
    ASSUME TypeInv, NEW p \in Procs, Commit(p), Commits(p), NEW e \in Employees \ moved',
           \A n \in Ids : pay[n] = None /\ pay'[n] # None => pay'[n].emp # e
    PROVE  RowsOf(e)' = {i \in RowsOf(e) : ~ pay'[i].deleted}
<1>1. ASSUME NEW i \in Ids, pay'[i] # None, ~ pay'[i].deleted, pay'[i].emp = e
      PROVE  i \in RowsOf(e)
  <2>1. pay[i] # None
    BY <1>1
  <2> QED BY <1>1, <2>1, Undisturbed DEF RowsOf, Standing
<1>2. ASSUME NEW i \in RowsOf(e), ~ pay'[i].deleted PROVE i \in RowsOf(e)'
  BY <1>2, Undisturbed DEF RowsOf, Standing
<1>3. \A i \in RowsOf(e)' : i \in Ids /\ pay'[i] # None /\ ~ pay'[i].deleted /\ pay'[i].emp = e
  BY DEF RowsOf, Standing
<1> QED BY <1>1, <1>2, <1>3

\* A set-pay.
LEMMA SequencedSets ==
    ASSUME TypeInv, Constraints, DatesInv, NEW p \in Procs, Commit(p), Commits(p),
           proc[p].pc = "insert_next", NEW e \in Employees \ moved'
    PROVE  Sequenced(e)'
<1>1. SetsInOrder(p) /\ HoldsWrites(p) /\ Written(p) = DOMAIN proc[p].writes
  BY CommitCases DEF DatesInv, Dated, Sets
<1>2. e \in Employees /\ e \notin moved /\ Sequenced(e)
  BY Undisturbed DEF DatesInv
<1>3. ASSUME NEW n \in Ids, pay[n] = None, pay'[n] # None, pay'[n].emp = e
      PROVE  Sequenced(e)'
  <2>1. /\ RowsOf(e)' = RowsOf(e) \cup {n} /\ pay'[n].to = None
        /\ \A j \in RowsOf(e) : pay'[j].to # None /\ pay'[j].to < pay'[n].from
        /\ \A i, j \in RowsOf(e) : i # j => Apart(pay'[i], pay'[j])
    BY <1>1, <1>3, InsertedRow
  <2>2. \A i, j \in RowsOf(e)' : i # j => Apart(pay'[i], pay'[j])
    BY <2>1 DEF Apart
  <2>3. n \in FindActive(e)'
    BY <2>1 DEF FindActive
  <2> QED BY <2>2, <2>3 DEF Sequenced, Apart
<1>4. ASSUME \A n \in Ids : pay[n] = None /\ pay'[n] # None => pay'[n].emp # e
      PROVE  Sequenced(e)'
  <2>1. ASSUME NEW i \in RowsOf(e) PROVE i \notin Written(p)
    <3>1. SUFFICES ASSUME i \in Written(p) PROVE FALSE
      OBVIOUS
    <3>2. PICK row \in proc[p].inserts : row.emp = e
      BY <1>1, <2>1, <3>1 DEF SetsInOrder, Replaced, RowsOf
    <3>3. PICK n \in Ids : pay[n] = None /\ pay'[n] = row
      BY DEF Commits
    <3>4. row # None
      BY <1>1, PayRecords DEF HoldsWrites, OpenRate, Started
    <3> QED BY <1>4, <3>2, <3>3, <3>4
  <2>2. \A i \in RowsOf(e) : pay'[i] = pay[i] /\ ~ pay[i].deleted
    BY <2>1, Undisturbed DEF RowsOf, Standing
  <2>3. RowsOf(e)' = RowsOf(e)
    BY <1>4, <2>2, RowsAfter
  <2> QED BY <1>2, <2>2, <2>3, SequencedKept
<1> QED BY <1>3, <1>4

\* A handler that inserts nothing adds no row.
LEMMA NothingInserted ==
    ASSUME TypeInv, NEW p \in Procs, Commit(p), Commits(p), proc[p].inserts = {}
    PROVE  \A n \in Ids : pay[n] = None => pay'[n] = None
<1>1. HoldsWrites(p) /\ Written(p) = DOMAIN proc[p].writes
  BY CommitCases
<1>2. \A n \in Written(p) : pay[n] # None
  BY <1>1, PayRecords DEF HoldsWrites, Started
<1> QED BY <1>2 DEF Commits

\* A correction.
LEMMA SequencedCorrects ==
    ASSUME TypeInv, DatesInv, NEW p \in Procs, Commit(p), Commits(p), Corrects(p),
           NEW e \in Employees \ moved'
    PROVE  Sequenced(e)'
<1>1. Spared(p) /\ Written(p) = DOMAIN proc[p].writes
  BY CommitCases DEF DatesInv, Dated, Corrects
<1>2. e \in Employees /\ e \notin moved /\ Sequenced(e)
  BY Undisturbed DEF DatesInv
<1>3. \A n \in Ids : pay[n] = None => pay'[n] = None
  BY <1>1, NothingInserted DEF Spared
<1>4. ASSUME NEW i \in RowsOf(e)
      PROVE  ~ pay'[i].deleted /\ pay'[i].from = pay[i].from /\ pay'[i].to = pay[i].to
  <2>1. /\ i \in Ids /\ pay[i] # None /\ pay[i].emp = e /\ ~ pay[i].deleted
        /\ pay'[i].from = pay[i].from /\ pay'[i].to = pay[i].to
        /\ i \notin Written(p) => pay'[i] = pay[i]
    BY Undisturbed DEF RowsOf, Standing
  <2>2. ASSUME i \in Written(p) PROVE ~ pay'[i].deleted
    <3>1. pay'[i].deleted = IF "deleted" \in DOMAIN proc[p].writes[i]
                            THEN proc[p].writes[i].deleted ELSE pay[i].deleted
      BY <2>2, WrittenDates
    <3>2. Spares(proc[p].writes[i])
      BY <1>1, <2>2 DEF Spared, Corrects
    <3> QED BY <2>1, <3>1, <3>2 DEF Spares
  <2> QED BY <2>1, <2>2
<1>5. RowsOf(e)' = RowsOf(e)
  BY <1>3, <1>4, RowsAfter
<1> QED BY <1>2, <1>4, <1>5, SequencedKept

\* What the commit of a deletion does: the rate is gone, and of the rate before it
\* only the end can change, to open-ended.
LEMMA DropCommit ==
    ASSUME TypeInv, DatesInv, NEW p \in Procs, Commit(p), Commits(p), proc[p].pc = "commit",
           proc[p].for # "update", NEW d, d = proc[p].gone, pay[d].emp \notin moved'
    PROVE  /\ d \in Ids /\ pay[d] # None /\ pay[d].emp \in Employees /\ Calm(d)
           /\ d \in Written(p) /\ pay'[d].deleted /\ proc[p].inserts = {}
           /\ \A i \in Written(p) \ {d} :
                /\ i = proc[p].id /\ proc[p].for = "reactivate" /\ i \in Ids /\ pay[i].emp = pay[d].emp
                /\ pay'[i].deleted = pay[i].deleted
                /\ pay'[i].to = pay[i].to \/ pay'[i].to = None
                /\ pay[i].from < pay[d].from
                /\ Standing(d) => Latest(d, i) /\ (Standing(i) => pay'[i].to = None)
           /\ Standing(d) => Below(d) = {} \/ Written(p) # {d}
<1>1. /\ HandlerOK(p) /\ Deletes(p) /\ HoldsGone(p) /\ DropsInOrder(p)
      /\ Written(p) = DOMAIN proc[p].writes /\ proc[p].for \in {"delete", "reactivate"}
  BY CommitCases DEF TypeInv, HandlerOK, DatesInv, Dated, Deletes
<1>2. d \in Ids /\ pay[d] # None /\ pay[d] \in PayRow /\ pay[d].emp \in Employees /\ Calm(d)
      /\ (pay[d].deleted => pay'[d].deleted)
  BY <1>1, PayRecords, Undisturbed DEF HoldsGone, Started, PayRow, Calm
<1>3. d \in Written(p) /\ Drops(d, proc[p].writes[d]) /\ proc[p].inserts = {}
  BY <1>1 DEF DropsInOrder
<1>4. pay'[d].deleted
  <2>1. pay'[d].deleted = IF "deleted" \in DOMAIN proc[p].writes[d]
                          THEN proc[p].writes[d].deleted ELSE pay[d].deleted
    BY <1>3, WrittenDates
  <2> QED BY <1>2, <1>3, <2>1 DEF Drops
<1>5. CASE proc[p].for = "delete"
  <2>1. Written(p) = {d} /\ (Standing(d) => Below(d) = {})
    BY <1>1, <1>2, <1>5 DEF DropsInOrder
  <2> QED BY <1>2, <1>3, <1>4, <2>1
<1>6. CASE proc[p].for = "reactivate"
  <2>1. PICK id : id = proc[p].id
    OBVIOUS
  <2>2. Written(p) = {d, id} /\ Follower(d, id) /\ Reopens(d, id, proc[p].writes[id])
    BY <1>1, <1>6, <2>1 DEF DropsInOrder
  <2>3. /\ id \in Ids /\ pay[id] \in PayRow
        /\ pay'[id].to = IF "to" \in DOMAIN proc[p].writes[id]
                         THEN proc[p].writes[id].to ELSE pay[id].to
        /\ pay'[id].deleted = IF "deleted" \in DOMAIN proc[p].writes[id]
                              THEN proc[p].writes[id].deleted ELSE pay[id].deleted
    BY <2>2, WrittenDates
  <2>4. pay'[id].to = pay[id].to \/ pay'[id].to = None
    BY <2>2, <2>3 DEF Reopens
  <2>5. pay'[id].deleted = pay[id].deleted
    <3>1. pay[id].deleted => pay'[id].deleted
      BY <2>2, <2>3, PayRecords, Undisturbed DEF Follower
    <3>2. pay[id].deleted \in BOOLEAN /\ pay'[id].deleted \in BOOLEAN
      BY <2>3, PayRecords, Undisturbed DEF PayRow
    <3>3. pay'[id].deleted => pay[id].deleted
      BY <2>2, <2>3 DEF Reopens, Spares
    <3> QED BY <3>1, <3>2, <3>3
  <2>6. Standing(d) => Latest(d, id) /\ (Standing(id) => pay'[id].to = None)
    BY <1>2, <2>2, <2>3 DEF Follower, Reopens
  <2>7. id # d /\ pay[id].emp = pay[d].emp /\ pay[id].from < pay[d].from
    BY <1>2, <2>2 DEF Follower
  <2> QED BY <1>2, <1>3, <1>4, <1>6, <2>1, <2>2, <2>3, <2>4, <2>5, <2>6, <2>7
<1> QED BY <1>1, <1>5, <1>6

\* Apart, of rows that end after they start.
LEMMA ApartRows ==
    ASSUME NEW a \in PayRow, NEW b \in PayRow, a.to # None => a.to >= a.from,
           b.to # None => b.to >= b.from, Apart(a, b)
    PROVE  /\ a.from <= b.from => a.to # None /\ a.to < b.from
           /\ a.from # b.from
<1>1. a.from \in Int /\ b.from \in Int /\ a.to \in Int \cup {None} /\ b.to \in Int \cup {None}
  BY DEF PayRow
<1>2. CASE a.to # None /\ a.to < b.from
  BY <1>1, <1>2
<1>3. CASE b.to # None /\ b.to < a.from
  BY <1>1, <1>3
<1> QED BY <1>2, <1>3 DEF Apart

\* A deletion.
LEMMA SequencedDrops ==
    ASSUME TypeInv, Constraints, DatesInv, NEW p \in Procs, Commit(p), Commits(p),
           proc[p].pc = "commit", proc[p].for # "update", NEW e \in Employees \ moved'
    PROVE  Sequenced(e)'
<1>1. PICK d : d = proc[p].gone
  OBVIOUS
<1>2. e \in Employees /\ e \notin moved /\ Sequenced(e)
  BY Undisturbed DEF DatesInv
<1>3. Deletes(p) /\ DropsInOrder(p) /\ HoldsGone(p) /\ Written(p) = DOMAIN proc[p].writes
  BY CommitCases DEF TypeInv, HandlerOK, DatesInv, Dated, Deletes
<1>4. \A n \in Ids : pay[n] = None => pay'[n] = None
  BY <1>3, NothingInserted DEF DropsInOrder
<1>5. RowsOf(e)' = {i \in RowsOf(e) : ~ pay'[i].deleted}
  BY <1>4, RowsAfter
<1>6. \A i \in RowsOf(e) : /\ i \in Ids /\ pay[i] # None /\ pay[i].emp = e /\ ~ pay[i].deleted
                           /\ pay[i] \in PayRow /\ pay'[i].from = pay[i].from
                           /\ pay'[i] # None /\ pay'[i].emp = e
                           /\ i \notin Written(p) => pay'[i] = pay[i]
                           /\ pay[i].to # None => pay[i].to >= pay[i].from
  BY Undisturbed DEF RowsOf, Standing, Constraints, OrderedRows, Present, TypeInv, TablesOK
<1>7. CASE e # pay[d].emp
  <2>1. \A i \in Written(p) : pay[i].emp = pay[d].emp
    BY <1>1, <1>3 DEF DropsInOrder, Deletes, Follower, HandlerOK, TypeInv, Saves
  <2>2. \A i \in RowsOf(e) : pay'[i] = pay[i]
    BY <1>6, <1>7, <2>1
  <2>3. RowsOf(e)' = RowsOf(e)
    BY <1>5, <1>6, <2>2
  <2> QED BY <1>2, <2>2, <2>3, SequencedKept
<1>8. CASE e = pay[d].emp
  <2>1. /\ d \in Ids /\ pay[d] # None /\ Calm(d) /\ d \in Written(p) /\ pay'[d].deleted
        /\ \A i \in Written(p) \ {d} :
             /\ i = proc[p].id
             /\ pay'[i].deleted = pay[i].deleted
             /\ pay'[i].to = pay[i].to \/ pay'[i].to = None
             /\ Standing(d) => Latest(d, i) /\ (Standing(i) => pay'[i].to = None)
        /\ Standing(d) => Below(d) = {} \/ Written(p) # {d}
    BY <1>1, <1>8, DropCommit
  <2>2. \A i \in RowsOf(e) \ {d} : /\ ~ pay'[i].deleted
                                   /\ pay'[i].to = pay[i].to \/ (pay'[i].to = None /\ i = proc[p].id)
    BY <1>6, <2>1
  <2>3. RowsOf(e)' = RowsOf(e) \ {d}
    BY <1>5, <2>1, <2>2
  <2>4. CASE RowsOf(e) \ {d} = {}
    BY <2>3, <2>4 DEF Sequenced
  <2>5. CASE RowsOf(e) \ {d} # {}
    <3>1. PICK a \in RowsOf(e) : pay[a].to = None
      BY <1>2, <2>5 DEF Sequenced, FindActive
    <3>2. CASE a # d
      <4>1. pay'[a].to = None /\ a \in RowsOf(e)'
        BY <2>2, <2>3, <3>1, <3>2
      <4>2. ASSUME NEW i \in RowsOf(e) \ {d}, pay'[i].to = None PROVE i = a
        <5>1. OneOpen(pay') /\ DOMAIN pay' = Ids
          BY DEF Commits, Storable, OneOpen
        <5> QED BY <1>6, <2>2, <3>2, <4>1, <4>2, <5>1 DEF OneOpen, Present
      <4>3. \A i \in RowsOf(e) \ {d} : pay'[i].to = pay[i].to
        BY <2>2, <3>1, <4>1, <4>2
      <4>4. \A i, j \in RowsOf(e)' : i # j => Apart(pay'[i], pay'[j])
        BY <1>2, <1>6, <2>3, <4>3 DEF Sequenced, Apart
      <4>5. a \in FindActive(e)'
        BY <4>1 DEF FindActive
      <4> QED BY <4>4, <4>5 DEF Sequenced, Apart
    <3>3. CASE a = d
      <4>1. Standing(d) /\ d \in RowsOf(e) /\ pay[d].to = None
        BY <3>1, <3>3 DEF RowsOf
      <4>2. ASSUME NEW j \in RowsOf(e) \ {d} PROVE j \in Below(d)
        <5>1. Apart(pay[j], pay[d])
          BY <1>2, <4>1 DEF Sequenced
        <5>2. pay[j].to # None /\ pay[j].to < pay[d].from
          BY <4>1, <5>1 DEF Apart
        <5>3. pay[j].from < pay[d].from
          BY <1>6, <4>1, <5>2 DEF PayRow
        <5> QED BY <1>8, <5>3 DEF Below
      <4>3. Below(d) # {}
        BY <2>5, <4>2
      <4>4. PICK id \in Written(p) \ {d} : Latest(d, id) /\ (Standing(id) => pay'[id].to = None)
        BY <2>1, <4>1, <4>3
      <4>5. /\ id \in RowsOf(e) \ {d} /\ pay'[id].to = None
            /\ \A j \in RowsOf(e) \ {d} : pay[j].from <= pay[id].from
        BY <1>8, <4>2, <4>3, <4>4 DEF Latest, Below, RowsOf
      <4>6. \A j \in RowsOf(e) \ {d} : j # id => pay'[j].to = pay[j].to
        BY <2>1, <2>2, <4>4
      <4>7. ASSUME NEW j \in RowsOf(e) \ {d}, j # id
            PROVE  pay'[j].to # None /\ pay'[j].to < pay'[id].from
        <5>1. Apart(pay[j], pay[id])
          BY <1>2, <4>5, <4>7 DEF Sequenced
        <5>2. pay[j].to # None /\ pay[j].to < pay[id].from
          BY <1>6, <4>5, <5>1, ApartRows
        <5> QED BY <1>6, <4>5, <4>6, <4>7, <5>2
      <4>8. \A i, j \in RowsOf(e)' : i # j => Apart(pay'[i], pay'[j])
        <5> SUFFICES ASSUME NEW i \in RowsOf(e) \ {d}, NEW j \in RowsOf(e) \ {d}, i # j
                     PROVE  Apart(pay'[i], pay'[j])
          BY <2>3
        <5>1. CASE i = id \/ j = id
          BY <4>7, <5>1 DEF Apart
        <5>2. CASE i # id /\ j # id
          <6>1. Apart(pay[i], pay[j])
            BY <1>2 DEF Sequenced
          <6> QED BY <1>6, <4>6, <5>2, <6>1 DEF Apart
        <5> QED BY <5>1, <5>2
      <4>9. id \in FindActive(e)'
        BY <2>3, <4>5 DEF FindActive
      <4> QED BY <4>8, <4>9 DEF Sequenced, Apart
    <3> QED BY <3>2, <3>3
  <2> QED BY <2>4, <2>5
<1> QED BY <1>7, <1>8

\* After every commit.
LEMMA SequencedCommit ==
    ASSUME TypeInv, Constraints, DatesInv, NEW p \in Procs, Commit(p), Commits(p)
    PROVE  \A e \in Employees \ moved' : Sequenced(e)'
<1>1. HandlerOK(p) /\ Ready(p)
  BY CommitCases DEF TypeInv
<1>2. CASE proc[p].pc = "insert_next"
  BY <1>2, SequencedSets
<1>3. CASE proc[p].pc = "commit" /\ proc[p].for = "update"
  BY <1>3, SequencedCorrects DEF Corrects
<1>4. CASE proc[p].pc = "commit" /\ proc[p].for # "update"
  BY <1>4, SequencedDrops
<1> QED BY <1>1, <1>2, <1>3, <1>4 DEF Ready

\* A rate that one handler deletes, seen by the commit of another: no rate comes
\* between it and those before it.
LEMMA BelowKept ==
    ASSUME TypeInv, Constraints, DatesInv, NEW p \in Procs, Commit(p), Commits(p),
           NEW d \in Ids \ Written(p), Standing(d), pay[d].emp \notin moved'
    PROVE  /\ Below(d)' \subseteq Below(d)
           /\ \A j \in Below(d) : ~ pay'[j].deleted => j \in Below(d)'
           /\ \A j \in Below(d) : pay'[j].from = pay[j].from
           /\ pay'[d] = pay[d]
<1>1. PICK e : e = pay[d].emp
  OBVIOUS
<1>2. /\ pay'[d] = pay[d] /\ pay[d] \in PayRow /\ e \in Employees \ moved' /\ d \in RowsOf(e)
  BY <1>1, Undisturbed DEF Standing, PayRow, RowsOf
<1>3. ASSUME NEW j \in Below(d)'
      PROVE  j \in Below(d)
  <2>1. j \in Ids /\ j # d /\ pay'[j] # None /\ ~ pay'[j].deleted /\ pay'[j].emp = e
        /\ pay'[j].from < pay[d].from
    BY <1>1, <1>2, <1>3 DEF Below, RowsOf, Standing
  <2>2. CASE pay[j] = None
    <3>1. proc[p].pc = "insert_next"
      <4>1. HandlerOK(p) /\ Dated(p) /\ Ready(p)
        BY CommitCases DEF TypeInv, DatesInv
      <4>2. proc[p].inserts # {}
        BY <2>1, <2>2, NothingInserted
      <4> QED BY <4>1, <4>2 DEF Ready, HandlerOK, Dated, Spared, Deletes, DropsInOrder
    <3>2. pay[d].from < pay'[j].from
      BY <1>2, <2>1, <2>2, <3>1, InsertedRow
    <3>3. pay'[j].from \in Int /\ pay[d].from \in Int
      BY <1>2, <2>1, CommitRows DEF Started, PayRow
    <3> QED BY <2>1, <3>2, <3>3
  <2>3. CASE pay[j] # None
    <3>1. pay[j].emp = e /\ pay'[j].from = pay[j].from /\ ~ pay[j].deleted
      BY <1>2, <2>1, <2>3, Undisturbed
    <3> QED BY <1>1, <2>1, <2>3, <3>1 DEF Below, RowsOf, Standing
  <2> QED BY <2>2, <2>3
<1>4. ASSUME NEW j \in Below(d)
      PROVE  pay'[j].from = pay[j].from /\ (~ pay'[j].deleted => j \in Below(d)')
  <2>1. j \in Ids /\ j # d /\ pay[j] # None /\ pay[j].emp = e /\ pay[j].from < pay[d].from
    BY <1>1 DEF Below, RowsOf, Standing
  <2>2. pay'[j] # None /\ pay'[j].emp = e /\ pay'[j].from = pay[j].from
    BY <1>2, <2>1, Undisturbed
  <2> QED BY <1>1, <1>2, <2>1, <2>2 DEF Below, RowsOf, Standing
<1> QED BY <1>2, <1>3, <1>4

\* A commit by another handler leaves the latest rate before a deleted one the latest.
LEMMA LatestKept ==
    ASSUME TypeInv, Constraints, DatesInv, NEW p \in Procs, Commit(p), Commits(p),
           NEW d \in Ids \ Written(p), Standing(d), pay[d].emp \notin moved', NEW id, Latest(d, id)
    PROVE  Latest(d, id)'
<1>1. /\ Below(d)' \subseteq Below(d)
      /\ \A j \in Below(d) : ~ pay'[j].deleted => j \in Below(d)'
      /\ \A j \in Below(d) : pay'[j].from = pay[j].from
      /\ pay'[d] = pay[d]
  BY BelowKept
<1>2. CASE Below(d) = {}
  BY <1>1, <1>2 DEF Latest
<1>3. CASE id \in Below(d) /\ ~ pay'[id].deleted
  BY <1>1, <1>3 DEF Latest
<1>4. CASE id \in Below(d) /\ pay'[id].deleted
  <2>1. PICK e : e = pay[d].emp
    OBVIOUS
  <2>2. /\ e \in Employees \ moved' /\ d \in RowsOf(e) /\ id \in RowsOf(e) /\ id # d
        /\ Sequenced(e) /\ Sequenced(e)' /\ id \in Ids /\ pay[id] # None /\ Standing(id)
        /\ pay[id].emp = e /\ pay[id].from < pay[d].from
    BY <1>4, <2>1, SequencedCommit, Undisturbed DEF Below, Standing, RowsOf, PayRow, DatesInv
  <2>3. id \in Written(p) /\ ~ pay[id].deleted
    BY <1>4, <2>2, Undisturbed DEF Standing
  <2>4. /\ id \in Ids /\ pay[id] \in PayRow /\ id \in DOMAIN proc[p].writes
        /\ pay'[id].deleted = IF "deleted" \in DOMAIN proc[p].writes[id]
                              THEN proc[p].writes[id].deleted ELSE pay[id].deleted
    BY <2>3, WrittenDates
  <2>5. ~ Spares(proc[p].writes[id])
    BY <1>4, <2>3, <2>4 DEF Spares
  <2>6. proc[p].pc = "commit" /\ proc[p].for # "update"
    <3>1. HandlerOK(p) /\ Dated(p) /\ Ready(p)
      BY CommitCases DEF TypeInv, DatesInv
    <3> QED BY <2>4, <2>5, <3>1 DEF Ready, HandlerOK, Dated, Spared, Sets, SetsInOrder, Ends
  <2>7. PICK g : g = proc[p].gone
    OBVIOUS
  <2>8. Deletes(p) /\ DropsInOrder(p) /\ HoldsGone(p) /\ Written(p) = DOMAIN proc[p].writes
        /\ proc[p].for \in {"delete", "reactivate"}
    BY <2>6, CommitCases DEF TypeInv, HandlerOK, DatesInv, Dated, Deletes
  <2>9. id = g
    BY <2>3, <2>5, <2>6, <2>7, <2>8 DEF DropsInOrder, Reopens
  <2>10. /\ \A i \in Written(p) \ {id} :
              /\ pay'[i].deleted = pay[i].deleted /\ pay[i].from < pay[id].from
              /\ i \in Ids /\ pay[i].emp = e
              /\ Latest(id, i) /\ (Standing(i) => pay'[i].to = None)
         /\ Below(id) = {} \/ Written(p) # {id}
    BY <2>2, <2>6, <2>7, <2>9, DropCommit
  <2>11. \A i \in RowsOf(e) : /\ pay[i] \in PayRow /\ pay'[i] \in PayRow
                              /\ pay[i].to # None => pay[i].to >= pay[i].from
                              /\ pay'[i].to # None => pay'[i].to >= pay'[i].from
                              /\ pay'[i].from = pay[i].from
    <3>1. OrderedRows(pay') /\ OrderedRows(pay) /\ DOMAIN pay' = Ids /\ DOMAIN pay = Ids
      BY DEF Commits, Storable, OrderedRows, Constraints, TypeInv, TablesOK
    <3> QED BY <2>2, <3>1, Undisturbed DEF RowsOf, Standing, OrderedRows, Present
  <2>12. Below(id) = {}
    <3>1. SUFFICES ASSUME Below(id) # {} PROVE FALSE
      OBVIOUS
    <3>2. PICK i \in Written(p) \ {id} : Latest(id, i)
      BY <2>3, <2>10, <3>1
    <3>3. i \in Below(id)
      BY <3>1, <3>2 DEF Latest
    <3>4. i \in RowsOf(e) /\ Standing(i) /\ pay[i].from < pay[id].from /\ i \in Ids
      BY <2>2, <3>3 DEF Below, RowsOf
    <3>5. pay'[i].to = None /\ ~ pay'[i].deleted /\ pay'[i] # None /\ pay'[i].emp = e
      BY <2>2, <2>10, <3>2, <3>4, Undisturbed DEF Standing
    <3>6. i \in RowsOf(e)' /\ d \in RowsOf(e)' /\ i # d
      BY <1>1, <2>2, <2>11, <3>4, <3>5 DEF RowsOf, Standing, PayRow
    <3>7. Apart(pay'[i], pay'[d])
      BY <2>2, <3>6 DEF Sequenced, Apart
    <3>8. pay'[i].from <= pay'[d].from
      BY <2>2, <2>11, <3>4 DEF PayRow
    <3> QED BY <2>2, <2>11, <3>4, <3>5, <3>7, <3>8, ApartRows
  <2>13. ASSUME NEW j \in Below(d) PROVE pay'[j].deleted
    <3>1. CASE j = id
      BY <1>4, <3>1
    <3>2. CASE j # id
      <4>1. j \in RowsOf(e) /\ pay[j].from <= pay[id].from
        BY <2>1, <1>4 DEF Latest, Below
      <4>2. Apart(pay[j], pay[id])
        BY <2>2, <3>2, <4>1 DEF Sequenced
      <4>3. pay[j].from # pay[id].from
        BY <2>2, <2>11, <4>1, <4>2, ApartRows
      <4>4. j \in Below(id)
        BY <2>2, <2>11, <3>2, <4>1, <4>3 DEF Below, PayRow
      <4> QED BY <2>12, <4>4
    <3> QED BY <3>1, <3>2
  <2>14. Below(d)' = {}
    <3>1. \A j \in Below(d)' : ~ pay'[j].deleted
      BY DEF Below, RowsOf, Standing
    <3> QED BY <1>1, <2>13, <3>1
  <2> QED BY <2>14 DEF Latest
<1> QED BY <1>2, <1>3, <1>4 DEF Latest

\* A handler that waits while another commits keeps its promises.
LEMMA OtherSets ==
    ASSUME TypeInv, NEW p \in Procs, Commit(p), Commits(p), NEW q \in Procs, proc'[q] = proc[q],
           HandlerOK(q), Sets(q), SetsInOrder(q)
    PROVE  SetsInOrder(q)'
<1>1. HoldsWrites(q) /\ HoldsRate(q) /\ (proc[q].pc \in Saves => HoldsSave(q))
  BY DEF HandlerOK, Sets, Steps, Saves
<1>2. /\ moved \subseteq moved'
      /\ \A i \in Ids : Started(pay[i], today) =>
            pay'[i].emp = pay[i].emp /\ (pay[i].emp \notin moved' => pay'[i].from = pay[i].from)
  BY PayRecords, Undisturbed DEF Started
<1>3. ASSUME NEW i \in Ids, Started(pay[i], today), Replaced(q, i) PROVE Replaced(q, i)'
  BY <1>2, <1>3 DEF Replaced, Calm
<1>4. \A i \in DOMAIN proc[q].writes : Replaced(q, i)' /\ pay'[i].emp = pay[i].emp
  BY <1>1, <1>2, <1>3 DEF HoldsWrites, SetsInOrder
<1>5. proc[q].pc \in Saves => Replaced(q, proc[q].id)' /\ pay'[proc[q].id].emp = pay[proc[q].id].emp
  BY <1>1, <1>2, <1>3 DEF HoldsSave, SetsInOrder
<1> QED BY <1>4, <1>5 DEF SetsInOrder

\* A deletion that waits while another handler commits keeps what it holds.
LEMMA OtherDrops ==
    ASSUME TypeInv, Constraints, DatesInv, NEW p \in Procs, Commit(p), Commits(p),
           NEW q \in Procs, p # q, proc'[q] = proc[q], Deletes(q), DropsInOrder(q)
    PROVE  DropsInOrder(q)'
<1>1. PICK d : d = proc[q].gone
  OBVIOUS
<1>2. PICK id : id = proc[q].id
  OBVIOUS
<1>3. HandlerOK(q) /\ HoldsGone(q) /\ HoldsWrites(q) /\ Written(q) = DOMAIN proc[q].writes
  BY DEF TypeInv, HandlerOK, Deletes, Steps, Saves, HoldsWrites, Written
<1>4. /\ moved \subseteq moved' /\ d \in Ids /\ pay[d] # None /\ pay'[d].emp = pay[d].emp
      /\ pay[d].emp \notin moved' => /\ Calm(d) /\ pay'[d].from = pay[d].from
                                     /\ pay[d].deleted => pay'[d].deleted
  BY <1>1, <1>3, PayRecords, Undisturbed DEF HoldsGone, Started, Calm
<1>5. ASSUME NEW patch, Drops(d, patch) PROVE Drops(d, patch)'
  BY <1>4, <1>5 DEF Drops, Calm
<1>6. Calm(d)' => pay'[d].from = proc[q].read.from
  BY <1>1, <1>4 DEF DropsInOrder, Calm
<1>7. d \in DOMAIN proc[q].writes => d \notin Written(p)
  BY <1>3 DEF DatesInv, Locks
<1>8. ASSUME Calm(d)', Standing(d)' PROVE Calm(d) /\ Standing(d) /\ pay[d].emp \notin moved'
  BY <1>4, <1>8 DEF Calm, Standing
<1>9. ASSUME d \in DOMAIN proc[q].writes, Calm(d) /\ Standing(d) => Below(d) = {}, Calm(d)', Standing(d)'
      PROVE  Below(d)' = {}
  BY <1>4, <1>7, <1>8, <1>9, BelowKept
<1>10. ASSUME d \in DOMAIN proc[q].writes, id \in Ids, pay[id] # None, Follower(d, id)
       PROVE  Follower(d, id)'
  <2>1. id # d /\ pay'[id].emp = pay'[d].emp
    BY <1>4, <1>10, Undisturbed DEF Follower
  <2>2. Calm(d)' => pay'[id].from < pay'[d].from
    BY <1>4, <1>10, Undisturbed DEF Follower, Calm
  <2>3. ASSUME Calm(d)', Standing(d)' PROVE Latest(d, id)'
    BY <1>4, <1>7, <1>8, <1>10, <2>3, LatestKept DEF Follower
  <2> QED BY <2>1, <2>2, <2>3 DEF Follower
<1>11. ASSUME id \in Ids, pay[id] # None, NEW patch, Reopens(d, id, patch), Follower(d, id)
       PROVE  Reopens(d, id, patch)'
  <2>1. ASSUME Calm(d)', Standing(d)', Standing(id)' PROVE Standing(id)
    BY <1>4, <1>8, <1>11, <2>1, Undisturbed DEF Follower, Standing
  <2> QED BY <1>8, <1>11, <2>1 DEF Reopens
<1>12. proc[q].pc \in Saves \cup {"commit"} /\ proc[q].for = "reactivate" => id \in Ids /\ pay[id] # None
  <2>1. proc[q].pc \in Saves => id \in Ids /\ pay[id] # None
    BY <1>2, <1>3, PayRecords DEF HandlerOK, HoldsSave, Started
  <2>2. proc[q].pc = "commit" /\ proc[q].for = "reactivate" => id \in Ids /\ pay[id] # None
    BY <1>2, <1>3, PayRecords DEF DropsInOrder, HoldsWrites, Started
  <2> QED BY <2>1, <2>2
<1>13. Saves' = Saves
  BY DEF Saves
<1>14. CASE proc[q].pc \in Saves /\ proc[q].for = "delete"
  BY <1>1, <1>5, <1>6, <1>14 DEF DropsInOrder, Saves
<1>15. CASE proc[q].pc = "previous"
  BY <1>1, <1>5, <1>6, <1>15 DEF DropsInOrder, Saves
<1>16. CASE proc[q].pc = "commit" /\ proc[q].for = "delete"
  BY <1>1, <1>5, <1>6, <1>9, <1>16 DEF DropsInOrder, Saves
<1>17. CASE proc[q].pc \in Saves /\ proc[q].for = "reactivate"
  BY <1>1, <1>2, <1>5, <1>6, <1>10, <1>11, <1>12, <1>17 DEF DropsInOrder, Saves
<1>18. CASE proc[q].pc = "commit" /\ proc[q].for = "reactivate"
  BY <1>1, <1>2, <1>5, <1>6, <1>10, <1>11, <1>12, <1>18 DEF DropsInOrder, Saves
<1> QED BY <1>14, <1>15, <1>16, <1>17, <1>18 DEF Deletes

\* A commit leaves the rates of every employee in sequence.
LEMMA DatedCommit ==
    ASSUME TypeInv, Constraints, DatesInv, NEW p \in Procs, Commit(p)
    PROVE  DatesInv'
<1>1. Finish(p) /\ today' = today /\ DOMAIN proc = Procs
  BY CommitCases DEF TypeInv, TablesOK
<1>2. CASE UNCHANGED <<pay, trail, moved, raced>>
  BY <1>1, <1>2, FinishDated DEF Quiet
<1>3. CASE Commits(p)
  <2>1. DOMAIN proc' = Procs /\ proc'[p] = Idle /\ \A q \in Procs \ {p} : proc'[q] = proc[q]
    BY <1>1, FinishOK
  <2>2. Dated(p)'
    BY <2>1 DEF Idle, Dated, Saves, Sets, Deletes
  <2>3. ASSUME NEW q \in Procs \ {p} PROVE Dated(q)'
    <3>1. proc'[q] = proc[q] /\ Dated(q) /\ HandlerOK(q)
      BY <2>1 DEF DatesInv, TypeInv
    <3>2. Sets(q)' = Sets(q) /\ Deletes(q)' = Deletes(q)
      BY <3>1 DEF Sets, Deletes
    <3>3. Sets(q) => SetsInOrder(q)'
      BY <1>3, <3>1, OtherSets DEF Dated
    <3>4. Deletes(q) => DropsInOrder(q)'
      BY <1>3, <3>1, OtherDrops DEF Dated
    <3>5. Spared(q) => Spared(q)'
      BY <3>1 DEF Spared
    <3> QED BY <3>1, <3>2, <3>3, <3>4, <3>5 DEF Dated
  <2>4. Locks'
    <3>1. Written(p)' = {} /\ \A q \in Procs \ {p} : Written(q)' = Written(q)
      BY <2>1 DEF Written, Idle
    <3> QED BY <3>1 DEF Locks, DatesInv
  <2> QED BY <1>3, <2>2, <2>3, <2>4, SequencedCommit DEF DatesInv
<1> QED BY <1>2, <1>3, CommitCases

\* Every step keeps the dates in order.
LEMMA DatesStep == TypeInv /\ Constraints /\ DatesInv /\ [Next]_vars => DatesInv'
<1> SUFFICES ASSUME TypeInv, Constraints, DatesInv, [Next]_vars PROVE DatesInv'
  OBVIOUS
<1>1. ASSUME NEW p \in Procs, TransactionStep(p) PROVE DatesInv'
  <2>1. CASE RollBack(p)
    BY <2>1, FinishDated DEF RollBack, Quiet
  <2> QED BY <1>1, <2>1, DatedInsertNext, DatedLoad, DatedWrite, DatedPrevious, DatedCommit
          DEF TransactionStep
<1>2. CASE UNCHANGED <<pay, proc, moved>>
  <2>1. \A q \in Procs : Dated(q)'
    BY <1>2, DatedSame DEF DatesInv, SameRows
  <2>2. Locks'
    BY <1>2 DEF DatesInv, Locks, Written
  <2> QED BY <1>2, <2>1, <2>2, SequencedSame DEF DatesInv, SameRows
<1> QED BY <1>1, <1>2, DatedRequest DEF Next, NextDay, vars

\* There is nothing to put in order at first.
LEMMA DatesInit == Init => DatesInv
BY DEF Init, DatesInv, Sequenced, RowsOf, Standing, Locks, Written, Idle, Dated, Saves, Sets, Deletes

\* The invariant of the dates holds in every reachable state.
THEOREM DatesInvariant == Spec => [](TypeInv /\ Constraints /\ DatesInv)
<1>1. Init => TypeInv /\ Constraints /\ DatesInv
  BY TypeInit, IndexInit, DatesInit
<1>2. TypeInv /\ Constraints /\ DatesInv /\ [Next]_vars => (TypeInv /\ Constraints /\ DatesInv)'
  BY TypeStep, IndexStep, DatesStep
<1> QED BY <1>1, <1>2, PTL DEF Spec

\* findRatesOnDate has one answer on every day, however set-pays, corrections, deletions
\* and failures interleave, unless a correction moved a start or a stale save revived a
\* rate or moved an end.
THEOREM OneRatePerDay == Spec => []OneRateOnDate
<1>1. TypeInv /\ Constraints /\ DatesInv => OneRateOnDate
  <2> SUFFICES ASSUME TypeInv, Constraints, DatesInv, NEW e \in Employees \ moved, NEW day \in Days
               PROVE  Cardinality(FindRatesOnDate(e, day)) <= 1
    BY DEF OneRateOnDate
  <2>1. ASSUME NEW i \in FindRatesOnDate(e, day), NEW j \in FindRatesOnDate(e, day), i # j PROVE FALSE
    <3>1. i \in RowsOf(e) /\ j \in RowsOf(e) /\ InEffect(i, day) /\ InEffect(j, day)
      BY DEF FindRatesOnDate
    <3>2. Apart(pay[i], pay[j]) /\ pay[i] \in PayRow /\ pay[j] \in PayRow
      BY <2>1, <3>1 DEF DatesInv, Sequenced, RowsOf, Standing, TypeInv, TablesOK
    <3>3. day \in Int
      BY PayConstants DEF Days
    <3> QED BY <3>1, <3>2, <3>3 DEF Apart, InEffect, PayRow
  <2> QED BY <2>1, AtMostOne
<1> QED BY <1>1, DatesInvariant, PTL
=============================================================================
