# Formal models of asima-backend

asima-backend is a NestJS service on TypeORM and PostgreSQL for leave,
attendance, schedules, pay and the approvals around them. This directory holds
TLA+ models of it, TLC configurations that check them, and proofs checked by
TLAPS. Paths below are relative to `src/src/` unless they start with `tla/`.

    tlc -workers 2 -config leave_booking.cfg MCLeaveRequests    # any run of PROJECT.json
    tlapm LeaveBookingProofs.tla                                # any *Proofs module

`PROJECT.json` lists the runs, the lines each definition stands for (`map`),
one mutant per checked property, the findings, the hazards and the theorems.

## The system

Every handler is an `async` function. Between two awaited queries any other
handler may run, in this process or in another one; PostgreSQL runs at READ
COMMITTED. Five operations open a transaction: leave submit, the chain changes,
set-pay and its corrections, and the apply of a schedule change. Everything else
reads a row, decides, and saves. Almost every hazard of this code comes from
what may happen between the read and the save.

| Component | State | Operations | Uses | Must hold | Status |
|---|---|---|---|---|---|
| Leave requests (`leave-requests/`) | `leave_requests` | submit, approve, reject, cancel, HR edit, system cancel | chains, allocations, schedules, users, storage | bookings fit the allowance, no double booking, approvals signed, terminal is final | modelled |
| Day count (`leave-day-count.service.ts`) | none | range rules, counted days | schedules | the days charged are the days of the schedule | partly |
| Allocations, balance (`leave-allocations/`, `leave-balance.service.ts`) | `leave_allocations` | grant, lock and sum, balance view | users | the sum under the lock is the sum that is spent | partly |
| Auth (`auth/`) | `refresh_tokens` | login, refresh, logout, sweep | users | a token rotates once, a revoked family stays dead | modelled |
| Approval chains (`approval-chains/`) | `approval_chains` | setChain, bulkAssign, bulkReassign, endStep | users | one approver per step, no L2 without L1 | modelled |
| Time entries (`time-entries/`) | `time_entries` | punch, create, edit, delete, applyCorrection | none | one open entry per employee, status follows the window | modelled |
| Time corrections (`time-correction-requests/`) | `time_correction_requests` | submit, approve, reject, cancel, HR edit, system cancel | chains, time entries, users | an approved request is applied, an applied one is signed, one active request per target | modelled |
| Work schedules (`work-schedules/`) | `work_schedules` | create, edit, end, preview and apply a change | leave requests, corrections | one active row a weekday, half-days follow the schedule, nothing cancelled unseen | modelled |
| Compensation (`compensation/`) | `employee_compensations`, audits | set pay, bulk, correct, delete | none | one rate on a date, the trail shows the row | modelled |
| Storage (`storage/`) | objects, `attachments` | upload, persist, cleanup, purge | none | no row without objects; orphans only after failures | modelled |
| Users (`users/`) | `users` | create, edit, passwords, delete | roles, allocations | one account per email, the default allocations once | modelled |
| Roles, permissions | `roles`, `permissions` | create, rename, assign, delete | none | names unique, built-in roles stand | partly |
| Seeds (`database/seeds/`) | every table | nine seeders in order, purge | all | nothing seeded twice, a failed run is healed | modelled |
| Inbox (`approvals/`) | none | merged read-only list | leave, corrections | none of its own | not modelled |
| Platform (`main.ts`, `config/`, `utils/`, `health/`) | none | wiring | all | none | not modelled |

How they meet: a submit reads the employee's chain (`getActive`), the schedule,
the other requests and the allocation rows, and puts the approvers into the
request as a snapshot. A decision reads the request and the approver's account.
A schedule change writes leave requests and corrections. Every guard reads
`users.is_active`. No component holds state in memory between requests, so a
restart is a set of handlers that stop: `Abort` in each model
(`RollBack`, `CallFails`, `RunStops` where a transaction, a call or a program
ends).

## Modules

| Module | What it is |
|---|---|
| `LeaveRequests` | leave requests with allocations, chains, accounts and the clock around them |
| `Totals` | sums over request ids, as a recursive function |
| `RefreshTokens` | sessions and the revocation ledger |
| `OneTimeTokens` | abstract: what sessions promise; `RefreshTokens` implements it |
| `ApprovalChains` | assignments of approvers and the four ways to change them |
| `Rows` | patches over rows and the diff of a save, for the modules below |
| `TimeEntries` | the timesheet; has actions, and no behaviour of its own |
| `TimeCorrections` | extends `TimeEntries` with the requests that are applied to it |
| `Compensation` | effective-dated pay and its audit trail |
| `CascadePolicy` | the pure rules of a schedule change and the half-day window |
| `WorkSchedules` | schedules, preview and apply of a change, and the requests it cancels |
| `Accounts` | accounts, roles, permissions, default allowances: actions only |
| `Storage` | objects and attachment rows: actions only |
| `SeedData` | the rows the seeders build: chains, leave, corrections |
| `Seeds` | the seed program composed with `Accounts` and `Storage` |
| `MC...` | instances for TLC: constants of a run, symmetry |
| `LeaveRequestsProofs`, `RefreshTokensProofs`, `ApprovalChainsProofs`, `TimeCorrectionsProofs`, `WorkSchedulesProofs`, `CompensationProofs`, `SeedsProofs` | theorems and proofs about the module of the same name; the second one also proves that `RefreshTokens` implements `OneTimeTokens` |
| `LeaveBookingProofs` | the sums of `Totals`, and what holds of bookings in `LeaveRequests` |

All systems are modelled the same way. `proc[p]` is a handler in flight:
its `pc` names the query it awaits next, the other fields are the values it has
read and still uses. One action is the code from one query to the next. Guards
come from the code's conditions; an early return or an exception is `Finish`.

### LeaveRequests

`req` holds the row of each request, `allowance` the sum of the allocation rows
of an employee and type, `lock` the holder of their `FOR UPDATE` lock, `chain`
and `active` the chains and accounts, `today` the business date.

* **Submit** (`leave-requests.service.ts:95`) is `SubmitBegin` (range rules,
  chain snapshot), `SubmitCheckOverlap` (outside the transaction), `SubmitLock`,
  `SubmitCheckBalance`, `SubmitInsert`. The transaction begins at the lock.
  With no allocation row nothing is locked, as in the code: grants are positive,
  so a sum of zero means that there is no row.
* **Decisions.** `Approve`, `Reject`, `Cancel` and `Update` decide on the row
  they read. On the chain path `ApproveCheckApprover` follows, the look-up of
  the step approver's account. Each then saves columns through
  `repository.update`.
* **Save** is three steps, because `Repository.save` of TypeORM is: `SaveLoad`
  (findOneOrFail and Object.assign), `SaveDiff` (save selects the row again and
  keeps the columns that differ), `SaveWrite` (one UPDATE of those columns,
  refused by a CHECK of the table). A handler therefore writes over whatever
  happened since its read, but only in the columns it changes. `SaveDiff` is the
  library's behaviour and marked external.
* **Around it:** `SystemCancel` (schedule change; any set of active requests),
  `Grant`, `SetChain`, `SetActive`, `NextDay`.

Days are counted in halves, so half a day is 1. `day_portion` is read off the
days: a row of one half is a half-day row. When two edits of one request
interleave column by column the model may store a row whose CHECK on
`day_portion` PostgreSQL would refuse; it errs on the side of more behaviours.
The schedule of the employee is a constant set of work days. The half-day
window, the reason, decision notes, timestamps, events and attachment objects
are left out: no modelled guard reads them.

Three history variables exist for the properties: `signed` (who decided to
approve), `touched` (requests whose booking an edit moved or a stale save
revived) and `checked` (the rows that existed at a request's overlap check).

### RefreshTokens

`ledger` is the table, a token is its jti. `Present` and `CheckOwner` are the
guard (`jwt-refresh.strategy.ts:48`), `Rotate` is the conditional UPDATE of
`refresh`, `Issue` the insert at the end of `signTokens`, `RevokeAll` the UPDATE
of a logout or of the answer to reuse, `Prune` the unawaited sweep of a login.
Expiry is a set that grows: nothing compares two expiry times. `swept` and
`loggedOut` are history.

`OneTimeTokens` says what a session promises without handlers or queries: a
token is minted, spent once, and owes its user one new token, which is minted or
forfeited. The refinement mapping takes the issued tokens for the minted ones, an
active row for a usable token, and a handler between burn and issue for a debt.
A logout, a sweep or the answer to reuse is `Void`. `KeepsPromise` is the abstract
specification under this mapping.

### ApprovalChains

`rows` holds, per employee and step, the rows in the order of their insertion.
A request names one employee (`SetChain`), a list (`BulkAssign`), an approver
(`BulkReassign`) or a step (`EndStep`). `Validate` looks up one approver's
account; `ReadChains` and `ReadApprover` read the active rows and compute the
plan (`computeStepChanges`); `Apply` is the transaction `applyStepChanges`,
atomic because its UPDATE and inserts commit together and the partial unique
index makes one of two racing inserts fail. `saw` in a plan is history. The
service takes an explicit null L2 in a bulk assignment, although the comment of
its DTO rules it out, because `@IsOptional()` lets null through; it then clears
the step, and so does the model.

### TimeEntries and TimeCorrections

`entry` is the timesheet. A punch (`time-entries.service.ts:62`) is `Punch` (the
cooldown), `PunchToggle` (the open entry, if any) and an insert or a save. HR
creates, edits and deletes entries; `UpdateEntry` derives the status from the row
it read. `Storable` is the CHECK and the partial unique index of the table.
The final approval of a correction calls `ApplyCorrection`; in the model the
handler carries in `after` the state it goes on to once the entry is stored, as
the code awaits the one and then the other. Nothing here runs in a transaction.
`submit` is split at its checks; decisions decide on the row they read and save
columns, as leave does. History: `raced` (entries two handlers were saving),
`signed`, `applied`, `checked`, `revived`.

### Compensation

Each write is a transaction: `proc[p].writes` and `proc[p].inserts` are what it
has written and nobody sees yet, and a row in `writes` is locked. `InsertNext`
takes the employees of a bulk call one by one; `Commit` meets the CHECK and the
partial unique index, and writes the audit rows. `Loaded` reflects that salary and
rate are `select: false`: save compares only the columns the entity has.
`update` and `softDelete` decide before their transaction begins. The rate is
the salary by 208.67 hours in integer arithmetic, rounded as `Math.round` does.

### CascadePolicy and WorkSchedules

`CascadePolicy` translates `cascade-policy.ts` operator by operator. `Preview`
records what would be cancelled; `Apply`, `ReadLeaves`, `ReadCorrections` recompute
it one statement at a time, the drift guard compares, `Version` reads the live row
again, and `Write` commits the row and the cancellations together. Requests are
filed on the schedule their handler read and decided by a save over the row. A
row HR edits directly cascades to nothing, and neither does a change whose second
read of the live row meets another row than its first: the requests on the weekday
of such a row are in `raced` (`Touched`, `Foreseen`), as are those that were filed
or decided beside a change.

### Accounts, Storage and Seeds

`Accounts` holds the routes of users, roles and allocations with their queries;
`Storage` the uploads, object by object, with a put or a delete failing anywhere, a
transaction that fails, and one whose commit is not acknowledged. `Seeds` runs the nine
seeders of `run-seed.ts` in order: each reads its rows when its turn comes
(`RowsOf`), works through them and inserts what is missing by its natural key. A
run may stop at any query and is started again. In the seeders whose tables the
API of the model does not write at the same time, the look-up and the insert of a
row are one step; those of roles, users and allocations are two. History: `raced`,
`contested`, `strayed`, `doubted`, `purged`.

## Runs

Between them the passing runs fire every action. Deadlock checking is off where
the requests, calls or runs of the bounds can be used up: the system then has
nothing left to do.

| Run | Shows | Bounds |
|---|---|---|
| `leave_booking` | `ReservationsFitAllowance`, `OverlapsOnlyUnseen` for overlapping ranges and half days, first without any allocation row, and `HandlersFinish` under fairness | 2 handlers, 2 requests, 2 days |
| `leave_lifecycle` | `TypeOK`, `ApprovedIsSigned`, `NoStepWithoutApprover` with three handlers on one request, chain and account changes and a moving clock | 3 handlers, 1 request, 2 days |
| `leave_double_booking` | violated: `NoDoubleBooking` | 2 handlers, 2 requests |
| `leave_terminal` | violated: `TerminalIsFinal` | 2 handlers, 1 request |
| `tokens` | `TypeOK`, `SpentOnce`, `SweptYieldNothing`, and `KeepsPromise`: the abstract specification as a property | 2 users, 2 handlers, 3 tokens |
| `tokens_logout` | violated: `LogoutIsFinal` | 1 user, 2 handlers, 2 tokens |
| `chains` | `TypeOK`, `OneApproverPerStep`, `VacatedOnRequestOnly`, `NoUnseenOverwrite` | 2 handlers, 2 employees, 3 users, up to 2 rows a step |
| `chains_orphan` | violated: `NoSecondStepAlone` | 2 handlers, 1 employee, 1 row a step |
| `corrections` | `TypeOK`, `StatusFollowsWindow`, `OneOpenEntry`, `ApprovedIsApplied`, `AppliedIsSigned`, `DuplicatesOnlyUnseen` | 2 handlers, 4 calls, 1 employee, 2 entries, 2 requests, 2 ticks |
| `pay` | `TypeOK`, `OneRateOnDate`, `OneActiveRate`, `RateFollowsSalary`, `TrailMatchesRow` | 2 handlers, 3 calls, 2 employees, 3 rows, 3 days |
| `schedules` | `TypeOK`, `OneActivePerDay`, `HalfDaysFollowSchedule`, `CancelsOnlyPreviewed`, `ApprovedUnderwayKept` | 2 handlers, 3 calls, a week of 2 days, 3 days, 4 rows, 2 requests; one change asks for the hours that stand |
| `seeding` | `TypeOK`, `OneAccountPerEmail`, `DefaultsOnce`, `BackfillHeals`, `NothingSeededTwice`, `NobodyApprovesOwn`, `SeededLeavesSound`, `BuiltInRolesStand`, `RowsHaveObjects`, `NoStrayObjects` | 2 API handlers, 2 runs, 4 accounts, 3 roles, 2 uploads, a budget of calls |

Why the bounds suffice. Every race here is between two handlers on one row or
one key; the third one in `leave_lifecycle` decides between two others. Two requests are enough for an overlap and for a balance of one request.
Three tokens give a login, its rotation and a rival. A handler slot is reused,
so runs are not limited to two handlers in all. One employee suffices in the
leave runs because rows of different employees share nothing that a guard
reads. In `corrections` the open entry of the
first state makes a punch, an edit and a correction meet on one row within four
calls; two requests make a duplicate. In `pay` three rows are a rate, its
successor and the one that replaces it, and the third day is in the future at
first. In `schedules` the week has two days so that a weekday comes twice in three
days: a change takes effect on a later day of a weekday that has passed. The change
that leaves the hours as they are replaces a row without cancelling anything, which
is what lets a leave meet two rows of one weekday within three calls. In
`seeding` a run stopped anywhere and one more show what re-running does; a call on
roles counts once and any other call twice against `MaxCalls` = 2, so two role calls
race each other and any other call races the seed alone.
What the theorems below prove does not depend on the bounds.

### Findings

The four violation runs are disagreements between what the code says and does.

* **Double booking.** The overlap check of submit runs before its transaction
  and nothing repeats it, so two submits of one employee may both book a day.
  What does hold, and is proved, is `OverlapsOnlyUnseen`: only racing checks
  let that happen.
* **Terminal requests move.** The status check and the save are apart, so a
  late approval, rejection, cancellation or edit is saved over a terminal row,
  and may make it active again. What does hold is `ApprovedIsSigned`.
* **Logout is not final.** A rotation between burning its token and issuing the
  next one survives a logout that runs in between. What does hold is
  `SweptYieldNothing`.
* **L2 without L1.** setChain and endStep check the rule on rows read before
  their transactions. What does hold is `OneApproverPerStep` and that no step
  is vacated by accident.

## Fairness

Only `HandlersFinish` needs any. `FairSpec` assumes weak fairness of each
handler's steps: a query that is sent is answered or fails, and the event loop
resumes the handler. It assumes strong fairness of `SubmitLock`, which is
enabled only while the allocation rows are free: PostgreSQL queues the waiters
of a row lock and grants it in turn. Requests, grants, chain and account
changes, the clock and `Abort` have no fairness: nobody has to submit
and no query has to fail.

## Proofs

Every invariant and every action property that a passing run checks is also a
theorem. The theorems hold for every value of the constants allowed by the
assumptions `ConstantsAssumption`, `NoneAssumption`, `TokenConstants`, `TokenNone`,
`ChainConstants`, `EntryConstants`, `CorrectionConstants`, `ScheduleConstants`,
`PayConstants`, `AccountConstants`, `StorageConstants` and `SeedConstants`: which
sets are contained in which, bounds that are numbers, and a null that is no row,
user or handler. The bounds themselves stay arbitrary. `EntryInputs`,
`CorrectionInputs`, `ScheduleInputs`, `SeedInputs` say that what HR and employees
enter, and what the data files of the seed hold, has the columns and the types the
DTOs validate (an HR edit names neither the employee nor the status, a change is
`modify` or `remove`, the data files name known roles and permissions), and that the
rows found at first satisfy the CHECK constraints of their table. `PayRecords` and
`AccountRecords` say that null is no row. TLC evaluates all of them in the runs.

* `LeaveRequestsProofs!TypeCorrect`. `TypeOK` is not inductive alone: `SaveLoad`
  merges into a row that must exist, so the induction goes with `DecisionInv`.
* `ApprovedAreSigned`, `StepsHaveApprovers` follow from `DecisionInv`: the row
  stored *and the row each handler holds* is justified by the signatures given
  so far. Held rows have to be in it because a stale row is written later, and
  it holds for them because signatures are never taken back and the approvers of
  a request never change.
* `LeaveBookingProofs!OverlapsAreRaces`. A row nobody moved keeps its range and
  never becomes active again (`RowsEvolve`); a submit past its overlap check
  carries row and observation unchanged (`SubmitFlow`); so what the check found
  clear stays clear (`OverlapInv`).
* `LeaveBookingProofs!ReservationsFit`. `BalanceInv` says that a handler at the
  balance check has read no more than the allowance and holds the lock if it read
  more than zero, and that a handler about to insert holds the lock of its key and
  its days fit on top of what is reserved. A grant only raises the allowance. The
  sums are those of `Totals`; what induction would give about them is proved by the
  least counterexample (`PartialTotalsDef`, `TotalGrowsBy`).
* `RefreshTokensProofs`: a handler between burn and issue owns the token it
  burned (`RotationInv`); hence `RotationIsOneTime` and `SweepIsFinal`.
* `RefreshTokensProofs!HandlersImplementPromise`: every step maps to a step of
  `OneTimeTokens` or to none. Beside `RotationInv` it needs that a handler past the
  guard acts for the user whose row it read (`OwnerInv`): the burned token is
  usable for the very user the new one is issued to. Then there is one lemma per
  kind of step: what only voids tokens, the burn, the issue, and the failure that
  forfeits.
* `ApprovalChainsProofs`: a handler about to write refers only to rows that exist
  and that it read (`HandlersInv`), and a commit inserts only where every older
  row has ended, so all rows of a step but the newest have ended; hence
  `OneApprover`, `NoAssignmentEndedUnseen`, `NoStepVacatedByAccident`.

* `TimeCorrectionsProofs`: `Inv` is about the tables and about what each handler
  holds, since a held value is written several steps later. A handler carries
  "approved" only for a request that is in `applied`, and "pending_l2" only for one
  whose first approver has signed (`StatusMeans`); it goes to the timesheet only
  for a request whose snapshot has signed (`Signed`, `Onward`); what its duplicate
  check saw stays inactive or counts as revived (`SeenInactive`). Steps never take
  these away (`Grows`): rows, snapshots and signatures stay. From it follow
  `ApprovalReachesTimesheet`, `TimesheetIsSigned`, `OneEntryOpen` and
  `DuplicatesAreUnseen`. `StatusMatchesWindow` needs `StatusInv` on top: the patch a
  handler is about to save either carries a time_out with the status derived from
  it, or agrees with the row it was derived from, which nobody else has written
  unless the entry counts as raced.
* `WorkSchedulesProofs`: `OneActiveRow` and the order of the dates follow from the
  constraints each write respects, once every handler is known to hold typed rows
  (`IndInv`). For `CancelsWhatWasShown` and `UnderwayKept` a handler of a change is
  followed from its reads to its commit (`CascadeInv`): each key on its list was
  in the preview, and still means the request it was read from unless a decision
  raced with the change.

* `WorkSchedulesProofs!HalfDaysFollow`. In `HalfDaysInv`, `RequestsFollow` says that a
  coming half-day leave outside `raced` is cut from the hours of a standing row of
  its weekday that covers it. It cannot be kept without what a change in flight
  holds: its plan is the one `PlanVersioning` gives for the row it read (`PlanOK`), and
  every coming request that plan affects is on its list (`Covered`), so what its commit
  moves under a request it also cancels. A leave being filed holds the row it cuts its
  window from (`FilingOK`).
* `CompensationProofs`. Every write of pay is a transaction of several saves, so each
  invariant has a part about the tables and a part about the writes a handler holds.
  `ActiveRateUnique` needs types and the constraints only (`IndInv`). `RateIsDerived`
  and `AuditIsCurrent` need that what a correction is about to write fits the row it
  goes over, in every column the rate and the audit depend on, unless the row is
  raced (`ColumnsInv`). `OneRatePerDay` needs the most (`DatesInv`): two transactions
  write disjoint rows (`Locks`), the rates of an employee whose dates nobody moved are
  in sequence and only the last is open (`Sequenced`), a set-pay ends exactly the rate its
  insert follows (`SetsInOrder`), and a deletion reopens the latest rate before the one
  it deletes (`DropsInOrder`).
* `SeedsProofs`. Storage (`StorageInv`): an object belongs to a row, to an upload in
  flight or to a recorded failure, and a row's versions are all put before it is
  stored. Accounts (`TypeInv`): the look-ups race, the indexes decide. Default days
  (`FillInv`, `HealInv`): what a handler or the seeder has still to add is not in the
  table, one of them fills an account unless it counts as raced, and nothing is missing
  of what the seeder has passed. Built-in roles (`RolesInv`): a role that is being
  deleted has no built-in name now or after the writes under way. Approvers
  (`OthersInv`): `Pick` never returns the employee, whatever the pools. Re-running
  (`SeededInv`): what is left to do of each table is new to it, leave rows are those
  that `BuildLeaveRows` wants at their place, and the rows wanted at one place do not
  overlap, which is arithmetic on working days.

What proving turned up. TLC's instances had accepted two statements that are false,
and one model of inputs that was too wide:

* The half-days do not follow the schedule in one more case than a direct edit. A
  change reads the live row twice in its transaction, for the cascade
  (`work-schedules/schedule-change.service.ts:79`) and for the versioning (line 85).
  If another change replaces the row in between, and a leave is filed on the new one,
  the first change ends a row it never compared with the requests. Its commit reports
  and cancels nothing of that leave. `Touched` names this case, and the run has a
  change that reaches it.
* A correction of a rate saves over the row as it read it, and may write back an old
  `effective_to` or an old `deleted_at` (`compensation/compensation.service.ts:210`).
  Two rates then cover one day, against the comment of
  `compensation/persistence/repositories/compensation.repository.ts:85-86`.
  `OneRateOnDate` leaves out the employees in `moved`, which now counts such a save
  (`Shifted`) beside a corrected start.
* A change with a mode other than the two that the DTO accepts
  (`work-schedules/dto/admin/schedule-change.dto.ts:32`) would both create no row and end
  one; `ScheduleInputs` now says which modes there are.

Only model-checked: `HandlersFinish`, since liveness under fairness is outside what
the provers do here, and that the four violated properties fail. No proof uses
induction over data: sums and sequences are treated by least counterexamples and by
positions.

## Not modelled, and why

The approvals inbox, the balance view and the list queries only read. The edit of
a permission's description changes nothing any guard reads. Configuration, health
and mapping code have no behaviour to check; migrations enter as the constraints
of their tables. Password hashing, signatures, the content of files and of
messages are data that no modelled decision depends on. Two seed programs at once
are left out: the seed is run by hand or at deployment, one at a time.

What remains worth doing: the abstract reservation account (reserve, release,
grant) that `LeaveRequests` would implement; liveness of the seed under restarts.
