-------------------------------- MODULE Seeds --------------------------------
(***************************************************************************)
(* The seed program: nine seeders one after the other, each reading the    *)
(* tables, working through its rows and inserting those whose natural key  *)
(* is missing.  It runs in no transaction, may fail or be stopped at any   *)
(* query, and is simply run again.  Meanwhile the API works on the same    *)
(* tables: administrators on accounts and roles, HR on schedules, pay and  *)
(* chains, employees on files; the purge empties the bucket.               *)
(*                                                                         *)
(* Left out: two seed programs at once, the API's inserts into the tables  *)
(* of the later seeders.                                                   *)
(***************************************************************************)
EXTENDS Accounts, Storage, SeedData

CONSTANTS
    Runner,           \* the seed program, as an uploader
    PermissionData,   \* permissions.json
    RoleData,         \* roles.json: [name, perms]
    UserData,         \* users.json: [email, role, admin]
    DefaultPassword,  \* SEED_DEFAULT_PASSWORD
    WorkDates,        \* SEED_WORK_DATES
    WorkDays,         \* WORK_DAYS
    PayData,          \* compensation.json: [email, from, ended]
    Placeholder,      \* the file attached to seeded requests
    NewEmails,        \* emails administrators create accounts with
    AccountPatches,   \* what administrators change of an account
    NewRoleNames,     \* names administrators give a role
    PermissionSets,   \* permissions administrators give a role
    MaxRuns,          \* bound on the number of runs
    MaxCalls          \* bound on the number of calls of the API

ASSUME SeedConstants ==
    /\ Nobody = None /\ Procs \cup {Runner} \subseteq Uploaders /\ Runner \notin Procs
    /\ MaxRuns \in Nat /\ MaxCalls \in Nat
    /\ Placeholder.size \in Nat /\ Placeholder.kind \in Kinds \cup {NoFile}

\* What the data files and the administrators give.
ASSUME SeedInputs ==
    /\ PermissionData \in Seq(Codes) /\ WorkDates \in Seq(Nat \ {0})
    /\ RoleData \in Seq([name : RoleNames, perms : SUBSET Codes])
    /\ UserData \in Seq([email : Emails, role : RoleNames, admin : BOOLEAN])
    /\ NewEmails \subseteq Emails /\ NewRoleNames \subseteq RoleNames /\ DefaultPassword \in Passwords
    /\ \A patch \in AccountPatches :
        /\ DOMAIN patch \subseteq {"role", "admin", "active"}
        /\ "role" \in DOMAIN patch => patch.role \in RoleIds
        /\ "admin" \in DOMAIN patch => patch.admin \in BOOLEAN
        /\ "active" \in DOMAIN patch => patch.active \in BOOLEAN

VARIABLES
    entries,      \* time_entries of a key: how many rows stand, how many were deleted
    schedules,    \* work_schedules of a key: active and ended rows
    pay,          \* employee_compensations of a key: rows that stand, deleted rows
    chains,       \* approval_chains: the active approver of an employee's step, or None
    leaves,       \* leave_requests the seed inserted, in order
    corrections,  \* time_correction_requests the seed inserted, in order
    run,          \* the seed program
    runs, calls,  \* runs and calls started so far
    raced,        \* history: accounts seeded while a call was filling them
    contested     \* history: roles renamed and deleted at once

seedTables == <<entries, schedules, pay, chains, leaves, corrections>>
vars == <<accountVars, storageVars, seedTables, run, runs, calls, raced, contested>>

EntryKeys    == AccountIds \X Range(WorkDates)
ScheduleKeys == AccountIds \X Range(WorkDays)
PayKeys      == AccountIds \X {d.from : d \in Range(PayData)}
ChainKeys    == AccountIds \X {1, 2}
NoRows       == [live |-> 0, gone |-> 0]
OneMore(table, k) == [table EXCEPT ![k].live = @ + 1]
-----------------------------------------------------------------------------
(***************************************************************************)
(* What each seeder reads when its turn comes: the rows to work through    *)
(***************************************************************************)
LiveAccounts == {id \in AccountIds : Account(id)}
Employees    == InOrder({id \in LiveAccounts : ~ accounts[id].admin})
Cross(ids, keys) == FlattenSeq([n \in DOMAIN ids |-> [m \in DOMAIN keys |-> <<ids[n], keys[m]>>]])

RoleRows ==
    [n \in DOMAIN RoleData |-> [name  |-> RoleData[n].name, perms |-> RoleData[n].perms \cap codes]]
UserRows ==
    [n \in DOMAIN UserData |-> [email |-> UserData[n].email, admin |-> UserData[n].admin,
                                role  |-> FindRoleByName(UserData[n].role)]]
PayRows ==
    FlattenSeq([n \in DOMAIN PayData |->
        SetToSeq({<<id, PayData[n].from>> : id \in {i \in LiveAccounts : accounts[i].email = PayData[n].email}})])

SeedEmployees ==
    {[id |-> id, admin |-> accounts[id].admin,
      role |-> IF Role(accounts[id].role) THEN roles[accounts[id].role].name ELSE None] : id \in LiveAccounts}

\* Those on a chain with a first step, in order; the place in this order varies the rows.
Chained == InOrder({id \in LiveAccounts : chains[<<id, 1>>] # None})
LeaveRows ==
    [n \in DOMAIN Chained |->
        [emp |-> Chained[n], l1 |-> chains[<<Chained[n], 1>>], l2 |-> chains[<<Chained[n], 2>>],
         index |-> n - 1, scheduled |-> \E d \in Range(WorkDays) : schedules[<<Chained[n], d>>].live > 0]]

EntriesOf(id) == InOrder({d \in Range(WorkDates) : entries[<<id, d>>].live > 0})
CorrectionRows ==
    FlattenSeq([n \in DOMAIN Chained |->
        BuildCorrectionRows(Chained[n], chains[<<Chained[n], 1>>], chains[<<Chained[n], 2>>],
            [m \in DOMAIN EntriesOf(Chained[n]) |->
                [date |-> EntriesOf(Chained[n])[m], in |-> 540, out |-> 1080]])])

Seeders == <<"permissions", "roles", "users", "entries", "schedules", "pay", "chains", "leaves", "corrections">>
RowsOf(seeder) ==
    CASE seeder = "permissions" -> PermissionData
      [] seeder = "roles"       -> RoleRows
      [] seeder = "users"       -> UserRows
      [] seeder = "entries"     -> Cross(Employees, WorkDates)
      [] seeder = "schedules"   -> Cross(Employees, WorkDays)
      [] seeder = "pay"         -> PayRows
      [] seeder = "chains"      -> AssignApprovers(SeedEmployees)
      [] seeder = "leaves"      -> LeaveRows
      [] seeder = "corrections" -> CorrectionRows
-----------------------------------------------------------------------------
(***************************************************************************)
(* runSeed                                                                 *)
(***************************************************************************)
Stopped   == [pc |-> "idle"]
At(s, todo) == [pc |-> "row", seeder |-> s, todo |-> todo, seen |-> IF s = 1 THEN {} ELSE run.seen]
Seeding(s) == run.pc = "row" /\ run.todo # <<>> /\ Seeders[run.seeder] = s
Row       == Head(run.todo)
RowDone   == run' = [run EXCEPT !.todo = Tail(@)]

StartRun ==
    /\ run = Stopped
    /\ runs < MaxRuns                                        \* bound
    /\ runs' = runs + 1
    /\ run' = At(1, RowsOf(Seeders[1]))
    /\ UNCHANGED <<accountVars, storageVars, seedTables, calls, raced, contested>>

\* The chain seeder throws before it inserts if somebody has no approver.
Throws(todo) == \E n \in DOMAIN todo : "approver" \in DOMAIN todo[n] /\ todo[n].approver = Nobody
NextSeeder ==
    /\ run.pc = "row" /\ run.todo = <<>>
    /\ IF run.seeder = Len(Seeders) THEN run' = Stopped
       ELSE LET todo == RowsOf(Seeders[run.seeder + 1]) IN
            run' = IF Seeders[run.seeder + 1] = "chains" /\ Throws(todo) THEN Stopped
                   ELSE At(run.seeder + 1, todo)
    /\ UNCHANGED <<accountVars, storageVars, seedTables, runs, calls, raced, contested>>

\* A query fails or the program is stopped.
RunStops ==
    /\ run # Stopped
    /\ run' = Stopped
    /\ UploaderStops(Runner)
    /\ UNCHANGED <<accountVars, seedTables, runs, calls, raced, contested>>
-----------------------------------------------------------------------------
(***************************************************************************)
(* Permissions, roles and users, which the API writes as well: the look-up *)
(* and the save are two steps.                                             *)
(***************************************************************************)
SeedPermission ==
    /\ Seeding("permissions")
    /\ codes' = codes \cup {Row}
    /\ RowDone
    /\ UNCHANGED <<accounts, roles, allowances, call, storageVars, seedTables, runs, calls, raced, contested>>

\* A role's name is being written, by a call or by the seed; a role is being deleted.
Renamed(r) ==
    \/ run.pc = "save_role" /\ r \in run.found
    \/ \E p \in Procs : /\ call[p].pc \in {"load", "diff", "write"} /\ call[p].table = "roles"
                       /\ call[p].for = "update" /\ call[p].id = r
Dying(r) ==
    \E p \in Procs : /\ call[p].pc \in {"load", "diff", "write", "update"} /\ call[p].table = "roles"
                    /\ (call[p].pc = "update" \/ call[p].for = "delete")
                    /\ call[p].id = r

FindRole ==
    /\ Seeding("roles")
    /\ run' = [pc |-> "save_role", found |-> FindRoleByName(Row.name), back |-> run]
    /\ contested' = contested \cup {r \in FindRoleByName(Row.name) : Dying(r)}
    /\ UNCHANGED <<accountVars, storageVars, seedTables, runs, calls, raced>>

SavedRole(r, row) ==
    [roles EXCEPT ![r] = [name |-> row.name, perms |-> row.perms, deleted |-> FALSE]]
SaveRole ==
    /\ run.pc = "save_role"
    /\ \E r \in IF run.found # {} THEN run.found ELSE NextId(roles, None) :
        LET table == SavedRole(r, Head(run.back.todo)) IN
        IF RolesStorable(table)
        THEN roles' = table /\ run' = [run.back EXCEPT !.todo = Tail(@)]
        ELSE run' = Stopped /\ UNCHANGED roles
    /\ UNCHANGED <<accounts, codes, allowances, call, storageVars, seedTables, runs, calls, raced, contested>>

\* An account with the email, deleted or not, is left alone.
HavingEmail(e) == {id \in Present(accounts, None) : accounts[id].email = e}
Defaults(id, back) ==
    [pc |-> "find_default", id |-> id, types |-> DefaultTypes, back |-> [back EXCEPT !.seen = @ \cup {id}]]
AfterFound_NoBackfill(id) ==                                               \* mutant
    [run EXCEPT !.todo = Tail(@), !.seen = @ \cup {id}]
AfterFound(id) == Defaults(id, run)
FindUser ==
    /\ Seeding("users")
    /\ \/ Row.role = {} /\ RowDone
       \/ /\ Row.role # {} /\ HavingEmail(Row.email) = {}
          /\ run' = [pc |-> "insert_user", back |-> run]
       \/ \E id \in HavingEmail(Row.email) :
            /\ Row.role # {}
            /\ IF Account(id) THEN run' = AfterFound(id) ELSE RowDone
    /\ UNCHANGED <<accountVars, storageVars, seedTables, runs, calls, raced, contested>>

InsertUser ==
    /\ run.pc = "insert_user"
    /\ \E id \in NextId(accounts, None), r \in Head(run.back.todo).role :
        LET row   == Head(run.back.todo)
            table == [accounts EXCEPT ![id] = NewAccount(row.email, r, DefaultPassword, row.admin)]
        IN IF AccountsStorable(table)
           THEN /\ accounts' = table
                /\ run' = Defaults(id, run.back)
           ELSE run' = Stopped /\ UNCHANGED accounts
    /\ UNCHANGED <<roles, codes, allowances, call, storageVars, seedTables, runs, calls, raced, contested>>

\* ensureDefaultAllocations.
HasDefault_Never(id, t) == FALSE                                           \* mutant
HasDefault(id, t) == allowances[id][t].default > 0
TypeDone == run' = IF Len(run.types) = 1 THEN [run.back EXCEPT !.todo = Tail(@)]
                   ELSE [run EXCEPT !.pc = "find_default", !.types = Tail(@)]
BeingFilled(id) == \E p \in Procs : call[p].pc = "allocate" /\ call[p].id = id
FindDefault ==
    /\ run.pc = "find_default"
    /\ raced' = IF BeingFilled(run.id) THEN raced \cup {run.id} ELSE raced
    /\ IF HasDefault(run.id, Head(run.types)) THEN TypeDone
       ELSE run' = [run EXCEPT !.pc = "insert_default"]
    /\ UNCHANGED <<accountVars, storageVars, seedTables, runs, calls, contested>>
InsertDefault ==
    /\ run.pc = "insert_default"
    /\ allowances' = Allotted(run.id, Head(run.types), "default")
    /\ TypeDone
    /\ UNCHANGED <<accounts, roles, codes, call, storageVars, seedTables, runs, calls, raced, contested>>
-----------------------------------------------------------------------------
(***************************************************************************)
(* Time entries, schedules, pay and chains: a row is inserted if its key   *)
(* is missing                                                              *)
(***************************************************************************)
SeedEntry ==
    /\ Seeding("entries")
    /\ entries' = IF entries[Row].live > 0 THEN entries ELSE OneMore(entries, Row)
    /\ UNCHANGED <<schedules, pay, chains>>

\* An ended row does not count: effective_to IS NULL.
SeedSchedule ==
    /\ Seeding("schedules")
    /\ schedules' = IF schedules[Row].live > 0 THEN schedules ELSE OneMore(schedules, Row)
    /\ UNCHANGED <<entries, pay, chains>>

\* A deleted row counts: withDeleted.
PaySeeded_Standing(k) == pay[k].live > 0                                   \* mutant
PaySeeded(k) == pay[k].live + pay[k].gone > 0
SeedPay ==
    /\ Seeding("pay")
    /\ pay' = IF PaySeeded(Row) THEN pay ELSE OneMore(pay, Row)
    /\ UNCHANGED <<entries, schedules, chains>>

SeedChain ==
    /\ Seeding("chains")
    /\ LET k == <<Row.emp, Row.step>> IN
       chains' = IF chains[k] # None THEN chains ELSE [chains EXCEPT ![k] = Row.approver]
    /\ UNCHANGED <<entries, schedules, pay>>

SeedRow ==
    /\ SeedEntry \/ SeedSchedule \/ SeedPay \/ SeedChain
    /\ RowDone
    /\ UNCHANGED <<accountVars, storageVars, leaves, corrections, runs, calls, raced, contested>>
-----------------------------------------------------------------------------
(***************************************************************************)
(* Leave and correction requests                                           *)
(***************************************************************************)
Attaches(index) == Acceptable(Placeholder) /\ index % 3 = 0
Wanted(e) ==
    LET rows == BuildLeaveRows(e.emp, e.l1, e.l2, Attaches(e.index), e.index) IN
    [n \in DOMAIN rows |-> HalfDaySlot(rows[n], e.scheduled)]
LeaveSeeded(row) ==
    \E n \in DOMAIN leaves :
        leaves[n].emp = row.emp /\ leaves[n].type = row.type /\ leaves[n].start = row.start

\* The rows an employee misses, by their place among those wanted, and the upload of a file
\* if one of them needs it.
OpenEmployee ==
    /\ Seeding("leaves")
    /\ LET missing == {n \in DOMAIN Wanted(Row) : ~ LeaveSeeded(Wanted(Row)[n])}
           upon(pc, file) == [pc |-> pc, missing |-> missing, file |-> file, back |-> run]
       IN CASE missing = {} -> RowDone /\ UNCHANGED storageVars
            [] missing # {} /\ \A n \in missing : ~ NeedsFile(Wanted(Row)[n].type) ->
                 run' = upon("insert_leaves", 0) /\ UNCHANGED storageVars
            [] OTHER -> run' = upon("upload", uploads + 1) /\ StartUpload(Runner, Placeholder)
    /\ UNCHANGED <<accountVars, seedTables, runs, calls, raced, contested>>

UploadPlaceholder ==
    /\ run.pc = "upload"
    /\ UploadStep(Runner)
    /\ UNCHANGED <<accountVars, seedTables, run, runs, calls, raced, contested>>

\* A failed upload is logged; the rows that need the file are left out.
Attached_Anyway(x) == x                                                    \* mutant
Attached(x) == IF attachments[x] # NoFile /\ x \notin doubted THEN x ELSE 0
Uploaded ==
    /\ run.pc = "upload" /\ upload[Runner] = Waiting
    /\ run' = [run EXCEPT !.pc = "insert_leaves", !.file = Attached(@)]
    /\ UNCHANGED <<accountVars, storageVars, seedTables, runs, calls, raced, contested>>

Leave(r, place, file) ==
    [emp |-> r.emp, type |-> r.type, start |-> r.start, end |-> r.end, status |-> r.status, l2 |-> r.l2,
     place |-> place, file |-> IF NeedsFile(r.type) THEN file ELSE 0]
InsertLeave ==
    /\ run.pc = "insert_leaves"
    /\ IF run.missing = {}
       THEN run' = [run.back EXCEPT !.todo = Tail(@)] /\ UNCHANGED leaves
       ELSE LET n == Min(run.missing)
                e == Head(run.back.todo)
                r == Wanted(e)[n]
            IN /\ run' = [run EXCEPT !.missing = @ \ {n}]
               /\ leaves' = IF NeedsFile(r.type) /\ run.file = 0 THEN leaves
                            ELSE Append(leaves, Leave(r, e.index, run.file))
    /\ UNCHANGED <<accountVars, storageVars, entries, schedules, pay, chains, corrections, runs, calls, raced, contested>>

SeedCorrection ==
    /\ Seeding("corrections")
    /\ corrections' = IF \E n \in DOMAIN corrections : corrections[n].emp = Row.emp /\ corrections[n].date = Row.date
                      THEN corrections ELSE Append(corrections, Row)
    /\ RowDone
    /\ UNCHANGED <<accountVars, storageVars, entries, schedules, pay, chains, leaves, runs, calls, raced, contested>>

RunStep ==
    \/ NextSeeder \/ RunStops
    \/ SeedPermission \/ FindRole \/ SaveRole \/ FindUser \/ InsertUser \/ FindDefault \/ InsertDefault
    \/ SeedRow \/ OpenEmployee \/ UploadPlaceholder \/ Uploaded \/ InsertLeave \/ SeedCorrection
-----------------------------------------------------------------------------
(***************************************************************************)
(* The API                                                                 *)
(***************************************************************************)
AdminUsers(p) ==
    \/ \E e \in NewEmails, r \in RoleIds, pw \in Passwords : CreateUser(p, e, r, pw)
    \/ \E id \in AccountIds :
        \/ \E patch \in AccountPatches : UpdateUser(p, id, patch)
        \/ \E pw \in Passwords : SetPassword(p, id, pw)
        \/ DeleteUser(p, id)
        \/ \E t \in Types : GrantDays(p, id, t)

AdminRoles(p) ==
    \/ \E n \in NewRoleNames, perms \in PermissionSets : CreateRole(p, n, perms)
    \/ \E r \in RoleIds, perms \in PermissionSets : AssignPermissions(p, r, perms)

RenameOrDelete(p) ==
    \E r \in RoleIds :
        \/ /\ \E n \in NewRoleNames : RenameRole(p, r, n)
           /\ contested' = contested \cup {s \in {r} : Dying(s)}
        \/ /\ DeleteRole(p, r)
           /\ contested' = contested \cup {s \in {r} : Renamed(s)}

\* HR deletes an entry or a rate, ends a schedule, ends or replaces a chain step.
Retired(table, k) == [table EXCEPT ![k].live = @ - 1, ![k].gone = @ + 1]
HrEdits ==
    /\ Allowed("USER:Update")
    /\ \/ \E k \in EntryKeys : /\ entries[k].live > 0
                              /\ entries' = Retired(entries, k)
                              /\ UNCHANGED <<schedules, pay, chains>>
       \/ \E k \in ScheduleKeys : /\ schedules[k].live > 0
                                 /\ schedules' = Retired(schedules, k)
                                 /\ UNCHANGED <<entries, pay, chains>>
       \/ \E k \in PayKeys : /\ pay[k].live > 0
                            /\ pay' = Retired(pay, k)
                            /\ UNCHANGED <<entries, schedules, chains>>
       \/ \E k \in ChainKeys, approver \in LiveAccounts \cup {None} :
            /\ chains[k] # None /\ approver \notin {chains[k], k[1]}
            /\ approver = None /\ k[2] = 1 => chains[<<k[1], 2>>] = None
            /\ chains' = [chains EXCEPT ![k] = approver]
            /\ UNCHANGED <<entries, schedules, pay>>
    /\ UNCHANGED <<leaves, corrections>>

\* bound: a call on roles counts once, any other call twice.
Counted(n) == calls + n <= MaxCalls /\ calls' = calls + n
RoleRequest ==
    \E p \in Procs :
        /\ RenameOrDelete(p) \/ (AdminRoles(p) /\ UNCHANGED contested)
        /\ UNCHANGED <<storageVars, seedTables>>
OtherRequest ==
    \/ \E p \in Procs : AdminUsers(p) /\ UNCHANGED <<storageVars, seedTables, contested>>
    \/ HrEdits /\ UNCHANGED <<accountVars, storageVars, contested>>
    \/ \E p \in Procs, f \in Files : /\ \E id \in AccountIds : Signed(id)
                                    /\ StartUpload(p, f)
                                    /\ UNCHANGED <<accountVars, seedTables, contested>>
    \/ PurgeLists /\ UNCHANGED <<accountVars, seedTables, contested>>

ApiStep ==
    \/ Counted(1) /\ RoleRequest
    \/ Counted(2) /\ OtherRequest
    \/ \E p \in Procs : CallStep(p) /\ UNCHANGED <<storageVars, seedTables, calls, contested>>
    \/ \E p \in Procs : /\ UploadStep(p) \/ UploaderStops(p)
                       /\ UNCHANGED <<accountVars, seedTables, calls, contested>>
    \/ PurgeDeletes /\ UNCHANGED <<accountVars, seedTables, calls, contested>>

Init ==
    /\ AccountsInit /\ StorageInit
    /\ entries = [k \in EntryKeys |-> NoRows]
    /\ schedules = [k \in ScheduleKeys |-> NoRows]
    /\ pay = [k \in PayKeys |-> NoRows]
    /\ chains = [k \in ChainKeys |-> None]
    /\ leaves = <<>> /\ corrections = <<>>
    /\ run = Stopped /\ runs = 0 /\ calls = 0
    /\ raced = {} /\ contested = {}

Next ==
    \/ StartRun
    \/ RunStep
    \/ ApiStep /\ UNCHANGED <<run, runs, raced>>

Spec == Init /\ [][Next]_vars
-----------------------------------------------------------------------------
\* Every variable has its type; no two roles, deleted or not, share a name.
TypeOK ==
    /\ AccountsTypeOK /\ StorageTypeOK
    /\ chains \in [ChainKeys -> AccountIds \cup {None}]
    /\ runs \in 0..MaxRuns /\ calls \in 0..MaxCalls
    /\ raced \subseteq AccountIds /\ contested \subseteq RoleIds

\* Whoever creates, revives or seeds accounts, an email has one account in use.
OneAccountPerEmail ==
    \A e \in Emails : Cardinality({id \in AccountIds : Account(id) /\ accounts[id].email = e}) <= 1

\* An account starts with its default days once, through failed runs and failed calls,
\* unless it was seeded while the call that created it was still filling it.
DefaultsOnce ==
    \A id \in AccountIds \ raced, t \in Types : allowances[id][t].default <= 1

\* The user seeder repairs: an account it met in use has its default days when it is done,
\* though the call or the run that created the account failed half-way.
BackfillHeals ==
    run.pc = "row" /\ run.seeder > 3
    => \A id \in run.seen, t \in Types : allowances[id][t].default >= 1

\* However often the seed is stopped and run again, and whatever HR ends or deletes in
\* between, no natural key is seeded a second time beside its first row, and a deleted
\* rate does not come back.
NothingSeededTwice ==
    /\ \A k \in EntryKeys : entries[k].live <= 1
    /\ \A k \in ScheduleKeys : schedules[k].live <= 1
    /\ \A k \in PayKeys : pay[k].live + pay[k].gone <= 1
    /\ \A m, n \in DOMAIN leaves :
        leaves[m].emp = leaves[n].emp /\ leaves[m].type = leaves[n].type /\ leaves[m].start = leaves[n].start
        => m = n
    /\ \A m, n \in DOMAIN corrections :
        corrections[m].emp = corrections[n].emp /\ corrections[m].date = corrections[n].date => m = n

\* Nobody approves their own requests, on the chain or on a seeded request.
NobodyApprovesOwn ==
    /\ \A k \in ChainKeys : chains[k] # k[1]
    /\ \A n \in DOMAIN corrections : corrections[n].emp \notin {corrections[n].l1, corrections[n].l2}

\* The leave rows of an employee: the active ones do not overlap as long as the employee
\* keeps the place they were varied by, one that waits for a second step has an approver
\* for it, and one that needs a file has one stored.
SeededLeavesSound ==
    /\ \A m, n \in DOMAIN leaves :
        /\ leaves[m].emp = leaves[n].emp /\ leaves[m].place = leaves[n].place /\ m # n
        /\ {leaves[m].status, leaves[n].status} \subseteq {"pending_l1", "pending_l2", "approved"}
        => leaves[m].end < leaves[n].start \/ leaves[n].end < leaves[m].start
    /\ \A n \in DOMAIN leaves : leaves[n].status = "pending_l2" => leaves[n].l2 # None
    /\ \A n \in DOMAIN leaves : NeedsFile(leaves[n].type) => leaves[n].file # 0 /\ attachments[leaves[n].file] # NoFile

\* A built-in role is never deleted, unless its name was being written while a deletion of it was
\* under way.
BuiltInRolesStand ==
    \A r \in RoleIds \ contested : roles[r] # None /\ roles[r].deleted => roles[r].name \notin Protected
=============================================================================
