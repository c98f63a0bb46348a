------------------------------ MODULE Accounts ------------------------------
(***************************************************************************)
(* Accounts, roles and permissions, and the leave allowances an account    *)
(* starts with, as the administration routes write them.                   *)
(*                                                                         *)
(* A route in flight is a process p; call[p].pc is the query it does next. *)
(* No route here runs in a transaction: what a route has written stays     *)
(* when the next query fails.  The module has actions but no behaviour of  *)
(* its own: Seeds composes it with the programs that fill the tables.      *)
(*                                                                         *)
(* Left out: names, titles, descriptions, who acted, the amount of an      *)
(* allowance.                                                              *)
(***************************************************************************)
EXTENDS Integers, Sequences, FiniteSets, Rows

CONSTANTS
    Procs,         \* routes that may be in flight at once
    Emails,
    RoleNames,
    Protected,     \* PROTECTED_ROLES
    Codes,         \* permission codes
    Passwords,
    DefaultTypes,  \* DEFAULT_LEAVE_ALLOCATIONS: the leave types in order
    MaxAccounts,   \* bound on the number of accounts
    MaxRoles,      \* bound on the number of roles
    None           \* SQL null, an absent row

AccountIds == 1..MaxAccounts
RoleIds    == 1..MaxRoles
Types      == {DefaultTypes[i] : i \in DOMAIN DefaultTypes}

ASSUME AccountConstants ==
    /\ Protected \subseteq RoleNames
    /\ MaxAccounts \in Nat /\ MaxRoles \in Nat
    /\ DefaultTypes \in Seq(Types) /\ DefaultTypes # <<>>
    /\ \A i, j \in DOMAIN DefaultTypes : DefaultTypes[i] = DefaultTypes[j] => i = j

VARIABLES
    accounts,    \* users: the row of each id, or None
    roles,       \* roles with role_permissions: the row of each id, or None
    codes,       \* permissions: the codes stored
    allowances,  \* leave_allocations: how many default and granted rows per account and type
    call         \* routes in flight

accountVars == <<accounts, roles, codes, allowances, call>>
-----------------------------------------------------------------------------
AccountRow == [email : Emails, role : RoleIds, admin : BOOLEAN, active : BOOLEAN,
               pw : Passwords, deleted : BOOLEAN]
RoleRow    == [name : RoleNames, perms : SUBSET Codes, deleted : BOOLEAN]

ASSUME AccountRecords == None \notin AccountRow /\ None \notin RoleRow /\ None \notin AccountIds

Account(id) == accounts[id] # None /\ ~ accounts[id].deleted
Role(r)     == roles[r] # None /\ ~ roles[r].deleted
ExistsByEmail(e)  == \E id \in AccountIds : Account(id) /\ accounts[id].email = e
FindRoleByName(n) == {r \in RoleIds : Role(r) /\ roles[r].name = n}

\* users_email_lower_uq spares deleted rows, UQ_roles_name does not.
AccountsStorable_NoIndex(table) == TRUE                                    \* mutant
AccountsStorable(table) ==
    \A i, j \in {id \in Present(table, None) : ~ table[id].deleted} :
        table[i].email = table[j].email => i = j
RolesStorable_NoIndex(table) == TRUE                                       \* mutant
RolesStorable(table) ==
    \A i, j \in Present(table, None) : table[i].name = table[j].name => i = j

\* JwtStrategy.validate and PermissionsGuard: what an account may call.
Signed(id) == Account(id) /\ accounts[id].active
Allowed(code) ==
    \E id \in AccountIds :
        /\ Signed(id)
        /\ accounts[id].admin \/ (Role(accounts[id].role) /\ code \in roles[accounts[id].role].perms)

Idle        == [pc |-> "idle"]
CallGoto(p, r) == call' = [call EXCEPT ![p] = r]
CallEnds(p) == CallGoto(p, Idle)
-----------------------------------------------------------------------------
(***************************************************************************)
(* users                                                                   *)
(***************************************************************************)
NewAccount(e, r, pw, admin) ==
    [email |-> e, role |-> r, admin |-> admin, active |-> TRUE, pw |-> pw, deleted |-> FALSE]

CreateUser(p, e, r, pw) ==
    /\ call[p] = Idle
    /\ Allowed("USER:Create")
    /\ ~ ExistsByEmail(e)
    /\ Role(r)
    /\ CallGoto(p, [pc |-> "insert_account", row |-> NewAccount(e, r, pw, FALSE)])
    /\ UNCHANGED <<accounts, roles, codes, allowances>>

InsertAccount(p) ==
    /\ call[p].pc = "insert_account"
    /\ \E id \in NextId(accounts, None) :
        LET table == [accounts EXCEPT ![id] = call[p].row] IN
        IF AccountsStorable(table)
        THEN /\ accounts' = table
             /\ CallGoto(p, [pc |-> "allocate", id |-> id, todo |-> DefaultTypes])
        ELSE CallEnds(p) /\ UNCHANGED accounts
    /\ UNCHANGED <<roles, codes, allowances>>

\* The loop over DEFAULT_LEAVE_ALLOCATIONS: an insert per type, no check.
Allotted(id, t, source) == [allowances EXCEPT ![id][t][source] = @ + 1]
Allocate(p) ==
    /\ call[p].pc = "allocate"
    /\ allowances' = Allotted(call[p].id, Head(call[p].todo), "default")
    /\ IF Len(call[p].todo) = 1 THEN CallEnds(p)
       ELSE CallGoto(p, [call[p] EXCEPT !.todo = Tail(@)])
    /\ UNCHANGED <<accounts, roles, codes>>

\* update: the account, then the role if one is given, then the repository.
UpdateUser(p, id, patch) ==
    /\ call[p] = Idle
    /\ Allowed("USER:Update")
    /\ Account(id)
    /\ "role" \in DOMAIN patch => Role(patch.role)
    /\ CallGoto(p, [pc |-> "load", for |-> "update", table |-> "users", id |-> id, patch |-> patch])
    /\ UNCHANGED <<accounts, roles, codes, allowances>>

\* changePassword, and changeMyPassword once the current password compares.
SetPassword(p, id, pw) ==
    /\ call[p] = Idle
    /\ (Allowed("USER:Update") /\ Account(id)) \/ Signed(id)
    /\ CallGoto(p, [pc |-> "update", table |-> "users", id |-> id, patch |-> [pw |-> pw]])
    /\ UNCHANGED <<accounts, roles, codes, allowances>>

DeleteUser(p, id) ==
    /\ call[p] = Idle
    /\ Allowed("USER:Delete")
    /\ Account(id)
    /\ CallGoto(p, [pc |-> "update", table |-> "users", id |-> id, patch |-> [deleted |-> TRUE]])
    /\ UNCHANGED <<accounts, roles, codes, allowances>>

\* LeaveAllocationsService.grant.
GrantDays(p, id, t) ==
    /\ call[p] = Idle
    /\ Allowed("LEAVE_ALLOCATION:Create")
    /\ Account(id)
    /\ CallGoto(p, [pc |-> "grant", id |-> id, type |-> t])
    /\ UNCHANGED <<accounts, roles, codes, allowances>>
InsertGrant(p) ==
    /\ call[p].pc = "grant"
    /\ allowances' = Allotted(call[p].id, call[p].type, "granted")
    /\ CallEnds(p)
    /\ UNCHANGED <<accounts, roles, codes>>
-----------------------------------------------------------------------------
(***************************************************************************)
(* roles                                                                   *)
(***************************************************************************)
CreateRole(p, n, perms) ==
    /\ call[p] = Idle
    /\ Allowed("ROLE:Create")
    /\ FindRoleByName(n) = {}
    /\ perms \subseteq codes
    /\ CallGoto(p, [pc |-> "insert_role", row |-> [name |-> n, perms |-> perms, deleted |-> FALSE]])
    /\ UNCHANGED <<accounts, roles, codes, allowances>>

InsertRole(p) ==
    /\ call[p].pc = "insert_role"
    /\ \E r \in NextId(roles, None) :
        LET table == [roles EXCEPT ![r] = call[p].row] IN
        roles' = IF RolesStorable(table) THEN table ELSE roles
    /\ CallEnds(p)
    /\ UNCHANGED <<accounts, codes, allowances>>

RenameRole(p, r, n) ==
    /\ call[p] = Idle
    /\ Allowed("ROLE:Update")
    /\ Role(r)
    /\ FindRoleByName(n) \subseteq {r}
    /\ CallGoto(p, [pc |-> "load", for |-> "update", table |-> "roles", id |-> r, patch |-> [name |-> n]])
    /\ UNCHANGED <<accounts, roles, codes, allowances>>

AssignPermissions(p, r, perms) ==
    /\ call[p] = Idle
    /\ Allowed("ROLE:Update")
    /\ Role(r)
    /\ perms \subseteq codes
    /\ CallGoto(p, [pc |-> "load", for |-> "update", table |-> "roles", id |-> r, patch |-> [perms |-> perms]])
    /\ UNCHANGED <<accounts, roles, codes, allowances>>

\* A built-in role cannot be deleted.  The name is that of the row read here.
Deletable_Any(r) == TRUE                                                   \* mutant
Deletable(r) == roles[r].name \notin Protected
DeleteRole(p, r) ==
    /\ call[p] = Idle
    /\ Allowed("ROLE:Delete")
    /\ Role(r)
    /\ Deletable(r)
    /\ CallGoto(p, [pc |-> "load", for |-> "delete", table |-> "roles", id |-> r,
                    patch |-> [deleted |-> FALSE]])
    /\ UNCHANGED <<accounts, roles, codes, allowances>>
-----------------------------------------------------------------------------
(***************************************************************************)
(* The repositories.  update loads the row, selects it again and writes    *)
(* the columns that differ.  Deleting a role saves the row it loaded       *)
(* before it marks it.                                                     *)
(***************************************************************************)
Stored(p) == IF call[p].table = "users" THEN accounts[call[p].id] ELSE roles[call[p].id]

\* password_hash is never selected; the permissions are unless the role goes.
Loaded(p) ==
    IF call[p].table = "users" THEN {"role", "admin", "active", "deleted"}
    ELSE {"name", "deleted"} \cup (IF call[p].for = "delete" THEN {} ELSE {"perms"})

LoadRow(p) ==
    /\ call[p].pc = "load"
    /\ IF Stored(p).deleted THEN CallEnds(p)
       ELSE LET row == Patched(Stored(p), call[p].patch) IN
            CallGoto(p, [call[p] EXCEPT !.pc = "diff", !.patch = [c \in Loaded(p) |-> row[c]]])
    /\ UNCHANGED <<accounts, roles, codes, allowances>>

DiffRow(p) ==
    /\ call[p].pc = "diff"
    /\ CallGoto(p, [call[p] EXCEPT !.pc = "write", !.patch = Delta(@, Stored(p))])
    /\ UNCHANGED <<accounts, roles, codes, allowances>>

\* One UPDATE of the columns named, refused by a unique index.
WriteColumns(p) ==
    LET row   == Patched(Stored(p), call[p].patch)
        users == [accounts EXCEPT ![call[p].id] = row]
        named == [roles EXCEPT ![call[p].id] = row]
        fits  == IF call[p].table = "users" THEN AccountsStorable(users) ELSE RolesStorable(named)
    IN /\ accounts' = IF call[p].table = "users" /\ fits THEN users ELSE accounts
       /\ roles' = IF call[p].table = "roles" /\ fits THEN named ELSE roles
       /\ IF fits /\ call[p].pc = "write" /\ call[p].for = "delete"
          THEN CallGoto(p, [pc |-> "update", table |-> "roles", id |-> call[p].id,
                            patch |-> [deleted |-> TRUE]])
          ELSE CallEnds(p)

WriteRow(p) ==
    /\ call[p].pc = "write"
    /\ WriteColumns(p)
    /\ UNCHANGED <<codes, allowances>>

\* updatePasswordHash and the soft deletes load nothing.
UpdateColumns(p) ==
    /\ call[p].pc = "update"
    /\ WriteColumns(p)
    /\ UNCHANGED <<codes, allowances>>

\* A query fails or the server stops.
CallFails(p) ==
    /\ call[p] # Idle
    /\ CallEnds(p)
    /\ UNCHANGED <<accounts, roles, codes, allowances>>

CallStep(p) ==
    \/ InsertAccount(p) \/ Allocate(p) \/ UpdateColumns(p) \/ InsertGrant(p) \/ InsertRole(p)
    \/ LoadRow(p) \/ DiffRow(p) \/ WriteRow(p) \/ CallFails(p)

AccountsInit ==
    /\ accounts = [id \in AccountIds |-> None]
    /\ roles = [r \in RoleIds |-> None]
    /\ codes = {}
    /\ allowances = [id \in AccountIds |-> [t \in Types |-> [default |-> 0, granted |-> 0]]]
    /\ call = [p \in Procs |-> Idle]

AccountsTypeOK ==
    /\ accounts \in [AccountIds -> AccountRow \cup {None}]
    /\ roles \in [RoleIds -> RoleRow \cup {None}]
    /\ codes \subseteq Codes
    /\ allowances \in [AccountIds -> [Types -> [default : Nat, granted : Nat]]]
    /\ \A r, q \in Present(roles, None) : r # q => roles[r].name # roles[q].name
=============================================================================
