---------------------------- MODULE ApprovalChains ----------------------------
(***************************************************************************)
(* Who approves whom: the assignments of approvers to the steps of each    *)
(* employee, and the four ways HR changes them.                            *)
(*                                                                         *)
(* A handler checks the approvers it was given, reads the active rows,     *)
(* computes which rows to end and which to insert, and applies both in one *)
(* transaction.  The reads come before the transaction, so any other       *)
(* handler may run between the read and the commit.  The rows of a step    *)
(* are kept in the order of their insertion; the id of a row is its step   *)
(* and its place there.                                                    *)
(*                                                                         *)
(* Left out: list queries, timestamps (ended_at is set or null), the       *)
(* columns that record who acted, and the answers.                         *)
(***************************************************************************)
EXTENDS Integers, Sequences

CONSTANTS
    Procs,      \* handlers that may be in flight at once
    Users,
    Employees,  \* users HR sets a chain for
    Candidates, \* users HR names as approvers
    Deactivable,\* users HR may deactivate or reactivate
    MaxRows,    \* bound on the rows of each slot
    Keep,       \* a field the request leaves out
    None        \* SQL null, no row

ASSUME ChainConstants ==
    /\ Employees \subseteq Users /\ Candidates \subseteq Users /\ Deactivable \subseteq Users
    /\ None \notin Users /\ Keep \notin Users /\ Keep # None

Slots == Employees \X {1, 2}                \* the steps of each employee
Assignment == [approver : Users, ended : BOOLEAN]

VARIABLES
    rows,       \* approval_chains: the rows of each slot, oldest first
    active,     \* users with is_active
    proc        \* handlers in flight

vars == <<rows, active, proc>>
-----------------------------------------------------------------------------
ActiveRows(s) == {i \in DOMAIN rows[s] : ~ rows[s][i].ended}
Filled(s)     == ActiveRows(s) # {}
Approver(s)   == IF Filled(s) THEN rows[s][CHOOSE i \in ActiveRows(s) : TRUE].approver ELSE None
IdsOf(S)      == UNION {{s} \X ActiveRows(s) : s \in S}

Idle == [pc |-> "idle"]
Goto(p, r) == proc' = [proc EXCEPT ![p] = r]
Finish(p)  == Goto(p, Idle)

\* A request that has yet to look up the approvers in todo, and reads then.
Validating(todo, request) == [pc |-> "validate", todo |-> todo, request |-> request]

\* What the handler will commit: the rows to end, the approvers to insert by
\* slot.  saw is history: how many rows of each slot its read had seen.
Plan(ends, inserts, clears) ==
    [pc |-> "apply", ends |-> ends, inserts |-> inserts, clears |-> clears,
     saw |-> [s \in Slots |-> Len(rows[s])]]
-----------------------------------------------------------------------------
(***************************************************************************)
(* Requests                                                                *)
(***************************************************************************)
\* setChain: one employee, each step left, cleared or set.
SetChain(p, e, l1, l2) ==
    /\ proc[p] = Idle
    /\ e \notin {l1, l2}
    /\ Goto(p, Validating({l1, l2} \ {Keep, None}, [emps |-> {e}, l1 |-> l1, l2 |-> l2]))
    /\ UNCHANGED <<rows, active>>

\* bulkAssign: an L1, and an L2, null or nothing, for a list of employees; those
\* who are one of the approvers are skipped.
BulkAssign(p, emps, l1, l2) ==
    /\ proc[p] = Idle /\ emps # {}
    /\ Goto(p, Validating({l1, l2} \ {Keep, None}, [emps |-> emps \ {l1, l2}, l1 |-> l1, l2 |-> l2]))
    /\ UNCHANGED <<rows, active>>

\* bulkReassign: wherever one approver is active, another.
BulkReassign(p, from, to) ==
    /\ proc[p] = Idle /\ from # to
    /\ Goto(p, Validating({to}, [from |-> from, to |-> to]))
    /\ UNCHANGED <<rows, active>>

\* assertUserActive of one approver; an inactive one refuses the request.
Validate(p) ==
    /\ proc[p].pc = "validate"
    /\ \E u \in proc[p].todo :
        IF u \in active
        THEN Goto(p, Validating(proc[p].todo \ {u}, proc[p].request))
        ELSE Finish(p)
    /\ UNCHANGED <<rows, active>>
-----------------------------------------------------------------------------
(***************************************************************************)
(* The read, and what it makes of the request                              *)
(***************************************************************************)
Wanted(r, s) == IF s[2] = 1 THEN r.l1 ELSE r.l2
Resulting(r, s) == IF Wanted(r, s) = Keep THEN Approver(s) ELSE Wanted(r, s)

\* The request names the step, with an approver other than the one it has.
Changes_Left(r, s) == Wanted(r, s) # Approver(s)                          \* mutant
Changes(r, s) == Wanted(r, s) # Keep /\ Wanted(r, s) # Approver(s)

OrphansSecondStep(r) ==
    \E e \in r.emps : Resulting(r, <<e, 2>>) # None /\ Resulting(r, <<e, 1>>) = None

Proceed(p, plan) ==
    IF plan.ends = {} /\ DOMAIN plan.inserts = {} THEN Finish(p) ELSE Goto(p, plan)

\* computeStepChanges for every employee of the request.
ReadChains(p) ==
    /\ proc[p].pc = "validate" /\ proc[p].todo = {}
    /\ "emps" \in DOMAIN proc[p].request
    /\ LET r       == proc[p].request
           changed == {s \in r.emps \X {1, 2} : Changes(r, s)}
           set     == {s \in changed : Wanted(r, s) # None} IN
        IF OrphansSecondStep(r)
        THEN Finish(p)
        ELSE Proceed(p, Plan(IdsOf(changed), [s \in set |-> Wanted(r, s)], changed \ set))
    /\ UNCHANGED <<rows, active>>

\* bulkReassign: the active rows of from, but those of to itself.
ReadApprover(p) ==
    /\ proc[p].pc = "validate" /\ proc[p].todo = {}
    /\ "from" \in DOMAIN proc[p].request
    /\ LET r   == proc[p].request
           set == {s \in Slots : Approver(s) = r.from /\ s[1] # r.to} IN
        Proceed(p, Plan(IdsOf(set), [s \in set |-> r.to], {}))
    /\ UNCHANGED <<rows, active>>

\* endStep: the step has an approver, and no L2 is left without its L1.
EndStep(p, s) ==
    /\ proc[p] = Idle
    /\ Filled(s)
    /\ s[2] = 1 => ~ Filled(<<s[1], 2>>)
    /\ Goto(p, Plan(IdsOf({s}), <<>>, {s}))
    /\ UNCHANGED <<rows, active>>
-----------------------------------------------------------------------------
(***************************************************************************)
(* applyStepChanges                                                        *)
(***************************************************************************)
\* The rows of s once the UPDATE has ended the rows that the plan lists by id.
EndsRow_BySlot(plan, s, i) == \E id \in plan.ends : id[1] = s             \* mutant
EndsRow(plan, s, i) == <<s, i>> \in plan.ends
Ended(plan, s) ==
    [i \in DOMAIN rows[s] |->
        [approver |-> rows[s][i].approver, ended |-> rows[s][i].ended \/ EndsRow(plan, s, i)]]

\* The partial unique index and the CHECK let the insert into s through.
Admits_Anything(plan, s) == TRUE                                          \* mutant
Admits(plan, s) ==
    /\ \A i \in DOMAIN rows[s] : Ended(plan, s)[i].ended
    /\ plan.inserts[s] # s[1]

Committed(plan) ==
    [s \in Slots |->
        IF s \in DOMAIN plan.inserts
        THEN Append(Ended(plan, s), [approver |-> plan.inserts[s], ended |-> FALSE])
        ELSE Ended(plan, s)]

\* A refused insert rolls back the whole transaction.
RolledBack_KeepsEnds(plan) == [s \in Slots |-> Ended(plan, s)]            \* mutant
RolledBack(plan) == rows

Apply(p) ==
    /\ proc[p].pc = "apply"
    /\ LET plan == proc[p] IN
        IF \A s \in DOMAIN plan.inserts : Admits(plan, s)
        THEN /\ \A s \in DOMAIN plan.inserts : Len(rows[s]) < MaxRows[s]  \* bound
             /\ rows' = Committed(plan)
        ELSE rows' = RolledBack(plan)
    /\ Finish(p)
    /\ UNCHANGED active

\* A query fails or the server stops: the transaction, if open, rolls back.
Abort(p) ==
    /\ proc[p] # Idle
    /\ Finish(p)
    /\ UNCHANGED <<rows, active>>

SetActive(u) ==
    /\ active' = IF u \in active THEN active \ {u} ELSE active \cup {u}
    /\ UNCHANGED <<rows, proc>>
-----------------------------------------------------------------------------
Init ==
    /\ rows = [s \in Slots |-> <<>>]
    /\ active = Users
    /\ proc = [p \in Procs |-> Idle]

Request(p) ==
    \/ \E e \in Employees, l1, l2 \in Candidates \cup {Keep, None} : SetChain(p, e, l1, l2)
    \/ \E emps \in SUBSET Employees, l1 \in Candidates, l2 \in Candidates \cup {Keep, None} :
        BulkAssign(p, emps, l1, l2)
    \/ \E from, to \in Candidates : BulkReassign(p, from, to)
    \/ \E s \in Slots : EndStep(p, s)

Next ==
    \/ \E p \in Procs :
        Request(p) \/ Validate(p) \/ ReadChains(p) \/ ReadApprover(p) \/ Apply(p) \/ Abort(p)
    \/ \E u \in Deactivable : SetActive(u)

Spec == Init /\ [][Next]_vars
-----------------------------------------------------------------------------
Requests ==
    [emps : SUBSET Employees, l1 : Users \cup {Keep, None}, l2 : Users \cup {Keep, None}]
      \cup [from : Users, to : Users]

PlanOK(plan) ==
    /\ plan.ends \subseteq Slots \X Nat
    /\ DOMAIN plan.inserts \subseteq Slots
    /\ \A s \in DOMAIN plan.inserts : plan.inserts[s] \in Users
    /\ plan.clears \subseteq Slots
    /\ \A s \in Slots : plan.saw[s] \in 0..Len(rows[s])

\* Every variable has its type, and no plan has read rows that do not exist.
TypeOK ==
    /\ rows \in [Slots -> Seq(Assignment)]
    /\ active \subseteq Users
    /\ proc = [p \in Procs |-> proc[p]]
    /\ \A p \in Procs :
        \/ proc[p] = Idle
        \/ proc[p] \in [pc : {"validate"}, todo : SUBSET Users, request : Requests]
        \/ proc[p].pc = "apply" /\ PlanOK(proc[p])

\* A step never has two active approvers, whatever handlers race for it: all of
\* its rows but the newest have ended.
OneApproverPerStep ==
    \A s \in Slots : \A i \in ActiveRows(s) : i = Len(rows[s])

\* A step that has an approver loses it without another taking its place only
\* in a handler whose request clears that step: a reassignment that fails or
\* races with another leaves no step vacant.
VacatedOnRequestOnly ==
    [][\A s \in Slots : Filled(s) /\ ~ Filled(s)' =>
        \E p \in Procs : proc[p].pc = "apply" /\ s \in proc[p].clears /\ proc'[p] = Idle]_vars

\* An assignment that a handler did not see when it read the chain is neither
\* ended nor replaced by it, so of two racing assignments one is refused.
NoUnseenOverwrite ==
    [][\A s \in Slots : \A i \in ActiveRows(s) : i \notin ActiveRows(s)' =>
        \E p \in Procs : proc[p].pc = "apply" /\ i <= proc[p].saw[s] /\ proc'[p] = Idle]_vars

\* What listEmployeesWithChains and bulkAssign rely on: no L2 without an L1.
NoSecondStepAlone == \A e \in Employees : Filled(<<e, 2>>) => Filled(<<e, 1>>)
=============================================================================
