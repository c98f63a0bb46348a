------------------------------- MODULE SeedData -------------------------------
(***************************************************************************)
(* The pure generators of the seed: who approves whom, and the leave and   *)
(* correction requests an employee starts with.                            *)
(*                                                                         *)
(* A day is the number of days since the Monday the leave rows start from, *)
(* working days are counted in halves, a time is in minutes.  Texts and    *)
(* the hours of submission and decision are left out.                      *)
(***************************************************************************)
EXTENDS Integers, Sequences, FiniteSets, SequencesExt, FiniteSetsExt

CONSTANTS
    Nobody      \* no approver

\* Ids or dates from the lowest up.
InOrder(numbers) ==
    CHOOSE s \in [1..Cardinality(numbers) -> numbers] : \A m, n \in DOMAIN s : m < n => s[m] < s[n]
-----------------------------------------------------------------------------
(***************************************************************************)
(* chain-assignments                                                       *)
(***************************************************************************)
\* The pool turned so that it starts at the i-th candidate.
Rotated(pool, i) == [k \in DOMAIN pool |-> pool[((i + k - 1) % Len(pool)) + 1]]

\* pick: the first candidate who is neither the employee nor, if there is a choice,
\* the one to avoid.  Nobody: it throws.
Eligible_Self(self, c) == TRUE                                             \* mutant
Eligible(self, c) == c # self
Pick(self, i, pools, avoid) ==
    LET turned    == FlattenSeq([n \in DOMAIN pools |-> Rotated(pools[n], i)])
        eligible  == {k \in DOMAIN turned : Eligible(self, turned[k])}
        preferred == {k \in eligible : turned[k] # avoid}
    IN CASE preferred # {}                  -> turned[Min(preferred)]
         [] preferred = {} /\ eligible # {} -> turned[Min(eligible)]
         [] OTHER                           -> Nobody

\* assignApprovers, for employees [id, role, admin].
Staff(employees) == {e \in employees : ~ e.admin}
IdsOf(employees, role) == InOrder({e.id : e \in {f \in Staff(employees) : f.role = role}})
IndexInRole(employees, e) ==
    Cardinality({f \in Staff(employees) : f.role = e.role /\ f.id < e.id})

AssignedTo(employees, e) ==
    LET PM == IdsOf(employees, "PROJECT_MANAGER")
        TD == IdsOf(employees, "TECHNICAL_DIRECTOR")
        HR == IdsOf(employees, "HR_ADMIN")
        i  == IndexInRole(employees, e)
        l1 == Pick(e.id, i, CASE e.role = "PROJECT_MANAGER" -> <<TD, HR, PM>>
                              [] e.role \in {"TECHNICAL_DIRECTOR", "OPERATIONS_MANAGER", "HR_ADMIN"}
                                                            -> <<HR, TD, PM>>
                              [] OTHER                      -> <<PM, TD, HR>>, Nobody)
        second(pools) == <<[emp |-> e.id, step |-> 2, approver |-> Pick(e.id, i, pools, l1)]>>
    IN <<[emp |-> e.id, step |-> 1, approver |-> l1]>>
       \o CASE e.role = "EMPLOYEE"        -> second(<<TD, PM, HR>>)
            [] e.role = "PROJECT_MANAGER" -> second(<<HR, TD>>)
            [] OTHER                      -> <<>>

AssignApprovers(employees) ==
    LET ids == InOrder({e.id : e \in Staff(employees)}) IN
    FlattenSeq([n \in DOMAIN ids |->
        AssignedTo(employees, CHOOSE e \in Staff(employees) : e.id = ids[n])])
-----------------------------------------------------------------------------
(***************************************************************************)
(* leave-rows                                                              *)
(***************************************************************************)
\* nthWeekday from a Monday.
NthWeekday(offset) == offset + 2 * (offset \div 5)

NonAttachTypes == <<"vacation", "birthday", "vacation", "emergency">>
HalfDayOk      == {"vacation", "sick", "emergency"}
MultiDayOk     == {"vacation", "sick"}
NeedsFile(t)   == t \in {"sick", "bereavement"}
Final(l1, l2)  == IF l2 # Nobody THEN l2 ELSE l1

FirstType(attach, index) == IF attach THEN "sick" ELSE NonAttachTypes[(index % 4) + 1]

\* The four rows of an employee: pending at either step, approved, and refused or
\* cancelled.
BuildLeaveRows(e, l1, l2, attach, index) ==
    LET base == index % 8
        slot == index % 5
        row(t, from, to, halves, portion, status) ==
            [emp |-> e, type |-> t, start |-> NthWeekday(from), end |-> NthWeekday(to),
             halves |-> halves, portion |-> portion, status |-> status, l1 |-> l1, l2 |-> l2,
             decidedBy |-> IF status \in {"approved", "rejected"} THEN Final(l1, l2) ELSE Nobody]
        type  == FirstType(attach, index)
        first == CASE slot = 0 /\ type \in HalfDayOk  -> row(type, base, base, 1, "first_half", "pending_l1")
                   [] slot = 1 /\ type \in MultiDayOk -> row(type, base, base + 1, 4, "full", "pending_l1")
                   [] OTHER                           -> row(type, base, base, 2, "full", "pending_l1")
        second   == row("vacation", base + 2, base + 2, 2, "full", "pending_l2")
        approved == row(IF attach THEN "sick" ELSE "vacation", base + 4, base + 4, 2, "full", "approved")
        past  == CASE attach                -> row("bereavement", base + 6, base + 6, 2, "full", "rejected")
                   [] ~ attach /\ e % 2 = 0 -> row("emergency", base + 6, base + 6, 2, "full", "cancelled")
                   [] OTHER                 -> row("birthday", base + 6, base + 6, 2, "full", "rejected")
    IN IF l2 = Nobody THEN <<first, approved, past>> ELSE <<first, second, approved, past>>

\* halfDaySlot: without a schedule a half day becomes a full one.
HalfDaySlot(row, scheduled) ==
    IF row.portion = "full" \/ scheduled THEN row ELSE [row EXCEPT !.portion = "full", !.halves = 2]
-----------------------------------------------------------------------------
(***************************************************************************)
(* correction-rows, for entries [date, in, out] in the order of their days *)
(***************************************************************************)
BuildCorrectionRows(e, l1, l2, entries) ==
    LET row(n, target, in, out, status) ==
            [emp |-> e, date |-> entries[n].date, target |-> target, in |-> in, out |-> out,
             status |-> status, l1 |-> l1, l2 |-> l2,
             decidedBy |-> IF status = "pending_l1" THEN Nobody ELSE Final(l1, l2)]
        outOf(n) == IF entries[n].out # Nobody THEN entries[n].out ELSE entries[n].in + 480
        at(n)    == CASE n = 1 -> row(n, TRUE, entries[n].in - 15, outOf(n), "pending_l1")
                      [] n = 2 -> row(n, TRUE, entries[n].in, outOf(n) + 30, "approved")
                      [] n = 3 -> row(n, FALSE, 540, Nobody, "rejected")
    IN [n \in 1..(IF Len(entries) < 3 THEN Len(entries) ELSE 3) |-> at(n)]
=============================================================================
