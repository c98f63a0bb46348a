------------------------- MODULE ApprovalChainsProofs -------------------------
(***************************************************************************)
(* One approver a step, and what a handler may end, for any number of      *)
(* users, handlers and rows.                                               *)
(***************************************************************************)
EXTENDS ApprovalChains, SequenceTheorems, TLAPS

\* The rows after the UPDATE are the rows before it, some of them ended.
LEMMA EndedRows ==
    ASSUME TypeOK, NEW plan, NEW s \in Slots
    PROVE  /\ Ended(plan, s) \in Seq(Assignment)
           /\ Len(Ended(plan, s)) = Len(rows[s])
           /\ DOMAIN rows[s] = 1..Len(rows[s])
           /\ \A i \in 1..Len(rows[s]) :
                /\ Ended(plan, s)[i].ended <=> (rows[s][i].ended \/ EndsRow(plan, s, i))
                /\ Ended(plan, s)[i].approver = rows[s][i].approver
<1>1. rows[s] \in Seq(Assignment)
  BY DEF TypeOK
<1>2. DOMAIN rows[s] = 1..Len(rows[s]) /\ Len(rows[s]) \in Nat
  BY <1>1
<1>3. \A i \in 1..Len(rows[s]) : rows[s][i] \in Assignment
  BY <1>1
<1>4. \A i \in 1..Len(rows[s]) :
        [approver |-> rows[s][i].approver, ended |-> rows[s][i].ended \/ EndsRow(plan, s, i)] \in Assignment
  BY <1>3 DEF Assignment, EndsRow
<1>5. Ended(plan, s) \in [1..Len(rows[s]) -> Assignment]
  BY <1>2, <1>4 DEF Ended
<1>6. Ended(plan, s) \in Seq(Assignment) /\ Len(Ended(plan, s)) = Len(rows[s])
  BY <1>2, <1>5
<1> QED BY <1>2, <1>6 DEF Ended

\* What a commit leaves of a slot: its rows, some ended, and maybe one more.
LEMMA CommittedRows ==
    ASSUME TypeOK, NEW plan, PlanOK(plan), NEW s \in Slots
    PROVE  /\ Committed(plan)[s] \in Seq(Assignment)
           /\ Len(Committed(plan)[s]) = Len(rows[s]) + (IF s \in DOMAIN plan.inserts THEN 1 ELSE 0)
           /\ \A i \in 1..Len(rows[s]) :
                Committed(plan)[s][i].ended <=> (rows[s][i].ended \/ EndsRow(plan, s, i))
           /\ s \in DOMAIN plan.inserts => ~ Committed(plan)[s][Len(rows[s]) + 1].ended
<1> DEFINE new == [approver |-> plan.inserts[s], ended |-> FALSE]
<1>1. /\ Ended(plan, s) \in Seq(Assignment) /\ Len(Ended(plan, s)) = Len(rows[s])
      /\ \A i \in 1..Len(rows[s]) :
            Ended(plan, s)[i].ended <=> (rows[s][i].ended \/ EndsRow(plan, s, i))
  BY EndedRows
<1>2. CASE s \in DOMAIN plan.inserts
  <2>1. new \in Assignment
    BY <1>2 DEF PlanOK, Assignment
  <2>2. Committed(plan)[s] = Append(Ended(plan, s), new)
    BY <1>2 DEF Committed
  <2>3. /\ Append(Ended(plan, s), new) \in Seq(Assignment)
        /\ Len(Append(Ended(plan, s), new)) = Len(rows[s]) + 1
        /\ \A i \in 1..Len(rows[s]) : Append(Ended(plan, s), new)[i] = Ended(plan, s)[i]
        /\ Append(Ended(plan, s), new)[Len(rows[s]) + 1] = new
    BY <1>1, <2>1, AppendProperties
  <2>4. Len(rows[s]) \in Nat
    BY DEF TypeOK
  <2>5. Committed(plan)[s] \in Seq(Assignment) /\ Len(Committed(plan)[s]) = Len(rows[s]) + 1
    BY <2>2, <2>3
  <2>6. \A i \in 1..Len(rows[s]) :
            Committed(plan)[s][i].ended <=> (rows[s][i].ended \/ EndsRow(plan, s, i))
    BY <1>1, <2>2, <2>3
  <2>7. ~ Committed(plan)[s][Len(rows[s]) + 1].ended
    BY <2>2, <2>3
  <2> QED BY <1>2, <2>5, <2>6, <2>7
<1>3. CASE s \notin DOMAIN plan.inserts
  <2>1. Committed(plan)[s] = Ended(plan, s)
    BY <1>3 DEF Committed
  <2>2. Len(rows[s]) \in Nat
    BY DEF TypeOK
  <2> QED BY <1>1, <1>3, <2>1, <2>2
<1> QED BY <1>2, <1>3

\* Only a handler's state and the rows matter to its plan: rows never shrink.
LEMMA PlanStays ==
    ASSUME NEW plan, PlanOK(plan), TypeOK, rows' \in [Slots -> Seq(Assignment)],
           \A s \in Slots : Len(rows[s]) <= Len(rows'[s])
    PROVE  PlanOK(plan)'
<1> SUFFICES ASSUME NEW s \in Slots PROVE plan.saw[s] \in 0..Len(rows'[s])
  BY DEF PlanOK
<1>1. Len(rows[s]) \in Nat /\ Len(rows'[s]) \in Nat
  BY DEF TypeOK
<1>2. plan.saw[s] \in 0..Len(rows[s])
  BY DEF PlanOK
<1> QED BY <1>1, <1>2

-----------------------------------------------------------------------------
\* A plan only ends rows that its read saw, of steps it fills or was asked to clear.
Informed(plan) ==
    \A id \in plan.ends :
        id[1] \in DOMAIN plan.inserts \cup plan.clears /\ id[2] <= plan.saw[id[1]]

PlansInformed == \A p \in Procs : proc[p].pc = "apply" => Informed(proc[p])

\* What the reads make of a request is such a plan.
LEMMA FreshPlan ==
    ASSUME TypeOK, NEW S \in SUBSET Slots, NEW inserts, NEW clears,
           S = DOMAIN inserts \cup clears, \A s \in DOMAIN inserts : inserts[s] \in Users
    PROVE  LET plan == Plan(IdsOf(S), inserts, clears) IN
            /\ plan.pc = "apply" /\ PlanOK(plan) /\ Informed(plan)
<1> DEFINE plan == Plan(IdsOf(S), inserts, clears)
<1>1. \A id \in IdsOf(S) : id \in Slots \X Nat /\ id[1] \in S /\ id[2] \in ActiveRows(id[1])
  <2> SUFFICES ASSUME NEW id \in IdsOf(S)
               PROVE  id \in Slots \X Nat /\ id[1] \in S /\ id[2] \in ActiveRows(id[1])
    OBVIOUS
  <2>1. PICK s \in S : id \in {s} \X ActiveRows(s)
    BY DEF IdsOf
  <2>2. id[1] = s /\ id[2] \in ActiveRows(s) /\ id = <<id[1], id[2]>>
    BY <2>1
  <2>3. ActiveRows(s) \subseteq Nat
    BY DEF ActiveRows, TypeOK
  <2> QED BY <2>2, <2>3
<1>2. \A s \in Slots : Len(rows[s]) \in Nat /\ DOMAIN rows[s] = 1..Len(rows[s])
  BY DEF TypeOK
<1>3. /\ plan.pc = "apply" /\ plan.ends = IdsOf(S) /\ plan.inserts = inserts
      /\ plan.clears = clears /\ plan.saw = [s \in Slots |-> Len(rows[s])]
  BY DEF Plan
<1> HIDE DEF plan
<1>a. \A s \in Slots : plan.saw[s] = Len(rows[s])
  BY <1>3
<1>b. clears \subseteq Slots /\ DOMAIN inserts \subseteq Slots
  OBVIOUS
<1>c. plan.ends \subseteq Slots \X Nat
  BY <1>1, <1>3
<1>d. \A s \in Slots : plan.saw[s] \in 0..Len(rows[s])
  BY <1>2, <1>a
<1>e. DOMAIN plan.inserts \subseteq Slots /\ \A s \in DOMAIN plan.inserts : plan.inserts[s] \in Users
  BY <1>3, <1>b
<1>4. PlanOK(plan)
  BY <1>3, <1>b, <1>c, <1>d, <1>e DEF PlanOK
<1>5. \A id \in plan.ends : id[2] <= plan.saw[id[1]]
  <2> SUFFICES ASSUME NEW id \in plan.ends PROVE id[2] <= plan.saw[id[1]]
    OBVIOUS
  <2>1. id[1] \in Slots /\ id[2] \in DOMAIN rows[id[1]]
    BY <1>1, <1>3 DEF ActiveRows
  <2> QED BY <1>2, <1>a, <2>1
<1>6. Informed(plan)
  BY <1>1, <1>3, <1>5 DEF Informed
<1> QED BY <1>3, <1>4, <1>6 DEF plan

\* The invariant of the handlers.
HandlersInv == TypeOK /\ PlansInformed

\* What a step may make of one handler.
HandlerOK(r) ==
    \/ r = Idle
    \/ r \in [pc : {"validate"}, todo : SUBSET Users, request : Requests]
    \/ r.pc = "apply" /\ PlanOK(r) /\ Informed(r)

\* A step that only moves one handler keeps the invariant.
LEMMA GotoStep ==
    ASSUME HandlersInv, NEW p \in Procs, NEW r, HandlerOK(r), Goto(p, r), rows' = rows, active' = active
    PROVE  HandlersInv'
<1>1. proc'[p] = r /\ \A q \in Procs \ {p} : proc'[q] = proc[q]
  BY DEF Goto, HandlersInv, TypeOK
<1>2. proc' = [q \in Procs |-> proc'[q]]
  BY <1>1 DEF Goto, HandlersInv, TypeOK
<1>4. \A q \in Procs :
        \/ proc'[q] = Idle
        \/ proc'[q] \in [pc : {"validate"}, todo : SUBSET Users, request : Requests]
        \/ proc'[q].pc = "apply" /\ PlanOK(proc'[q])
  BY <1>1 DEF HandlerOK, HandlersInv, TypeOK
<1>5. \A q \in Procs : proc'[q].pc = "apply" => Informed(proc'[q])
  BY <1>1 DEF HandlerOK, HandlersInv, PlansInformed, Idle
<1>6. TypeOK'
  <2>1. \A q \in Procs : PlanOK(proc'[q]) => PlanOK(proc[q])'
    BY DEF PlanOK
  <2>2. rows' \in [Slots -> Seq(Assignment)] /\ active' \subseteq Users
    BY DEF HandlersInv, TypeOK
  <2> QED BY <1>2, <1>4, <2>1, <2>2 DEF TypeOK
<1>7. PlansInformed'
  BY <1>5 DEF PlansInformed, Informed
<1> QED BY <1>6, <1>7 DEF HandlersInv

\* A validated request.
LEMMA ValidatingOK ==
    ASSUME NEW todo \in SUBSET Users, NEW request \in Requests
    PROVE  HandlerOK(Validating(todo, request))
BY DEF HandlerOK, Validating

\* Every action keeps the invariant of the handlers.
LEMMA HandlersStep == HandlersInv /\ [Next]_vars => HandlersInv'
<1> SUFFICES ASSUME HandlersInv, [Next]_vars PROVE HandlersInv'
  OBVIOUS
<1> USE ChainConstants
<1>a. HandlerOK(Idle)
  BY DEF HandlerOK
<1>1. ASSUME NEW p \in Procs, NEW e \in Employees, NEW l1 \in Candidates \cup {Keep, None},
             NEW l2 \in Candidates \cup {Keep, None}, SetChain(p, e, l1, l2)
      PROVE  HandlersInv'
  <2>1. HandlerOK(Validating({l1, l2} \ {Keep, None}, [emps |-> {e}, l1 |-> l1, l2 |-> l2]))
    BY ValidatingOK DEF Requests
  <2> QED BY <1>1, <2>1, GotoStep DEF SetChain
<1>2. ASSUME NEW p \in Procs, NEW emps \in SUBSET Employees, NEW l1 \in Candidates,
             NEW l2 \in Candidates \cup {Keep, None}, BulkAssign(p, emps, l1, l2)
      PROVE  HandlersInv'
  <2>1. HandlerOK(Validating({l1, l2} \ {Keep, None}, [emps |-> emps \ {l1, l2}, l1 |-> l1, l2 |-> l2]))
    BY ValidatingOK DEF Requests
  <2> QED BY <1>2, <2>1, GotoStep DEF BulkAssign
<1>3. ASSUME NEW p \in Procs, NEW from \in Candidates, NEW to \in Candidates, BulkReassign(p, from, to)
      PROVE  HandlersInv'
  <2>1. HandlerOK(Validating({to}, [from |-> from, to |-> to]))
    BY ValidatingOK DEF Requests
  <2> QED BY <1>3, <2>1, GotoStep DEF BulkReassign
<1>4. ASSUME NEW p \in Procs, NEW s \in Slots, EndStep(p, s) PROVE HandlersInv'
  <2>1. HandlerOK(Plan(IdsOf({s}), <<>>, {s}))
    BY FreshPlan DEF HandlerOK, HandlersInv
  <2> QED BY <1>4, <2>1, GotoStep DEF EndStep
<1>5. ASSUME NEW p \in Procs, Validate(p) PROVE HandlersInv'
  <2>1. proc[p] \in [pc : {"validate"}, todo : SUBSET Users, request : Requests]
    BY <1>5 DEF Validate, HandlersInv, TypeOK, Idle
  <2>2. PICK u \in proc[p].todo :
            IF u \in active THEN Goto(p, Validating(proc[p].todo \ {u}, proc[p].request)) ELSE Finish(p)
    BY <1>5 DEF Validate
  <2>3. HandlerOK(Validating(proc[p].todo \ {u}, proc[p].request))
    BY <2>1, ValidatingOK
  <2> QED BY <1>5, <1>a, <2>2, <2>3, GotoStep DEF Validate, Finish
<1>6. ASSUME NEW p \in Procs, ReadChains(p) PROVE HandlersInv'
  <2> DEFINE r == proc[p].request
             changed == {s \in r.emps \X {1, 2} : Changes(r, s)}
             set == {s \in changed : Wanted(r, s) # None}
             ins == [s \in set |-> Wanted(r, s)]
             plan == Plan(IdsOf(changed), ins, changed \ set)
  <2>1. r \in Requests /\ "emps" \in DOMAIN r
    BY <1>6 DEF ReadChains, HandlersInv, TypeOK, Idle
  <2>2. r \in [emps : SUBSET Employees, l1 : Users \cup {Keep, None}, l2 : Users \cup {Keep, None}]
    BY <2>1 DEF Requests
  <2>3. changed \in SUBSET Slots
    BY <2>2 DEF Slots
  <2>4. \A s \in set : Wanted(r, s) \in Users
    BY <2>2, <2>3 DEF Wanted, Changes, Slots
  <2>5. HandlerOK(plan)
    <3> HIDE DEF r, changed
    <3>1. DOMAIN ins = set /\ changed = DOMAIN ins \cup (changed \ set)
      OBVIOUS
    <3>2. \A s \in DOMAIN ins : ins[s] \in Users
      BY <2>4
    <3> HIDE DEF set, ins
    <3> QED BY <2>3, <3>1, <3>2, FreshPlan DEF HandlerOK, HandlersInv
  <2>6. Finish(p) \/ Goto(p, plan)
    BY <1>6 DEF ReadChains, Proceed
  <2> QED BY <1>6, <1>a, <2>5, <2>6, GotoStep DEF ReadChains, Finish
<1>7. ASSUME NEW p \in Procs, ReadApprover(p) PROVE HandlersInv'
  <2> DEFINE r == proc[p].request
             set == {s \in Slots : Approver(s) = r.from /\ s[1] # r.to}
             ins == [s \in set |-> r.to]
             plan == Plan(IdsOf(set), ins, {})
  <2>1. r \in Requests /\ "from" \in DOMAIN r
    BY <1>7 DEF ReadApprover, HandlersInv, TypeOK, Idle
  <2>2. r.to \in Users
    BY <2>1 DEF Requests
  <2>3. HandlerOK(plan)
    <3>1. DOMAIN ins = set /\ set = DOMAIN ins \cup {} /\ set \in SUBSET Slots
      OBVIOUS
    <3>2. \A s \in DOMAIN ins : ins[s] \in Users
      BY <2>2
    <3> HIDE DEF set, ins
    <3> QED BY <3>1, <3>2, FreshPlan DEF HandlerOK, HandlersInv
  <2>4. Finish(p) \/ Goto(p, plan)
    BY <1>7 DEF ReadApprover, Proceed
  <2> QED BY <1>7, <1>a, <2>3, <2>4, GotoStep DEF ReadApprover, Finish
<1>8. ASSUME NEW p \in Procs, Apply(p) PROVE HandlersInv'
  <2>1. proc[p].pc = "apply" /\ PlanOK(proc[p])
    BY <1>8 DEF Apply, HandlersInv, TypeOK, Idle
  <2>2. rows' = Committed(proc[p]) \/ rows' = rows
    BY <1>8 DEF Apply, RolledBack
  <2>3. \A s \in Slots : rows'[s] \in Seq(Assignment) /\ Len(rows[s]) <= Len(rows'[s])
    BY <2>1, <2>2, CommittedRows DEF HandlersInv, TypeOK
  <2>4. rows' \in [Slots -> Seq(Assignment)]
    BY <2>2, <2>3 DEF Committed, HandlersInv, TypeOK
  <2>5. proc'[p] = Idle /\ \A q \in Procs \ {p} : proc'[q] = proc[q]
    BY <1>8 DEF Apply, Finish, Goto, HandlersInv, TypeOK
  <2>6. proc' = [q \in Procs |-> proc'[q]] /\ active' = active
    BY <1>8 DEF Apply, Finish, Goto, HandlersInv, TypeOK
  <2>7. \A q \in Procs :
            \/ proc'[q] = Idle
            \/ proc'[q] \in [pc : {"validate"}, todo : SUBSET Users, request : Requests]
            \/ proc'[q].pc = "apply" /\ PlanOK(proc[q])' /\ q # p
    BY <2>3, <2>4, <2>5, PlanStays DEF HandlersInv, TypeOK
  <2>8. TypeOK'
    BY <2>4, <2>5, <2>6, <2>7 DEF TypeOK, PlanOK, HandlersInv
  <2>9. PlansInformed'
    BY <2>5 DEF PlansInformed, HandlersInv, Informed, Idle
  <2> QED BY <2>8, <2>9 DEF HandlersInv
<1>9. ASSUME NEW p \in Procs, Abort(p) PROVE HandlersInv'
  BY <1>9, <1>a, GotoStep DEF Abort, Finish
<1>10. ASSUME NEW u \in Deactivable, SetActive(u) PROVE HandlersInv'
  BY <1>10 DEF SetActive, HandlersInv, TypeOK, PlanOK, PlansInformed, Informed
<1>11. CASE UNCHANGED vars
  BY <1>11 DEF vars, HandlersInv, TypeOK, PlanOK, PlansInformed, Informed
<1> QED
  BY <1>1, <1>2, <1>3, <1>4, <1>5, <1>6, <1>7, <1>8, <1>9, <1>10, <1>11 DEF Next, Request

\* No handler runs at the start.
LEMMA HandlersInit == Init => HandlersInv
<1> SUFFICES ASSUME Init PROVE HandlersInv
  OBVIOUS
<1>1. rows \in [Slots -> Seq(Assignment)]
  BY DEF Init
<1>2. \A p \in Procs : proc[p] = Idle
  BY DEF Init
<1> QED BY <1>1, <1>2 DEF Init, HandlersInv, TypeOK, PlansInformed, Idle

\* Every reachable state is well typed, and a handler about to write knows only
\* rows that exist, of steps its request names.
THEOREM HandlersInvariant == Spec => []HandlersInv
BY HandlersInit, HandlersStep, PTL DEF Spec

\* Type correctness, for any number of users, handlers and rows.
THEOREM TypeCorrect == Spec => []TypeOK
<1>1. HandlersInv => TypeOK
  BY DEF HandlersInv
<1> QED BY <1>1, HandlersInvariant, PTL
-----------------------------------------------------------------------------
\* Only Apply writes rows: it commits the plan of one handler or nothing.
LEMMA RowsWritten ==
    ASSUME HandlersInv, [Next]_vars, rows' # rows
    PROVE  \E p \in Procs :
                /\ proc[p].pc = "apply" /\ proc'[p] = Idle
                /\ PlanOK(proc[p]) /\ Informed(proc[p])
                /\ rows' = Committed(proc[p])
                /\ \A s \in DOMAIN proc[p].inserts : Admits(proc[p], s)
<1>1. PICK p \in Procs : Apply(p)
  BY DEF Next, Request, vars, SetChain, BulkAssign, BulkReassign, EndStep, Validate, ReadChains,
         ReadApprover, Abort, SetActive
<1>2. proc[p].pc = "apply" /\ PlanOK(proc[p]) /\ Informed(proc[p])
  BY <1>1 DEF Apply, HandlersInv, TypeOK, PlansInformed, Idle
<1>3. proc'[p] = Idle
  BY <1>1 DEF Apply, Finish, Goto, HandlersInv, TypeOK
<1>4. rows' = Committed(proc[p]) /\ \A s \in DOMAIN proc[p].inserts : Admits(proc[p], s)
  BY <1>1 DEF Apply, RolledBack
<1> QED BY <1>2, <1>3, <1>4

\* A commit keeps each step at one active approver: where it inserts, every
\* older row has ended, by the unique index.
LEMMA OneApproverStep == HandlersInv /\ OneApproverPerStep /\ [Next]_vars => OneApproverPerStep'
<1> SUFFICES ASSUME HandlersInv, OneApproverPerStep, [Next]_vars, NEW s \in Slots,
                    NEW i \in ActiveRows(s)'
             PROVE  i = Len(rows'[s])
  BY DEF OneApproverPerStep
<1>1. CASE rows' = rows
  BY <1>1 DEF OneApproverPerStep, ActiveRows
<1>2. CASE rows' # rows
  <2>1. PICK p \in Procs :
            /\ PlanOK(proc[p]) /\ rows' = Committed(proc[p])
            /\ \A t \in DOMAIN proc[p].inserts : Admits(proc[p], t)
    BY <1>2, RowsWritten
  <2> DEFINE plan == proc[p]
  <2>2. /\ rows'[s] \in Seq(Assignment)
        /\ Len(rows'[s]) = Len(rows[s]) + (IF s \in DOMAIN plan.inserts THEN 1 ELSE 0)
        /\ \A j \in 1..Len(rows[s]) : rows'[s][j].ended <=> (rows[s][j].ended \/ EndsRow(plan, s, j))
    BY <2>1, CommittedRows DEF HandlersInv
  <2>3. i \in 1..Len(rows'[s]) /\ ~ rows'[s][i].ended
    <3>1. DOMAIN rows'[s] = 1..Len(rows'[s])
      BY <2>2, LenProperties
    <3>2. i \in DOMAIN rows'[s] /\ ~ rows'[s][i].ended
      BY DEF ActiveRows
    <3> QED BY <3>1, <3>2
  <2>4. Len(rows[s]) \in Nat /\ DOMAIN rows[s] = 1..Len(rows[s])
    BY DEF HandlersInv, TypeOK
  <2>5. CASE s \in DOMAIN plan.inserts
    <3>1. \A j \in 1..Len(rows[s]) : rows'[s][j].ended
      BY <2>1, <2>2, <2>4, <2>5, EndedRows DEF Admits, HandlersInv
    <3> QED BY <2>2, <2>3, <2>4, <2>5, <3>1
  <2>6. CASE s \notin DOMAIN plan.inserts
    <3>1. i \in 1..Len(rows[s]) /\ ~ rows[s][i].ended
      BY <2>2, <2>3, <2>4, <2>6
    <3>2. i \in ActiveRows(s)
      BY <2>4, <3>1 DEF ActiveRows
    <3> QED BY <2>2, <2>4, <2>6, <3>2 DEF OneApproverPerStep
  <2> QED BY <2>5, <2>6
<1> QED BY <1>1, <1>2

\* A step never has two active approvers: the reads of two handlers may be as
\* stale as they like.
THEOREM OneApprover == Spec => []OneApproverPerStep
<1>1. Init => OneApproverPerStep
  BY DEF Init, OneApproverPerStep, ActiveRows
<1> QED BY <1>1, HandlersInvariant, OneApproverStep, PTL DEF Spec

\* What a step of one handler ends is what its plan lists.
LEMMA RowEnded ==
    ASSUME HandlersInv, [Next]_vars, NEW s \in Slots, NEW i \in ActiveRows(s), i \notin ActiveRows(s)'
    PROVE  \E p \in Procs :
                /\ proc[p].pc = "apply" /\ proc'[p] = Idle
                /\ Informed(proc[p]) /\ PlanOK(proc[p]) /\ rows' = Committed(proc[p])
                /\ <<s, i>> \in proc[p].ends
<1>1. rows' # rows
  BY DEF ActiveRows
<1>2. PICK p \in Procs :
            /\ proc[p].pc = "apply" /\ proc'[p] = Idle
            /\ PlanOK(proc[p]) /\ Informed(proc[p]) /\ rows' = Committed(proc[p])
  BY <1>1, RowsWritten
<1>3. /\ rows'[s] \in Seq(Assignment)
      /\ Len(rows'[s]) = Len(rows[s]) + (IF s \in DOMAIN proc[p].inserts THEN 1 ELSE 0)
      /\ \A j \in 1..Len(rows[s]) :
            rows'[s][j].ended <=> (rows[s][j].ended \/ EndsRow(proc[p], s, j))
  BY <1>2, CommittedRows DEF HandlersInv
<1>4. Len(rows[s]) \in Nat /\ i \in 1..Len(rows[s]) /\ ~ rows[s][i].ended
  BY DEF ActiveRows, HandlersInv, TypeOK
<1>5. i \in DOMAIN rows'[s]
  <2>1. DOMAIN rows'[s] = 1..Len(rows'[s])
    BY <1>3, LenProperties
  <2>2. Len(rows[s]) <= Len(rows'[s]) /\ Len(rows'[s]) \in Nat
    <3>1. Len(rows'[s]) = Len(rows[s]) + (IF s \in DOMAIN proc[p].inserts THEN 1 ELSE 0)
      BY <1>3
    <3>2. (IF s \in DOMAIN proc[p].inserts THEN 1 ELSE 0) \in {0, 1}
      OBVIOUS
    <3>3. Len(rows[s]) \in Nat
      BY <1>4
    <3>4. \A m \in Nat, k \in {0, 1} : m <= m + k /\ m + k \in Nat
      OBVIOUS
    <3> QED BY <3>1, <3>2, <3>3, <3>4
  <2> QED BY <1>4, <2>1, <2>2
<1>6. EndsRow(proc[p], s, i)
  BY <1>3, <1>4, <1>5 DEF ActiveRows
<1> QED BY <1>2, <1>6 DEF EndsRow

\* Of two racing assignments of a step the later commit is refused: an approver
\* is only ended by a handler that had read the assignment.
THEOREM NoAssignmentEndedUnseen == Spec => NoUnseenOverwrite
<1>1. HandlersInv /\ [Next]_vars =>
        [\A s \in Slots : \A i \in ActiveRows(s) : i \notin ActiveRows(s)' =>
            \E p \in Procs : proc[p].pc = "apply" /\ i <= proc[p].saw[s] /\ proc'[p] = Idle]_vars
  <2> SUFFICES ASSUME HandlersInv, [Next]_vars, NEW s \in Slots, NEW i \in ActiveRows(s),
                      i \notin ActiveRows(s)'
               PROVE  \E p \in Procs : proc[p].pc = "apply" /\ i <= proc[p].saw[s] /\ proc'[p] = Idle
    OBVIOUS
  <2>1. PICK p \in Procs : /\ proc[p].pc = "apply" /\ proc'[p] = Idle
                           /\ Informed(proc[p]) /\ <<s, i>> \in proc[p].ends
    BY RowEnded
  <2> QED BY <2>1 DEF Informed
<1> QED BY <1>1, HandlersInvariant, PTL DEF Spec, NoUnseenOverwrite

\* A step falls vacant only in a handler whose request clears it: a reassignment
\* replaces the approver or changes nothing.
THEOREM NoStepVacatedByAccident == Spec => VacatedOnRequestOnly
<1>1. HandlersInv /\ [Next]_vars =>
        [\A s \in Slots : Filled(s) /\ ~ Filled(s)' =>
            \E p \in Procs : proc[p].pc = "apply" /\ s \in proc[p].clears /\ proc'[p] = Idle]_vars
  <2> SUFFICES ASSUME HandlersInv, [Next]_vars, NEW s \in Slots, Filled(s), ~ Filled(s)'
               PROVE  \E p \in Procs :
                        proc[p].pc = "apply" /\ s \in proc[p].clears /\ proc'[p] = Idle
    OBVIOUS
  <2>1. PICK i \in ActiveRows(s) : i \notin ActiveRows(s)'
    BY DEF Filled
  <2>2. PICK p \in Procs :
            /\ proc[p].pc = "apply" /\ proc'[p] = Idle
            /\ Informed(proc[p]) /\ PlanOK(proc[p]) /\ rows' = Committed(proc[p])
            /\ <<s, i>> \in proc[p].ends
    BY <2>1, RowEnded
  <2>3. s \in DOMAIN proc[p].inserts \cup proc[p].clears
    BY <2>2 DEF Informed
  <2>4. ASSUME s \in DOMAIN proc[p].inserts PROVE FALSE
    <3>1. /\ rows'[s] \in Seq(Assignment)
          /\ Len(rows'[s]) = Len(rows[s]) + 1
          /\ ~ rows'[s][Len(rows[s]) + 1].ended
      BY <2>2, <2>4, CommittedRows DEF HandlersInv
    <3>2. Len(rows[s]) \in Nat
      BY DEF HandlersInv, TypeOK
    <3>3. Len(rows[s]) + 1 \in ActiveRows(s)'
      BY <3>1, <3>2 DEF ActiveRows
    <3> QED BY <3>3 DEF Filled
  <2> QED BY <2>2, <2>3, <2>4
<1> QED BY <1>1, HandlersInvariant, PTL DEF Spec, VacatedOnRequestOnly
=============================================================================
