------------------------- MODULE RefreshTokensProofs -------------------------
(***************************************************************************)
(* One-time rotation and what a revoke-all ends, for any number of users,  *)
(* handlers and tokens.                                                    *)
(***************************************************************************)
EXTENDS RefreshTokens, TLAPS

\* A row goes from free to active when its handler issues it, and back never.
LEMMA IssueRow ==
    ASSUME TypeOK, NEW p \in Procs, Issue(p)
    PROVE  /\ proc[p].user \in Users /\ proc[p].from \in 0..MaxTokens
           /\ proc'[p].pc \in {"prune", "idle"} /\ proc' \in [Procs -> ProcStates]
           /\ \A q \in Procs : q # p => proc'[q] = proc[q]
           /\ \E t \in Tokens \ Issued :
                /\ ledger' = [ledger EXCEPT ![t] = [user |-> proc[p].user, revoked |-> FALSE]]
                /\ origin' = [origin EXCEPT ![t] = proc[p].from]
<1> USE TokenConstants
<1>1. proc[p] \in ProcStates /\ proc[p].pc = "issue"
  BY DEF TypeOK, Issue
<1>2. proc[p].user \in Users /\ proc[p].from \in 0..MaxTokens
  BY <1>1 DEF ProcStates, Tokens, ByLogin
<1>3. [pc |-> "prune"] \in ProcStates /\ Idle \in ProcStates
  BY DEF ProcStates, Idle
<1>4. PICK r \in {[pc |-> "prune"], Idle} : Goto(p, r)
  BY DEF Issue, Finish
<1>5. /\ proc'[p].pc \in {"prune", "idle"} /\ proc' \in [Procs -> ProcStates]
      /\ \A q \in Procs : q # p => proc'[q] = proc[q]
  BY <1>3, <1>4 DEF Goto, TypeOK, Idle
<1> QED BY <1>2, <1>5 DEF Issue

\* Every action keeps the variables in their types.
LEMMA TypeStep == TypeOK /\ [Next]_vars => TypeOK'
<1> SUFFICES ASSUME TypeOK, [Next]_vars PROVE TypeOK'
  OBVIOUS
<1> USE TokenConstants, TokenNone DEF TypeOK, ProcStates, LedgerRow, Idle, Goto, Finish, Issued,
        Tokens, ByLogin
<1>1. ASSUME NEW p \in Procs, NEW u \in Users, Login(p, u) PROVE TypeOK'
  BY <1>1 DEF Login
<1>2. ASSUME NEW p \in Procs, Issue(p) PROVE TypeOK'
  <2>1. PICK t \in Tokens \ Issued :
            /\ ledger' = [ledger EXCEPT ![t] = [user |-> proc[p].user, revoked |-> FALSE]]
            /\ origin' = [origin EXCEPT ![t] = proc[p].from]
    BY <1>2, IssueRow
  <2>2. proc[p].user \in Users /\ proc[p].from \in 0..MaxTokens
    BY <1>2, IssueRow
  <2>3. Issued \subseteq Issued' /\ t \in Issued'
    BY <2>1, <2>2
  <2>4. ledger' \in [Tokens -> LedgerRow \cup {None}] /\ origin' \in [Tokens -> 0..MaxTokens \cup {None}]
    BY <2>1, <2>2
  <2>5. \A s \in Tokens : ledger'[s] # None => s \in Issued'
    BY <2>1, <2>3
  <2>6. expired' = expired /\ swept' = swept /\ active' = active /\ loggedOut' \subseteq Users
    BY <1>2 DEF Issue
  <2>7. proc' \in [Procs -> ProcStates]
    BY <1>2, IssueRow
  <2> QED BY <2>3, <2>4, <2>5, <2>6, <2>7
<1>3. ASSUME NEW p \in Procs, Prune(p) PROVE TypeOK'
  BY <1>3 DEF Prune
<1>4. ASSUME NEW p \in Procs, NEW t \in Tokens, Present(p, t) PROVE TypeOK'
  BY <1>4 DEF Present
<1>5. ASSUME NEW p \in Procs, CheckOwner(p) PROVE TypeOK'
  <2>1. proc[p] \in [pc : {"owner", "rotate"}, user : Users, from : Tokens]
    BY <1>5 DEF CheckOwner
  <2>2. PICK r \in {[pc |-> "rotate", user |-> proc[p].user, from |-> proc[p].from], Idle} : Goto(p, r)
    BY <1>5 DEF CheckOwner
  <2>3. r \in ProcStates
    BY <2>1, <2>2
  <2> QED BY <1>5, <2>2, <2>3 DEF CheckOwner
<1>6. ASSUME NEW p \in Procs, Rotate(p) PROVE TypeOK'
  <2>1. proc[p] \in [pc : {"owner", "rotate"}, user : Users, from : Tokens]
    BY <1>6 DEF Rotate
  <2>2. PICK r \in {[pc |-> "issue", user |-> proc[p].user, from |-> proc[p].from],
                    [pc |-> "revoke_all", user |-> proc[p].user, by |-> "reuse"]} : Goto(p, r)
    BY <1>6 DEF Rotate
  <2>3. r \in ProcStates
    BY <2>1, <2>2
  <2>4. ledger' = ledger \/ (ledger[proc[p].from] # None /\ ledger' = Revoked(proc[p].from))
    BY <1>6 DEF Rotate, RevokeIfActive, Live
  <2>5. /\ ledger' \in [Tokens -> LedgerRow \cup {None}]
        /\ \A t \in Tokens : ledger'[t] # None => ledger[t] # None
    <3>1. CASE ledger' = ledger
      BY <3>1
    <3>2. ASSUME NEW t \in Tokens, t = proc[p].from, ledger[t] # None, ledger' = Revoked(t)
          PROVE  /\ ledger' \in [Tokens -> LedgerRow \cup {None}]
                 /\ \A s \in Tokens : ledger'[s] # None => ledger[s] # None
      <4>1. ledger[t].user \in Users
        BY <3>2
      <4> QED BY <3>2, <4>1 DEF Revoked
    <3> QED BY <2>1, <2>4, <3>1, <3>2
  <2> QED BY <1>6, <2>2, <2>3, <2>5 DEF Rotate
<1>7. ASSUME NEW p \in Procs, NEW u \in Users, Logout(p, u) PROVE TypeOK'
  BY <1>7 DEF Logout
<1>8. ASSUME NEW p \in Procs, RevokeAll(p) PROVE TypeOK'
  BY <1>8 DEF RevokeAll, LiveOf, Live
<1>9. ASSUME NEW p \in Procs, Abort(p) PROVE TypeOK'
  BY <1>9 DEF Abort
<1>10. ASSUME NEW t \in Tokens, Expire(t) PROVE TypeOK'
  BY <1>10 DEF Expire
<1>11. ASSUME NEW u \in Users, SetActive(u) PROVE TypeOK'
  BY <1>11 DEF SetActive
<1>12. CASE UNCHANGED vars
  BY <1>12 DEF vars
<1> QED
  BY <1>1, <1>2, <1>3, <1>4, <1>5, <1>6, <1>7, <1>8, <1>9, <1>10, <1>11, <1>12 DEF Next, Handler

\* The initial state is well typed.
LEMMA TypeInit == Init => TypeOK
BY TokenConstants, TokenNone
   DEF Init, TypeOK, ProcStates, LedgerRow, Idle, Issued, Tokens, ByLogin

\* Every reachable state is well typed, and the ledger only has rows of tokens
\* that a handler issued.
THEOREM TypeCorrect == Spec => []TypeOK
BY TypeInit, TypeStep, PTL DEF Spec
-----------------------------------------------------------------------------
(***************************************************************************)
(* The inductive invariant.  A handler between revokeIfActive and issue    *)
(* owns the token it burned: nobody else burned it, nothing was issued for *)
(* it, and no revoke-all took it.                                          *)
(***************************************************************************)
Burned(p) == proc[p].pc = "issue" /\ proc[p].from \in Tokens

\* Tokens that have a revoked row or none any more, but that no sweep took.
Spent == {t \in Issued : ~ Live(t) /\ t \notin swept}

RotationInv ==
    /\ \A t \in Tokens : origin[t] \in Tokens => origin[t] \in Spent
    /\ \A s, t \in Tokens : origin[s] \in Tokens /\ origin[s] = origin[t] => s = t
    /\ \A p \in Procs : Burned(p) =>
        /\ proc[p].from \in Spent
        /\ \A t \in Tokens : origin[t] # proc[p].from
    /\ \A p, q \in Procs : Burned(p) /\ Burned(q) /\ proc[p].from = proc[q].from => p = q
    /\ \A t \in swept : ~ Live(t)

\* The invariant is kept by a step that brings no row to life, issues nothing,
\* sweeps only what it revokes and lets no handler burn.
LEMMA QuietStep ==
    ASSUME TypeOK, TypeOK', RotationInv,
           origin' = origin,
           \A t \in Tokens : Live(t)' => Live(t),
           swept \subseteq swept', \A t \in swept' \ swept : Live(t) /\ ~ Live(t)',
           \A p \in Procs : Burned(p)' => proc'[p] = proc[p]
    PROVE  RotationInv'
<1>1. Issued' = Issued
  BY DEF Issued
<1>2. \A t \in Tokens : t \in Spent => t \in Spent'
  BY <1>1 DEF Spent
<1>3. \A p \in Procs : Burned(p)' => Burned(p) /\ proc'[p].from = proc[p].from
  BY DEF Burned
<1>4. swept' \subseteq Tokens
  BY DEF TypeOK, Issued
<1>5. \A t \in swept' : ~ Live(t)'
  BY <1>4 DEF RotationInv
<1>6. \A p \in Procs : Burned(p)' => proc[p].from \in Tokens
  BY <1>3 DEF Burned
<1> QED BY <1>2, <1>3, <1>5, <1>6 DEF RotationInv

\* Every action keeps the invariant.
LEMMA RotationStep == TypeOK /\ TypeOK' /\ RotationInv /\ [Next]_vars => RotationInv'
<1> SUFFICES ASSUME TypeOK, TypeOK', RotationInv, [Next]_vars PROVE RotationInv'
  OBVIOUS
<1> USE TokenConstants, TokenNone
<1>1. ASSUME NEW p \in Procs, NEW u \in Users, Login(p, u) PROVE RotationInv'
  <2>1. \A q \in Procs : Burned(q)' => proc'[q] = proc[q]
    BY <1>1 DEF Login, Goto, Burned, ByLogin, Tokens, TypeOK
  <2> QED BY <1>1, <2>1, QuietStep DEF Login, Live
<1>2. ASSUME NEW p \in Procs, Issue(p) PROVE RotationInv'
  <2>1. PICK t \in Tokens \ Issued :
            /\ ledger' = [ledger EXCEPT ![t] = [user |-> proc[p].user, revoked |-> FALSE]]
            /\ origin' = [origin EXCEPT ![t] = proc[p].from]
    BY <1>2, IssueRow
  <2>2. proc[p].from \in 0..MaxTokens
    BY <1>2, IssueRow
  <2>3. swept' = swept /\ proc[p].pc = "issue"
    BY <1>2 DEF Issue
  <2>4. \A s \in Tokens : s # t => origin'[s] = origin[s] /\ ledger'[s] = ledger[s]
    BY <2>1 DEF TypeOK
  <2>5. origin'[t] = proc[p].from
    BY <2>1 DEF TypeOK
  <2>6. \A s \in Tokens : s \in Spent => s \in Spent'
    BY <2>1, <2>3, <2>4 DEF Spent, Live, Issued
  <2>7. \A q \in Procs : Burned(q)' => q # p /\ Burned(q) /\ proc'[q] = proc[q]
    BY <1>2, IssueRow DEF Burned
  <2>8. proc[p].from \in Tokens => Burned(p)
    BY <2>3 DEF Burned
  <2>9. \A s \in Tokens : origin'[s] \in Tokens => origin'[s] \in Spent'
    BY <2>4, <2>5, <2>6, <2>8 DEF RotationInv
  <2>10. \A r, s \in Tokens : origin'[r] \in Tokens /\ origin'[r] = origin'[s] => r = s
    BY <2>4, <2>5, <2>8 DEF RotationInv
  <2>11. \A q \in Procs : Burned(q)' =>
            /\ proc'[q].from \in Spent'
            /\ \A s \in Tokens : origin'[s] # proc'[q].from
    <3> SUFFICES ASSUME NEW q \in Procs, Burned(q)'
                 PROVE  /\ proc'[q].from \in Spent'
                        /\ \A s \in Tokens : origin'[s] # proc'[q].from
      OBVIOUS
    <3>1. q # p /\ Burned(q) /\ proc'[q] = proc[q] /\ proc[q].from \in Tokens
      BY <2>7 DEF Burned
    <3>2. proc[p].from # proc[q].from
      BY <2>8, <3>1 DEF RotationInv
    <3> QED BY <2>4, <2>5, <2>6, <3>1, <3>2 DEF RotationInv
  <2>12. \A q, r \in Procs : Burned(q)' /\ Burned(r)' /\ proc'[q].from = proc'[r].from => q = r
    BY <2>7 DEF RotationInv
  <2>13. \A s \in swept' : ~ Live(s)'
    BY <2>1, <2>3, <2>4 DEF RotationInv, TypeOK, Live, Issued
  <2> QED BY <2>9, <2>10, <2>11, <2>12, <2>13 DEF RotationInv
<1>3. ASSUME NEW p \in Procs, Prune(p) PROVE RotationInv'
  <2>1. \A q \in Procs : Burned(q)' => proc'[q] = proc[q]
    BY <1>3 DEF Prune, Finish, Goto, Idle, Burned, TypeOK
  <2>2. \A t \in Tokens : Live(t)' => Live(t)
    BY <1>3 DEF Prune, Live
  <2> QED BY <1>3, <2>1, <2>2, QuietStep DEF Prune
<1>4. ASSUME NEW p \in Procs, NEW t \in Tokens, Present(p, t) PROVE RotationInv'
  <2>1. \A q \in Procs : Burned(q)' => proc'[q] = proc[q]
    BY <1>4 DEF Present, Goto, Burned, TypeOK
  <2> QED BY <1>4, <2>1, QuietStep DEF Present, Live
<1>5. ASSUME NEW p \in Procs, CheckOwner(p) PROVE RotationInv'
  <2>1. \A q \in Procs : Burned(q)' => proc'[q] = proc[q]
    BY <1>5 DEF CheckOwner, Finish, Idle, Goto, Burned, TypeOK
  <2> QED BY <1>5, <2>1, QuietStep DEF CheckOwner, Live
<1>6. ASSUME NEW p \in Procs, Rotate(p) PROVE RotationInv'
  <2>1. proc[p] \in ProcStates /\ proc[p].pc = "rotate"
    BY <1>6 DEF Rotate, TypeOK
  <2>2. PICK t \in Tokens : t = proc[p].from
    BY <2>1 DEF ProcStates
  <2>3. CASE ~ Live(t)
    <3>1. \A q \in Procs : Burned(q)' => proc'[q] = proc[q]
      BY <1>6, <2>2, <2>3 DEF Rotate, RevokeIfActive, Goto, Burned, TypeOK
    <3> QED BY <1>6, <2>2, <2>3, <3>1, QuietStep DEF Rotate, RevokeIfActive, Live
  <2>4. CASE Live(t)
    <3>1. /\ ledger' = Revoked(t) /\ origin' = origin /\ swept' = swept
          /\ Goto(p, [pc |-> "issue", user |-> proc[p].user, from |-> t])
      BY <1>6, <2>2, <2>4 DEF Rotate, RevokeIfActive
    <3>2. \A s \in Tokens : s # t => ledger'[s] = ledger[s]
      BY <3>1 DEF Revoked, TypeOK
    <3>3. ledger'[t] = [user |-> ledger[t].user, revoked |-> TRUE]
      BY <2>2, <3>1 DEF Revoked, TypeOK
    <3>4. ~ Live(t)' /\ \A s \in Tokens : Live(s)' => Live(s)
      BY <3>2, <3>3 DEF Live
    <3>5. t \in Issued /\ t \notin swept /\ \A s \in Tokens : origin[s] # t
      BY <2>2, <2>4 DEF TypeOK, RotationInv, Live, Spent
    <3>6. Issued' = Issued /\ \A s \in Tokens : s \in Spent => s \in Spent'
      BY <3>1, <3>4 DEF Spent, Issued
    <3>7. t \in Spent'
      BY <3>1, <3>4, <3>5, <3>6 DEF Spent
    <3>8. \A q \in Procs \ {p} : proc'[q] = proc[q]
      BY <3>1 DEF Goto, TypeOK
    <3>9. proc'[p].from = t
      BY <3>1 DEF Goto, TypeOK
    <3>10. \A q \in Procs \ {p} : Burned(q)' => Burned(q) /\ proc[q].from # t /\ proc[q].from \in Tokens
      BY <2>4, <3>8 DEF RotationInv, Burned, Spent
    <3>11. \A q \in Procs : Burned(q)' =>
              proc'[q].from \in Spent' /\ \A s \in Tokens : origin'[s] # proc'[q].from
      BY <3>1, <3>5, <3>6, <3>7, <3>8, <3>9, <3>10 DEF RotationInv
    <3>12. \A q, r \in Procs : Burned(q)' /\ Burned(r)' /\ proc'[q].from = proc'[r].from => q = r
      BY <3>8, <3>9, <3>10 DEF RotationInv
    <3>13. \A s \in Tokens : origin'[s] \in Tokens => origin'[s] \in Spent'
      BY <3>1, <3>6 DEF RotationInv
    <3>14. \A s \in swept' : ~ Live(s)'
      BY <3>1, <3>4 DEF RotationInv, TypeOK, Issued
    <3> QED BY <3>1, <3>11, <3>12, <3>13, <3>14 DEF RotationInv
  <2> QED BY <2>3, <2>4
<1>7. ASSUME NEW p \in Procs, NEW u \in Users, Logout(p, u) PROVE RotationInv'
  <2>1. \A q \in Procs : Burned(q)' => proc'[q] = proc[q]
    BY <1>7 DEF Logout, Goto, Burned, TypeOK
  <2> QED BY <1>7, <2>1, QuietStep DEF Logout, Live
<1>8. ASSUME NEW p \in Procs, RevokeAll(p) PROVE RotationInv'
  <2>1. \A q \in Procs : Burned(q)' => proc'[q] = proc[q]
    BY <1>8 DEF RevokeAll, Finish, Idle, Goto, Burned, TypeOK
  <2>2. \A t \in Tokens :
            ledger'[t] = IF t \in LiveOf(proc[p].user)
                         THEN [user |-> proc[p].user, revoked |-> TRUE] ELSE ledger[t]
    BY <1>8 DEF RevokeAll
  <2>3. \A t \in Tokens : Live(t)' => Live(t) /\ t \notin LiveOf(proc[p].user)
    BY <2>2 DEF Live
  <2>4. swept' = swept \cup LiveOf(proc[p].user) /\ origin' = origin
    BY <1>8 DEF RevokeAll
  <2>5. \A t \in swept' \ swept : Live(t) /\ ~ Live(t)'
    BY <2>3, <2>4 DEF LiveOf
  <2> QED BY <2>1, <2>3, <2>4, <2>5, QuietStep
<1>9. ASSUME NEW p \in Procs, Abort(p) PROVE RotationInv'
  <2>1. \A q \in Procs : Burned(q)' => proc'[q] = proc[q]
    BY <1>9 DEF Abort, Finish, Idle, Goto, Burned, TypeOK
  <2> QED BY <1>9, <2>1, QuietStep DEF Abort, Live
<1>10. ASSUME NEW t \in Tokens, Expire(t) PROVE RotationInv'
  BY <1>10, QuietStep DEF Expire, Live
<1>11. ASSUME NEW u \in Users, SetActive(u) PROVE RotationInv'
  BY <1>11, QuietStep DEF SetActive, Live
<1>12. CASE UNCHANGED vars
  BY <1>12, QuietStep DEF vars, Live
<1> QED
  BY <1>1, <1>2, <1>3, <1>4, <1>5, <1>6, <1>7, <1>8, <1>9, <1>10, <1>11, <1>12 DEF Next, Handler

\* The invariant holds at the start, where no token is issued.
LEMMA RotationInit == Init => RotationInv
BY TokenConstants DEF Init, RotationInv, Burned, Idle, Spent, Live, Issued, Tokens

\* The invariant says what the two properties say.
LEMMA RotationImplies == TypeOK /\ RotationInv => SpentOnce /\ SweptYieldNothing
<1> USE TokenConstants
<1>1. ASSUME TypeOK, RotationInv PROVE SpentOnce
  BY <1>1 DEF RotationInv, SpentOnce, Spent, Issued
<1>2. ASSUME TypeOK, RotationInv PROVE SweptYieldNothing
  BY <1>2 DEF RotationInv, SweptYieldNothing, Spent, Issued, TypeOK
<1> QED BY <1>1, <1>2

\* The inductive invariant holds in every reachable state.
THEOREM RotationInvariant == Spec => [](TypeOK /\ RotationInv)
<1>1. Init => TypeOK /\ RotationInv
  BY TypeInit, RotationInit
<1>2. TypeOK /\ RotationInv /\ [Next]_vars => (TypeOK /\ RotationInv)'
  BY TypeStep, RotationStep
<1> QED BY <1>1, <1>2, PTL DEF Spec

\* One-time rotation: no interleaving of presentations, replays, logouts and
\* sweeps makes the service issue two pairs for one refresh token.
THEOREM RotationIsOneTime == Spec => []SpentOnce
BY RotationInvariant, RotationImplies, PTL

\* What a logout or a detected reuse revokes is never rotated, by whatever
\* handler had already let it through the guard.
THEOREM SweepIsFinal == Spec => []SweptYieldNothing
BY RotationInvariant, RotationImplies, PTL
-----------------------------------------------------------------------------
(***************************************************************************)
(* The handlers implement OneTimeTokens                                    *)
(***************************************************************************)
\* A handler past the guard acts for the user whose row it read, and a row
\* never changes hands.
OwnerInv ==
    \A p \in Procs : proc[p].pc \in {"owner", "rotate"} =>
        /\ proc[p].from \in Issued
        /\ ledger[proc[p].from] # None => ledger[proc[p].from].user = proc[p].user

RefinementInv == TypeOK /\ RotationInv /\ OwnerInv

\* Rows keep their owner, and no handler comes past the guard.
LEMMA SameOwner ==
    ASSUME TypeOK, OwnerInv, origin' = origin,
           \A t \in Tokens : ledger'[t] # None => ledger[t] # None /\ ledger'[t].user = ledger[t].user,
           \A p \in Procs : proc'[p].pc \in {"owner", "rotate"} =>
                /\ proc[p].pc \in {"owner", "rotate"}
                /\ proc'[p].from = proc[p].from /\ proc'[p].user = proc[p].user
    PROVE  OwnerInv'
<1> QED BY DEF OwnerInv, Issued

\* Every action keeps handlers and rows of one owner.
LEMMA OwnerStep == TypeOK /\ TypeOK' /\ OwnerInv /\ [Next]_vars => OwnerInv'
<1> SUFFICES ASSUME TypeOK, TypeOK', OwnerInv, [Next]_vars PROVE OwnerInv'
  OBVIOUS
<1> USE TokenConstants, TokenNone DEF Goto, Finish, Idle
<1>1. ASSUME NEW p \in Procs, NEW u \in Users, Login(p, u) PROVE OwnerInv'
  BY <1>1, SameOwner DEF Login, TypeOK
<1>2. ASSUME NEW p \in Procs, Issue(p) PROVE OwnerInv'
  <2>1. PICK t \in Tokens \ Issued :
            /\ ledger' = [ledger EXCEPT ![t] = [user |-> proc[p].user, revoked |-> FALSE]]
            /\ origin' = [origin EXCEPT ![t] = proc[p].from]
    BY <1>2, IssueRow
  <2>2. proc[p].from \in 0..MaxTokens
    BY <1>2, IssueRow
  <2>3. \A s \in Issued : s \in Issued' /\ ledger'[s] = ledger[s]
    BY <2>1, <2>2 DEF Issued, TypeOK
  <2>4. \A q \in Procs : proc'[q].pc \in {"owner", "rotate"} => proc'[q] = proc[q]
    BY <1>2, IssueRow
  <2> QED BY <2>3, <2>4 DEF OwnerInv
<1>3. ASSUME NEW p \in Procs, Prune(p) PROVE OwnerInv'
  BY <1>3, SameOwner DEF Prune, TypeOK
<1>4. ASSUME NEW p \in Procs, NEW t \in Tokens, Present(p, t) PROVE OwnerInv'
  BY <1>4 DEF Present, OwnerInv, TypeOK, Issued
<1>5. ASSUME NEW p \in Procs, CheckOwner(p) PROVE OwnerInv'
  BY <1>5, SameOwner DEF CheckOwner, TypeOK
<1>6. ASSUME NEW p \in Procs, Rotate(p) PROVE OwnerInv'
  <2>1. \A t \in Tokens : ledger'[t] # None => ledger[t] # None /\ ledger'[t].user = ledger[t].user
    BY <1>6 DEF Rotate, RevokeIfActive, Live, Revoked, TypeOK
  <2>2. \A q \in Procs : proc'[q].pc \in {"owner", "rotate"} => proc'[q] = proc[q]
    BY <1>6 DEF Rotate, TypeOK
  <2> QED BY <1>6, <2>1, <2>2, SameOwner DEF Rotate
<1>7. ASSUME NEW p \in Procs, NEW u \in Users, Logout(p, u) PROVE OwnerInv'
  BY <1>7, SameOwner DEF Logout, TypeOK
<1>8. ASSUME NEW p \in Procs, RevokeAll(p) PROVE OwnerInv'
  <2>1. \A t \in Tokens : ledger'[t] # None => ledger[t] # None /\ ledger'[t].user = ledger[t].user
    BY <1>8 DEF RevokeAll, LiveOf, Live
  <2> QED BY <1>8, <2>1, SameOwner DEF RevokeAll, TypeOK
<1>9. ASSUME NEW p \in Procs, Abort(p) PROVE OwnerInv'
  BY <1>9, SameOwner DEF Abort, TypeOK
<1>10. ASSUME NEW t \in Tokens, Expire(t) PROVE OwnerInv'
  BY <1>10, SameOwner DEF Expire
<1>11. ASSUME NEW u \in Users, SetActive(u) PROVE OwnerInv'
  BY <1>11, SameOwner DEF SetActive
<1>12. CASE UNCHANGED vars
  BY <1>12, SameOwner DEF vars
<1> QED
  BY <1>1, <1>2, <1>3, <1>4, <1>5, <1>6, <1>7, <1>8, <1>9, <1>10, <1>11, <1>12 DEF Next, Handler

\* No handler is past the guard at the start.
LEMMA OwnerInit == Init => OwnerInv
BY DEF Init, OwnerInv, Idle

\* What the proof of refinement rests on holds in every reachable state.
THEOREM RefinementInvariant == Spec => []RefinementInv
<1>1. Init => RefinementInv
  BY TypeInit, RotationInit, OwnerInit DEF RefinementInv
<1>2. RefinementInv /\ [Next]_vars => RefinementInv'
  BY TypeStep, RotationStep, OwnerStep DEF RefinementInv
<1> QED BY <1>1, <1>2, PTL DEF Spec
-----------------------------------------------------------------------------
\* A pair is usable as long as the row of the token is active and names the user.
LEMMA UsableRow == \A t, u : <<t, u>> \in Usable <=> t \in Tokens /\ Live(t) /\ u = ledger[t].user
BY DEF Usable

\* A pair is owed while a handler that burned the token acts for the user.
LEMMA OwedBy ==
    \A t, u : <<t, u>> \in Owed <=> \E p \in Procs : Burned(p) /\ t = proc[p].from /\ u = proc[p].user
BY DEF Owed, Burned

\* The initial states are states the promise starts in.
LEMMA PromiseInit == Init => Promise!Init
<1> SUFFICES ASSUME Init PROVE Promise!Init
  OBVIOUS
<1>1. Issued = {}
  BY DEF Init, Issued
<1>2. Usable = {}
  BY DEF Init, Usable, Live
<1>3. Owed = {}
  BY DEF Init, Owed, Idle
<1> QED BY <1>1, <1>2, <1>3 DEF Promise!Init

\* A step that issues nothing, moves no handler to or from issuing, and brings
\* no row to life only lets tokens cease to be usable.
LEMMA VoidStep ==
    ASSUME origin' = origin,
           \A t \in Tokens : Live(t)' => Live(t) /\ ledger'[t] = ledger[t],
           \A p \in Procs : Burned(p) \/ Burned(p)' => proc'[p] = proc[p]
    PROVE  Promise!Void
<1>1. Issued' = Issued
  BY DEF Issued
<1>2. Usable' \subseteq Usable
  BY DEF Usable
<1>3. \A p \in Procs : Burned(p)' <=> Burned(p)
  BY DEF Burned
<1>4. Owed' = Owed
  BY <1>3 DEF Owed, Burned
<1> QED BY <1>1, <1>2, <1>4 DEF Promise!Void

\* A handler inserts a token: the login's own, or the one that the token it
\* burned owes.
LEMMA IssueMaps ==
    ASSUME RefinementInv, NEW p \in Procs, Issue(p)
    PROVE  \E t \in Tokens, u \in Users :
               Promise!LogIn(t, u) \/ \E s \in Tokens : Promise!Renew(s, t, u)
<1> USE TokenConstants, TokenNone DEF RefinementInv
<1>1. PICK t \in Tokens \ Issued :
          /\ ledger' = [ledger EXCEPT ![t] = [user |-> proc[p].user, revoked |-> FALSE]]
          /\ origin' = [origin EXCEPT ![t] = proc[p].from]
  BY IssueRow
<1>2. PICK u \in Users : u = proc[p].user
  BY IssueRow
<1>3. proc[p].from \in 0..MaxTokens /\ proc[p].pc = "issue"
  BY IssueRow DEF Issue
<1>4. ledger \in [Tokens -> LedgerRow \cup {None}] /\ origin \in [Tokens -> 0..MaxTokens \cup {None}]
  BY DEF TypeOK
<1>5. t \notin Issued /\ Issued' = Issued \cup {t}
  BY <1>1, <1>3, <1>4 DEF Issued
<1>6. ~ Live(t) /\ ledger'[t] = [user |-> u, revoked |-> FALSE]
  BY <1>1, <1>2, <1>4 DEF TypeOK, Live
<1>7. \A s \in Tokens : s # t => ledger'[s] = ledger[s]
  BY <1>1, <1>4
<1>8. [user |-> u, revoked |-> FALSE] \in LedgerRow
  BY DEF LedgerRow
<1>9. Usable' = Usable \cup {<<t, u>>}
  <2>1. Live(t)' /\ ledger'[t].user = u
    <3>1. ledger'[t] \in LedgerRow
      BY <1>6, <1>8
    <3>2. ledger'[t].revoked = FALSE /\ ledger'[t].user = u
      BY <1>6
    <3> QED BY <3>1, <3>2 DEF Live
  <2>2. \A s \in Tokens : s # t => (Live(s)' <=> Live(s))
    BY <1>7 DEF Live
  <2> QED BY <1>6, <1>7, <2>1, <2>2 DEF Usable
<1>10. Promise!Mint(t, u)
  BY <1>5, <1>9 DEF Promise!Mint
<1>11. \A q \in Procs : q # p => proc'[q] = proc[q]
  BY IssueRow
<1>12. ~ Burned(p)'
  BY IssueRow DEF Burned
<1>13. CASE proc[p].from \notin Tokens
  <2>1. \A q \in Procs : (Burned(q)' <=> Burned(q)) /\ (Burned(q) => proc'[q] = proc[q])
    BY <1>11, <1>12, <1>13 DEF Burned
  <2>2. Owed' = Owed
    BY <2>1 DEF Owed, Burned
  <2> QED BY <1>10, <2>2 DEF Promise!LogIn
<1>14. CASE proc[p].from \in Tokens
  <2>1. PICK s \in Tokens : s = proc[p].from
    BY <1>14
  <2>2. Burned(p)
    BY <1>3, <1>14 DEF Burned
  <2>3. \A q \in Procs : q # p /\ Burned(q) => proc[q].from # s
    BY <2>1, <2>2 DEF RotationInv
  <2>4. \A q \in Procs : (Burned(q)' <=> Burned(q) /\ q # p) /\ (q # p => proc'[q] = proc[q])
    BY <1>11, <1>12 DEF Burned
  <2>5. <<s, u>> \in Owed
    BY <1>2, <2>1, <2>2 DEF Owed, Burned
  <2>6. Owed' = Owed \ {<<s, u>>}
    BY <1>2, <2>1, <2>2, <2>3, <2>4 DEF Owed, Burned
  <2> QED BY <1>10, <2>5, <2>6 DEF Promise!Renew
<1> QED BY <1>13, <1>14

\* The UPDATE of a rotation spends the token it finds active.
LEMMA RotateMaps ==
    ASSUME RefinementInv, NEW p \in Procs, Rotate(p)
    PROVE  Promise!Void \/ \E t \in Tokens, u \in Users : Promise!Spend(t, u)
<1> USE TokenConstants, TokenNone DEF RefinementInv
<1>1. proc[p] \in ProcStates /\ proc[p].pc = "rotate"
  BY DEF Rotate, TypeOK
<1>2. PICK t \in Tokens : t = proc[p].from
  BY <1>1 DEF ProcStates
<1>3. PICK u \in Users : u = proc[p].user
  BY <1>1 DEF ProcStates
<1>4. origin' = origin
  BY DEF Rotate
<1>5. CASE ~ Live(t)
  <2>1. ledger' = ledger /\ \A q \in Procs : Burned(q) \/ Burned(q)' => proc'[q] = proc[q]
    BY <1>1, <1>2, <1>5 DEF Rotate, RevokeIfActive, Goto, Burned, TypeOK
  <2> QED BY <1>4, <2>1, VoidStep DEF Live
<1>6. CASE Live(t)
  <2>1. ledger' = Revoked(t) /\ Goto(p, [pc |-> "issue", user |-> u, from |-> t])
    BY <1>2, <1>3, <1>6 DEF Rotate, RevokeIfActive
  <2>2. ledger'[t].revoked /\ \A s \in Tokens : s # t => ledger'[s] = ledger[s]
    BY <2>1 DEF Revoked, TypeOK
  <2>3. ledger[t].user = u
    BY <1>1, <1>2, <1>3, <1>6 DEF OwnerInv, Live
  <2>4. Usable' = Usable \ {<<t, u>>} /\ <<t, u>> \in Usable
    <3>1. ~ Live(t)' /\ \A s \in Tokens : s # t => (Live(s)' <=> Live(s))
      BY <2>2 DEF Live
    <3> QED BY <1>6, <2>2, <2>3, <3>1 DEF Usable
  <2>5. /\ proc'[p] = [pc |-> "issue", user |-> u, from |-> t]
        /\ \A q \in Procs : q # p => proc'[q] = proc[q]
    BY <2>1 DEF Goto, TypeOK
  <2>6. Burned(p)' /\ ~ Burned(p) /\ \A q \in Procs : q # p => (Burned(q)' <=> Burned(q))
    BY <1>1, <2>5 DEF Burned
  <2>7. Owed' = Owed \cup {<<t, u>>}
    BY <2>5, <2>6 DEF Owed, Burned
  <2>8. Issued' = Issued
    BY <1>4 DEF Issued
  <2> QED BY <2>4, <2>7, <2>8 DEF Promise!Spend
<1> QED BY <1>5, <1>6

\* A handler that fails between the two writes of a rotation forfeits the new token.
LEMMA AbortMaps ==
    ASSUME RefinementInv, NEW p \in Procs, Abort(p)
    PROVE  Promise!Void \/ \E t \in Tokens, u \in Users : Promise!Forfeit(t, u)
<1> USE TokenConstants, TokenNone DEF RefinementInv
<1>1. UNCHANGED <<ledger, origin>> /\ proc'[p] = Idle /\ \A q \in Procs : q # p => proc'[q] = proc[q]
  BY DEF Abort, Finish, Goto, TypeOK
<1>2. ~ Burned(p)' /\ \A q \in Procs : q # p => (Burned(q)' <=> Burned(q))
  BY <1>1 DEF Burned, Idle
<1>3. CASE ~ Burned(p)
  BY <1>1, <1>2, <1>3, VoidStep DEF Live
<1>4. CASE Burned(p)
  <2>1. PICK t \in Tokens, u \in Users : t = proc[p].from /\ u = proc[p].user
    BY <1>4 DEF Burned, TypeOK, ProcStates
  <2>2. <<t, u>> \in Owed
    BY <1>4, <2>1 DEF Owed, Burned
  <2>3. \A q \in Procs : q # p /\ Burned(q) => proc[q].from # t
    BY <1>4, <2>1 DEF RotationInv
  <2>4. Owed' = Owed \ {<<t, u>>}
    BY <1>1, <1>2, <1>4, <2>1, <2>3 DEF Owed, Burned
  <2>5. Issued' = Issued /\ Usable' = Usable
    BY <1>1 DEF Issued, Usable, Live
  <2> QED BY <2>2, <2>4, <2>5 DEF Promise!Forfeit
<1> QED BY <1>3, <1>4

\* Every step of the handlers is a step of the promise.
LEMMA PromiseStep == RefinementInv /\ RefinementInv' /\ [Next]_vars => [Promise!Next]_Promise!tokens
<1> SUFFICES ASSUME RefinementInv, RefinementInv', [Next]_vars
             PROVE  Promise!Next \/ UNCHANGED Promise!tokens
  OBVIOUS
<1> USE TokenConstants, TokenNone DEF RefinementInv, TypeOK, Goto, Finish, Idle, Burned, Live, Promise!Next
<1>1. ASSUME NEW p \in Procs, NEW u \in Users, Login(p, u) PROVE Promise!Next
  BY <1>1, VoidStep DEF Login, ByLogin, Tokens
<1>2. ASSUME NEW p \in Procs, Issue(p) PROVE Promise!Next
  BY <1>2, IssueMaps
<1>3. ASSUME NEW p \in Procs, Prune(p) PROVE Promise!Next
  BY <1>3, VoidStep DEF Prune, Live
<1>4. ASSUME NEW p \in Procs, NEW t \in Tokens, Present(p, t) PROVE Promise!Next
  BY <1>4, VoidStep DEF Present
<1>5. ASSUME NEW p \in Procs, CheckOwner(p) PROVE Promise!Next
  BY <1>5, VoidStep DEF CheckOwner
<1>6. ASSUME NEW p \in Procs, Rotate(p) PROVE Promise!Next
  BY <1>6, RotateMaps
<1>7. ASSUME NEW p \in Procs, NEW u \in Users, Logout(p, u) PROVE Promise!Next
  BY <1>7, VoidStep DEF Logout
<1>8. ASSUME NEW p \in Procs, RevokeAll(p) PROVE Promise!Next
  <2>1. \A t \in Tokens : Live(t)' => Live(t) /\ ledger'[t] = ledger[t]
    BY <1>8 DEF RevokeAll, LiveOf, Live
  <2> QED BY <1>8, <2>1, VoidStep DEF RevokeAll
<1>9. ASSUME NEW p \in Procs, Abort(p) PROVE Promise!Next
  BY <1>9, AbortMaps
<1>10. ASSUME NEW t \in Tokens, Expire(t) PROVE Promise!Next
  BY <1>10, VoidStep DEF Expire
<1>11. ASSUME NEW u \in Users, SetActive(u) PROVE Promise!Next
  BY <1>11, VoidStep DEF SetActive
<1>12. CASE UNCHANGED vars
  BY <1>12, VoidStep DEF vars
<1> QED
  BY <1>1, <1>2, <1>3, <1>4, <1>5, <1>6, <1>7, <1>8, <1>9, <1>10, <1>11, <1>12 DEF Next, Handler

\* The handlers implement the promise: however they interleave and wherever
\* they fail, a token is renewed once, into one new token of the same user.
THEOREM HandlersImplementPromise == Spec => KeepsPromise
<1>1. Init => Promise!Init
  BY PromiseInit
<1>2. RefinementInv /\ RefinementInv' /\ [Next]_vars => [Promise!Next]_Promise!tokens
  BY PromiseStep
<1> QED BY <1>1, <1>2, RefinementInvariant, PTL DEF Spec, KeepsPromise, Promise!Spec
=============================================================================
