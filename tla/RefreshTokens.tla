---------------------------- MODULE RefreshTokens ----------------------------
(***************************************************************************)
(* Sessions: login, one-time rotation of refresh tokens against the        *)
(* revocation ledger, logout, and the answer to reuse.                     *)
(*                                                                         *)
(* A handler runs between its awaits of a query without interruption; a    *)
(* handler in flight is a process p and proc[p] is what it knows.  No step *)
(* of it runs in a transaction.  A token is its jti.  Tokens are numbered  *)
(* in the order they enter the ledger.                                     *)
(*                                                                         *)
(* Left out: signatures and secrets, passwords, access tokens (stateless), *)
(* last_login.  Time only matters as the set of tokens that have expired:  *)
(* the exp of a JWT is never later than expires_at of its row.             *)
(***************************************************************************)
EXTENDS Integers

CONSTANTS
    Procs,      \* handlers that may be in flight at once
    Users,
    MaxTokens,  \* bound on the number of tokens
    None        \* no row, not issued

Tokens == 1..MaxTokens
ByLogin == 0    \* the origin of a token that no other was rotated into

ASSUME TokenConstants == MaxTokens \in Nat /\ None \notin Int

VARIABLES
    ledger,     \* refresh_tokens: the row of each token, or None
    expired,    \* tokens past their exp
    active,     \* users with is_active
    proc,       \* handlers in flight
    origin,     \* history: the token each one was rotated from
    swept,      \* history: tokens that a revoke-all found active
    loggedOut   \* history: users who logged out and have not logged in since

vars == <<ledger, expired, active, proc, origin, swept, loggedOut>>
-----------------------------------------------------------------------------
LedgerRow == [user : Users, revoked : BOOLEAN]
ASSUME TokenNone == None \notin LedgerRow

Issued  == {t \in Tokens : origin[t] # None}
Live(t) == ledger[t] # None /\ ~ ledger[t].revoked
LiveOf(u) == {t \in Tokens : Live(t) /\ ledger[t].user = u}

Idle == [pc |-> "idle"]
Goto(p, r) == proc' = [proc EXCEPT ![p] = r]
Finish(p)  == Goto(p, Idle)
-----------------------------------------------------------------------------
\* login, up to signTokens: credentials hold and the account is active.
Login(p, u) ==
    /\ proc[p] = Idle /\ u \in active
    /\ Goto(p, [pc |-> "issue", user |-> u, from |-> ByLogin])
    /\ UNCHANGED <<ledger, expired, active, origin, swept, loggedOut>>

\* issue, the last await of signTokens.  A login goes on to sweep expired rows.
Issue(p) ==
    /\ proc[p].pc = "issue"
    /\ \E t \in Tokens \ Issued :
        /\ \A s \in 1..(t - 1) : s \in Issued
        /\ ledger' = [ledger EXCEPT ![t] = [user |-> proc[p].user, revoked |-> FALSE]]
        /\ origin' = [origin EXCEPT ![t] = proc[p].from]
    /\ IF proc[p].from = ByLogin
       THEN Goto(p, [pc |-> "prune"]) /\ loggedOut' = loggedOut \ {proc[p].user}
       ELSE Finish(p) /\ UNCHANGED loggedOut
    /\ UNCHANGED <<expired, active, swept>>

\* deleteExpired; nothing waits for it.
Prune(p) ==
    /\ proc[p].pc = "prune"
    /\ ledger' = [t \in Tokens |-> IF t \in expired THEN None ELSE ledger[t]]
    /\ Finish(p)
    /\ UNCHANGED <<expired, active, origin, swept, loggedOut>>

\* JwtRefreshStrategy.validate, findByJti: a client presents a token it was
\* given, any number of times.  A revoked row means reuse.
Present(p, t) ==
    /\ proc[p] = Idle
    /\ t \in Issued \ expired
    /\ ledger[t] # None
    /\ Goto(p, IF ledger[t].revoked
               THEN [pc |-> "revoke_all", user |-> ledger[t].user, by |-> "reuse"]
               ELSE [pc |-> "owner", user |-> ledger[t].user, from |-> t])
    /\ UNCHANGED <<ledger, expired, active, origin, swept, loggedOut>>

\* validate, findById: the owner is still active.
CheckOwner(p) ==
    /\ proc[p].pc = "owner"
    /\ IF proc[p].user \in active
       THEN Goto(p, [pc |-> "rotate", user |-> proc[p].user, from |-> proc[p].from])
       ELSE Finish(p)
    /\ UNCHANGED <<ledger, expired, active, origin, swept, loggedOut>>

\* revokeIfActive finds a row that is still active: this UPDATE burns it.
RevokeIfActive_AnyRow(t) == ledger[t] # None                              \* mutant
RevokeIfActive(t) == Live(t)
Revoked_NotWritten(t) == ledger                                           \* mutant
Revoked_LosesOwner(t) == [ledger EXCEPT ![t] = [revoked |-> TRUE]]        \* mutant
Revoked(t) == [ledger EXCEPT ![t] = [user |-> ledger[t].user, revoked |-> TRUE]]

\* refresh: whoever loses the race for the row answers it as reuse.
Rotate(p) ==
    /\ proc[p].pc = "rotate"
    /\ LET t == proc[p].from IN
        IF RevokeIfActive(t)
        THEN /\ ledger' = Revoked(t)
             /\ Goto(p, [pc |-> "issue", user |-> proc[p].user, from |-> t])
        ELSE /\ Goto(p, [pc |-> "revoke_all", user |-> proc[p].user, by |-> "reuse"])
             /\ UNCHANGED ledger
    /\ UNCHANGED <<expired, active, origin, swept, loggedOut>>

\* logout, up to the UPDATE: JwtAuthGuard has found the caller active.  The
\* access token may stem from a login of before the first state.
Logout(p, u) ==
    /\ proc[p] = Idle /\ u \in active
    /\ Goto(p, [pc |-> "revoke_all", user |-> u, by |-> "logout"])
    /\ UNCHANGED <<ledger, expired, active, origin, swept, loggedOut>>

\* revokeAllForUser, of a logout or as the answer to reuse.
RevokeAll(p) ==
    /\ proc[p].pc = "revoke_all"
    /\ LET u == proc[p].user IN
        /\ ledger' = [t \in Tokens |->
                        IF t \in LiveOf(u) THEN [user |-> u, revoked |-> TRUE] ELSE ledger[t]]
        /\ swept' = swept \cup LiveOf(u)
        /\ loggedOut' = IF proc[p].by = "logout" THEN loggedOut \cup {u} ELSE loggedOut
    /\ Finish(p)
    /\ UNCHANGED <<expired, active, origin>>

\* A query fails or the server stops; nothing is retried.
Abort(p) ==
    /\ proc[p] # Idle
    /\ Finish(p)
    /\ UNCHANGED <<ledger, expired, active, origin, swept, loggedOut>>

Expire(t) ==
    /\ t \in Issued \ expired
    /\ expired' = expired \cup {t}
    /\ UNCHANGED <<ledger, active, proc, origin, swept, loggedOut>>

SetActive(u) ==
    /\ active' = IF u \in active THEN active \ {u} ELSE active \cup {u}
    /\ UNCHANGED <<ledger, expired, proc, origin, swept, loggedOut>>
-----------------------------------------------------------------------------
Init ==
    /\ ledger = [t \in Tokens |-> None]
    /\ expired = {}
    /\ active = Users
    /\ proc = [p \in Procs |-> Idle]
    /\ origin = [t \in Tokens |-> None]
    /\ swept = {}
    /\ loggedOut = {}

Handler(p) ==
    \/ Issue(p) \/ Prune(p) \/ CheckOwner(p) \/ Rotate(p) \/ RevokeAll(p) \/ Abort(p)
    \/ \E u \in Users : Login(p, u) \/ Logout(p, u)
    \/ \E t \in Tokens : Present(p, t)

Next ==
    \/ \E p \in Procs : Handler(p)
    \/ \E t \in Tokens : Expire(t)
    \/ \E u \in Users : SetActive(u)

Spec == Init /\ [][Next]_vars
-----------------------------------------------------------------------------
ProcStates ==
    [pc : {"idle", "prune"}]
      \cup [pc : {"issue"}, user : Users, from : Tokens \cup {ByLogin}]
      \cup [pc : {"owner", "rotate"}, user : Users, from : Tokens]
      \cup [pc : {"revoke_all"}, user : Users, by : {"reuse", "logout"}]

\* Every variable has its type, and rows exist for issued tokens only.
TypeOK ==
    /\ ledger \in [Tokens -> LedgerRow \cup {None}]
    /\ origin \in [Tokens -> 0..MaxTokens \cup {None}]
    /\ \A t \in Tokens : ledger[t] # None => t \in Issued
    /\ expired \subseteq Issued /\ swept \subseteq Issued
    /\ active \subseteq Users /\ loggedOut \subseteq Users
    /\ proc \in [Procs -> ProcStates]

\* One-time rotation: however many times and however concurrently a token is
\* presented, one pair at most is issued for it, and the token is spent by then.
SpentOnce ==
    \A t \in Issued : origin[t] \in Tokens =>
        /\ ~ Live(origin[t])
        /\ \A s \in Issued : origin[s] = origin[t] => s = t

\* A token that a logout or a detected reuse found active never yields another,
\* even if its presentation had passed every check of the guard by then.
SweptYieldNothing == \A t \in Issued : origin[t] \notin swept

\* What POST /auth/logout promises: no device can rotate afterward.
LogoutIsFinal == \A u \in loggedOut : LiveOf(u) = {}

(***************************************************************************)
(* The handlers implement OneTimeTokens: a token is usable while its row   *)
(* is active, and owes a new one while a handler is between the two writes *)
(* of a rotation.                                                          *)
(***************************************************************************)
Usable == {<<t, ledger[t].user>> : t \in {s \in Tokens : Live(s)}}
Owed ==
    {<<proc[p].from, proc[p].user>> :
        p \in {q \in Procs : proc[q].pc = "issue" /\ proc[q].from \in Tokens}}

Promise == INSTANCE OneTimeTokens WITH
    Token <- Tokens, User <- Users, minted <- Issued, usable <- Usable, owed <- Owed

\* Every step of every handler is one the promise allows, or none of its steps:
\* no renewal without a spent token, two for one, or for another user.
KeepsPromise == Promise!Spec
=============================================================================
