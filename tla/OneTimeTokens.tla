---------------------------- MODULE OneTimeTokens ----------------------------
(***************************************************************************)
(* What the sessions of a service promise, whatever handlers and queries   *)
(* it is made of: a token is minted once, is good for one renewal, and     *)
(* the one that renews it gets one new token of the same user.             *)
(***************************************************************************)
CONSTANTS Token, User

VARIABLES
    minted,     \* tokens that exist or existed
    usable,     \* pairs of a token and the user it is good for
    owed        \* pairs of a spent token and the user it owes a new one

tokens == <<minted, usable, owed>>

Mint(t, u) ==
    /\ t \notin minted
    /\ minted' = minted \cup {t}
    /\ usable' = usable \cup {<<t, u>>}

LogIn(t, u) == Mint(t, u) /\ UNCHANGED owed

Spend(t, u) ==
    /\ <<t, u>> \in usable
    /\ usable' = usable \ {<<t, u>>}
    /\ owed' = owed \cup {<<t, u>>}
    /\ UNCHANGED minted

Renew(s, t, u) ==
    /\ <<s, u>> \in owed
    /\ Mint(t, u)
    /\ owed' = owed \ {<<s, u>>}

\* The new token of s is never issued, and s stays spent.
Forfeit(s, u) ==
    /\ <<s, u>> \in owed
    /\ owed' = owed \ {<<s, u>>}
    /\ UNCHANGED <<minted, usable>>

\* Tokens stop being usable: a logout, detected reuse, or their end of life.
Void ==
    /\ usable' \subseteq usable
    /\ UNCHANGED <<minted, owed>>

Init == minted = {} /\ usable = {} /\ owed = {}

Next ==
    \/ Void
    \/ \E t \in Token, u \in User : LogIn(t, u) \/ Spend(t, u) \/ Forfeit(t, u)
    \/ \E s, t \in Token, u \in User : Renew(s, t, u)

Spec == Init /\ [][Next]_tokens
=============================================================================
