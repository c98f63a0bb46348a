\* One user, two handlers: may a refresh token be live after a logout that no
\* login followed?
SPECIFICATION Spec
CONSTANTS
    None = None
    Procs = {p1, p2}
    Users = {u1}
    MaxTokens = 2
INVARIANT LogoutIsFinal
