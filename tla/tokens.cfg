\* Two users, two handlers and three tokens: logins, rotations and replays of
\* the same token, logouts, expiry, sweeps and deactivations, in every order.
SPECIFICATION Spec
CONSTANTS
    None = None
    Procs = {p1, p2}
    Users = {u1, u2}
    MaxTokens = 3
SYMMETRY Symmetry
INVARIANTS TypeOK SpentOnce SweptYieldNothing
PROPERTY KeepsPromise
