\* Two handlers: may an employee be left with an L2 approver and no L1?
SPECIFICATION Spec
CONSTANTS
    e1 = e1 m1 = m1 m2 = m2
    None = None
    Keep = Keep
    Procs = {p1, p2}
    Users = {e1, m1, m2}
    Employees = {e1}
    Candidates = {m1, m2}
    Deactivable = {}
    MaxRows <- EachOnce
INVARIANT NoSecondStepAlone
\* The server may stop: every step within the bounds has its last row.
CHECK_DEADLOCK FALSE
