\* Two users who may approve each other and a third who only approves: every
\* pair of racing requests on their steps, up to two rows a step.
SPECIFICATION Spec
CONSTANTS
    e1 = e1 m1 = m1 m2 = m2
    None = None
    Keep = Keep
    Procs = {p1, p2}
    Users = {e1, m1, m2}
    Employees = {e1, m2}
    Candidates = {m1, m2}
    Deactivable = {m2}
    MaxRows <- OneReassigned
SYMMETRY Symmetry
INVARIANTS TypeOK OneApproverPerStep
PROPERTIES VacatedOnRequestOnly NoUnseenOverwrite
\* The server may stop: every step within the bounds has its last row.
CHECK_DEADLOCK FALSE
