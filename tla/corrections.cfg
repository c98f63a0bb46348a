\* Two handlers over one employee's timesheet and requests: punches, HR entries and
\* edits, both kinds of correction, both steps of approval, chain changes.
\* LastNow = 2 bounds the clock, MaxEntries and MaxReq = 2 the rows, MaxCalls = 4
\* the calls.
SPECIFICATION Spec
CONSTANTS
    e1 = e1 m1 = m1 m2 = m2 hr = hr
    None = None
    Procs = {p1, p2}
    Employees = {e1}
    Users = {e1, m1, m2, hr}
    Can <- CanByRole
    SysAdmins = {hr}
    Cooldown = 1
    TicksPerDay = 3
    LastNow = 2
    HRWindows <- OneWindow
    HREdits <- OutEdits
    OldEntries <- OpenEntry
    Proposals <- OneWindow
    Edits <- Reopen
    Chains <- TwoChains
    Deactivable = {m2}
    MaxEntries = 2
    MaxReq = 2
    MaxCalls = 4
SYMMETRY Symmetry
INVARIANTS TypeOK  OneOpenEntry ApprovedIsApplied AppliedIsSigned DuplicatesOnlyUnseen
\* The server may stop: no call left within the bounds.
CHECK_DEADLOCK FALSE
