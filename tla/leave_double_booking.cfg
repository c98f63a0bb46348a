\* Two submits of one employee: does the overlap check of submit keep two active
\* requests from sharing a day?
SPECIFICATION Spec
CONSTANTS
    e1 = e1 m1 = m1 m2 = m2 hr = hr vac = vac
    None = None
    Procs = {p1, p2}
    Employees = {e1}
    Users = {e1, m1, hr}
    Types = {vac}
    HalfDayTypes = {}
    WorkDays = {1, 2}
    SysAdmins = {hr}
    ApproveAny = {}
    Approvers = {}
    Deleters = {}
    Editors = {}
    Chains <- SingleChain
    InitAllowance <- Allotted
    GrantAmounts = {2}
    Deactivable = {}
    MaxReq = 2
    MaxDay = 2
    LastToday = 1
    MaxAllowance = 4
\* The server may stop: no request in flight and no row left within the bounds.
CHECK_DEADLOCK FALSE
INVARIANT NoDoubleBooking
