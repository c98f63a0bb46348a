\* One request and three handlers racing on it: approvals of both steps, an HR
\* override, rejections, cancellations, edits, the clock, chain changes and the
\* deactivation of the second approver.
SPECIFICATION Spec
CONSTANTS
    e1 = e1 m1 = m1 m2 = m2 hr = hr vac = vac
    None = None
    Procs = {p1, p2, p3}
    Employees = {e1}
    Users = {e1, m1, m2, hr}
    Types = {vac}
    HalfDayTypes = {}
    WorkDays = {1}
    SysAdmins = {hr}
    ApproveAny = {}
    Approvers = {m1, m2}
    Deleters = {}
    Editors = {hr}
    Chains <- AllChains
    InitAllowance <- Allotted
    GrantAmounts = {}
    Deactivable = {m2}
    MaxReq = 1
    MaxDay = 2
    LastToday = 2
    MaxAllowance = 2
SYMMETRY Symmetry
INVARIANTS TypeOK ApprovedIsSigned NoStepWithoutApprover
