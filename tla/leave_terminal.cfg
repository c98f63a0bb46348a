\* One request, two handlers: does a decided request stay decided when another
\* handler saves the row it had read before?
SPECIFICATION Spec
CONSTANTS
    e1 = e1 m1 = m1 m2 = m2 hr = hr vac = vac
    None = None
    Procs = {p1, p2}
    Employees = {e1}
    Users = {e1, m1, m2, hr}
    Types = {vac}
    HalfDayTypes = {}
    WorkDays = {1}
    SysAdmins = {hr}
    ApproveAny = {}
    Approvers = {m1, m2}
    Deleters = {}
    Editors = {hr}
    Chains <- AllChains
    InitAllowance <- Allotted
    GrantAmounts = {}
    Deactivable = {m2}
    MaxReq = 1
    MaxDay = 2
    LastToday = 2
    MaxAllowance = 2
PROPERTY TerminalIsFinal
