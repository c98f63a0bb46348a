\* One employee's overlapping submits of whole and half days over two days, with
\* cancellations, HR decisions and a grant, under fairness: bookings fit, only
\* racing submits overlap, and every handler answers.  No allocation row exists
\* at first, so the first submits have nothing to lock.
\* MaxReq = 2, MaxDay = 2 and MaxAllowance = 2 bound rows, calendar and grants.
SPECIFICATION FairSpec
CONSTANTS
    e1 = e1 m1 = m1 m2 = m2 hr = hr vac = vac
    None = None
    Procs = {p1, p2}
    Employees = {e1}
    Users = {e1, m1, hr}
    Types = {vac}
    HalfDayTypes = {vac}
    WorkDays = {1, 2}
    SysAdmins = {hr}
    ApproveAny = {}
    Approvers = {}
    Deleters = {}
    Editors = {}
    Chains <- SingleChain
    InitAllowance <- Unallotted
    GrantAmounts = {2}
    Deactivable = {}
    MaxReq = 2
    MaxDay = 2
    LastToday = 1
    MaxAllowance = 2
INVARIANTS ReservationsFitAllowance OverlapsOnlyUnseen
PROPERTIES HandlersFinish
\* The server may stop: no request in flight and no row left within the bounds.
CHECK_DEADLOCK FALSE
