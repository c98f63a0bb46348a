SPECIFICATION Spec
\* Bounds: a two-day week over three days, so that a weekday comes twice; two requests
\* and two handlers at once, three in all.
CONSTANTS
    None = None
    WeekDays = 2
    Procs = {p1, p2}
    Employees = {e1}
    Remover = {TRUE, FALSE}
    HoursSet <- Shifts
    SeedHours <- Day
    NewRows <- Created
    Patches <- Edits
    Changes <- ChangesAsked
    Spans <- Asked
    FirstDay = 1
    MaxDay = 3
    MaxRows = 4
    MaxReqs = 2
    MaxCalls = 3
SYMMETRY Symmetry
INVARIANTS TypeOK OneActivePerDay 
PROPERTIES CancelsOnlyPreviewed ApprovedUnderwayKept
\* The server may stop: no call left within the bounds.
CHECK_DEADLOCK FALSE
