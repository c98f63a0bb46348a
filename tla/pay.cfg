\* Two handlers set, correct and delete the pay of two employees, singly and in
\* bulk, over three days, the last of which is in the future at first.
\* MaxRows = 3 bounds the rows, MaxCalls = 3 the calls.
SPECIFICATION Spec
CONSTANTS
    e1 = e1 e2 = e2
    None = None
    Procs = {p1, p2}
    Employees = {e1, e2}
    Salaries = {1, 2}
    Rates = {7}
    BulkSets <- OneOrBoth
    MaxDay = 3
    FirstToday = 2
    MaxRows = 3
    MaxCalls = 3
SYMMETRY Symmetry
INVARIANTS TypeOK OneRateOnDate OneActiveRate RateFollowsSalary TrailMatchesRow
\* The server may stop: no call left within the bounds.
CHECK_DEADLOCK FALSE
