\* Two runs of the seed program, one after the other, beside two API handlers and
\* the purge job.  The API
\* may create pete's account before or while the seed does.
\* MaxCalls = 2 bounds the calls (a call on roles counts once, any other twice),
\* MaxRuns, MaxUploads, MaxAccounts and MaxRoles the rest.
SPECIFICATION Spec
CONSTANTS
    None = None
    NoFile = NoFile
    Nobody = None
    pete = pete hal = hal root = root
    Procs = {p1, p2}
    Runner = seed
    Uploaders = {p1, p2, seed}
    Emails = {pete, hal, root}
    NewEmails = {pete}
    RoleNames <- Names
    Protected <- BuiltIn
    Codes <- TwoCodes
    Passwords = {pw}
    DefaultPassword = pw
    DefaultTypes <- Types2
    MaxAccounts = 4
    MaxRoles = 3
    Files <- Sent
    MaxFileMb = 5
    MaxUploads = 2
    PermissionData <- Permissions
    RoleData <- RoleFile
    UserData <- UserFile
    WorkDates <- Dates
    WorkDays <- Weekdays
    PayData <- PayFile
    Placeholder <- Scan
    AccountPatches <- Edits
    NewRoleNames <- NewNames
    PermissionSets <- NoPerms
    MaxRuns = 2
    MaxCalls = 2
SYMMETRY Symmetry
INVARIANTS TypeOK OneAccountPerEmail DefaultsOnce BackfillHeals  NobodyApprovesOwn SeededLeavesSound BuiltInRolesStand RowsHaveObjects NoStrayObjects
\* The programs may stop: no run or call left within the bounds.
CHECK_DEADLOCK FALSE
