CONSTANTS
    u1 = u1
    MaxCalls = 2
    Users = {u1}
    UserOf <- Callers
    Years = {1, 2}
    YearOf <- Dates
    Succeeds = {1}
    Logs = {1, 2}
    BatchSize = 2
    MaxCuts = 1
    Job = Job
    Loop = Loop
    None = None
SPECIFICATION LogsSpec
INVARIANT LogsTypeOK
INVARIANT ArchivedOnce
PROPERTY CountedOnce
INVARIANT ErasedStaysErased
PROPERTY NoLogLost
PROPERTY DueRowsLeave
CHECK_DEADLOCK FALSE
