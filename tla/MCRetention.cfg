CONSTANTS
    JobId = {1, 2}
    Tenant = {t1}
    Partition = {p1}
    VStamp = {1}
    ClaimId = {c1}
    Resolution = {canceled}
    Duration = {1}
    NsPerMs = 1
    MaxAttempts = 0
    Absent = Absent
    NoClaim = NoClaim
    NoResolution = NoResolution
    Canceled = canceled
    Asked <- MCAsked
    NsPerSecond = 2
    MaxInt32 = 2
    MaxAge = 5
    NoIndex = NoIndex
SPECIFICATION RetentionSpec
PROPERTY KeptAsAsked
