CONSTANTS
    MaxInt = 2
    Scale = 1
    Tenant = {t1}
    Partition = {p1}
    Ref = {1, 2}
    Enqueuer = {e1}
    Reconciler = {r1}
    Cost = {1, 2}
    Weight = {1}
    HookStamp = {}
    NoRef = NoRef
    NoLWM = NoLWM
    Free = Free
    JobId = {1, 2}
    ClaimId = {c1}
    Resolution = {completed, canceled}
    Duration = {0, 1}
    NsPerMs = 1
    MaxAttempts = 0
    Absent = Absent
    NoClaim = NoClaim
    NoResolution = NoResolution
    Canceled = canceled
SPECIFICATION UnknownSpec
PROPERTY TimelineOrder
