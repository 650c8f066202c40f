CONSTANTS
    MaxInt = 2
    Scale = 1
    Tenant = {t1}
    Partition = {p1}
    Ref = {1}
    Enqueuer = {e1}
    Reconciler = {r1}
    Cost = {1}
    Weight = {1}
    HookStamp = {}
    NoRef = NoRef
    NoLWM = NoLWM
    Free = Free
    JobId = {1, 2}
    ClaimId = {c1}
    Resolution = {canceled}
    Duration = {1}
    NsPerMs = 1
    MaxAttempts = 0
    Absent = Absent
    NoClaim = NoClaim
    NoResolution = NoResolution
    Canceled = canceled
SPECIFICATION ReconcileFairSpec
PROPERTY TimelineOrder
PROPERTY StoredFrontierConverges
