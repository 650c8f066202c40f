CONSTANTS
    JobId = {1, 2}
    Tenant = {t1}
    Partition = {p1}
    VStamp = {1, 2}
    ClaimId = {c1, c2}
    Resolution = {completed, canceled}
    Duration = {0, 1, 3}
    NsPerMs = 2
    MaxAttempts = 1
    Absent = Absent
    NoClaim = NoClaim
    NoResolution = NoResolution
    Canceled = canceled
    Canceler = {k1}
    Idle = Idle
SPECIFICATION FairSpec
INVARIANT TypeOK
INVARIANT LeaseHonoured
INVARIANT EndedForGood
INVARIANT PendingMissIsReuse
PROPERTY ResolvedIsFinal
PROPERTY OnlyHolderOrCancelResolves
PROPERTY OrphansReturn
PROPERTY ImplementsLifecycle
