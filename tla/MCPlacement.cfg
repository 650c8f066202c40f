CONSTANTS
    MaxInt = 2
    Scale = 1
    a = a
    b = b
    n1 = n1
    n2 = n2
    Node = {n1}
    Tenant = {a, b}
    Partition = {p1}
    Home <- MCOneHome
    Cost = {1}
    Weight = {1}
    JobId = {1, 2}
    ClaimId = {c1}
    Resolution = {canceled}
    Duration = {1}
    NsPerMs = 1
    MaxAttempts = 0
    Absent = Absent
    NoClaim = NoClaim
    NoResolution = NoResolution
    Canceled = canceled
    NoClock = NoClock
    NoLWM = NoLWM
SPECIFICATION PlacementSpec
SYMMETRY TenantSymmetry
INVARIANT DispatchTypeOK
PROPERTY JoinsAtService
