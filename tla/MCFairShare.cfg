CONSTANTS
    MaxInt = 4
    Scale = 2
    a = a
    b = b
    n1 = n1
    n2 = n2
    Node = {n1, n2}
    Tenant = {a, b}
    Partition = {p1}
    Home <- MCTwoHomes
    Cost = {1, 2}
    Weight = {1, 2}
    JobId = {1, 2, 3, 4}
    ClaimId = {c1}
    Resolution = {canceled}
    Duration = {1}
    NsPerMs = 1
    MaxAttempts = 0
    Absent = Absent
    NoClaim = NoClaim
    NoResolution = NoResolution
    Canceled = canceled
    NoClock = NoClock
    NoLWM = NoLWM
SPECIFICATION ShareSpec
SYMMETRY HomeSymmetry
PROPERTY FairShares
