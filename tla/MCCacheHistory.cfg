CONSTANTS
    MaxInt = 1
    Scale = 1
    Tenant = {t1}
    Partition = {p1}
    Ref = {1, 2, 3}
    Enqueuer = {e1, e2, e3}
    Reconciler = {r1, r2}
    Cost = {1}
    Weight = {1}
    HookStamp = {0}
    NoRef = NoRef
    NoLWM = NoLWM
    Free = Free
SPECIFICATION WatchedSpec
SYMMETRY GoroutineSymmetry
INVARIANT ReseedAfterWalk
INVARIANT CacheTypeOK
INVARIANT OneWriter
PROPERTY PruneSparesReserves
