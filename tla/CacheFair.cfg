CONSTANTS
    MaxInt = 1
    Scale = 1
    Tenant = {t1}
    Partition = {p1}
    Ref = {1, 2}
    Enqueuer = {e1, e2}
    Reconciler = {r1}
    Cost = {1}
    Weight = {1}
    HookStamp = {0, 1}
    NoRef = NoRef
    NoLWM = NoLWM
    Free = Free
SPECIFICATION CacheFairSpec
PROPERTY IdleIsEvicted
PROPERTY WalkNeverBlocks
PROPERTY EnqueuesReturn
