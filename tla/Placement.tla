----------------------------- MODULE Placement -----------------------------
(***************************************************************************)
(* Dispatch with a history of the frontier: for each node and partition,   *)
(* the lowest it has been since the node last read it at a reconcile (or   *)
(* could leave that to a later cold seed) or since the node started.       *)
(***************************************************************************)
EXTENDS Dispatch

VARIABLE low

FrontierOrZero(p) == IF Db!Frontier(p) = {} THEN 0 ELSE Max(Db!Frontier(p))

Lower(x, y) == IF x <= y THEN x ELSE y

(* n's interval in p begins: its caches of p are re-read or were empty.    *)
Watch(n, P) ==
    low' = [m \in Node |-> [p \in Partition |->
        IF m = n /\ p \in P THEN FrontierOrZero(p)
        ELSE Lower(low[m][p], FrontierOrZero(p)')]]

PlacementInit == Init /\ low = [n \in Node |-> [p \in Partition |-> 0]]

PlacementNext ==
    \/ \E n \in Node :
        \/ \E failed \in SUBSET Partition : Reconcile(n, failed) /\ Watch(n, Partition \ failed)
        \/ Restart(n) /\ Watch(n, Partition)
    \/ /\ \/ \E t \in Timeline :
                \/ \E j \in JobId, cost \in Cost, weight \in Weight, d \in Duration :
                        Enqueue(j, t, cost, weight, d)
                \/ EnqueueFails(t)
                \/ SeedFails(t)
          \/ StoreStep
       /\ \E n \in Node : Watch(n, {})

PlacementSpec == PlacementInit /\ [][PlacementNext]_<< vars, low >>

(* A job is stamped beyond the lowest frontier its partition has had since *)
(* its node last re-read it: a tenant that returns, joins or re-seeds joins*)
(* at the point of service and cannot claim credit for its idle time, not  *)
(* even from a clock the walk marks stale (vtimecache.go:60-64,            *)
(* queue.go:348-371).                                                      *)
JoinsAtService ==
    [][\A j \in JobId : jobs[j] = Absent /\ jobs'[j] # Absent =>
        jobs'[j].vstamp > low[Home[jobs'[j].tenant]][jobs'[j].partition]]_vars
=============================================================================
