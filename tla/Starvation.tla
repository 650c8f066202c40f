----------------------------- MODULE Starvation -----------------------------
(***************************************************************************)
(* Dispatch as an application that follows the documentation runs it: a    *)
(* worker always comes back to the partition, Reconcile runs on a ticker   *)
(* and does not fail for ever, and the retention is longer than the time   *)
(* between claims, so the job that holds the service clock is not the one  *)
(* collected.  No job is released and no lease lapses: an application that *)
(* retries a job without a bound starves the others by itself (doc.go:67). *)
(* Enqueues do not fail here; Placement has those that do.                 *)
(***************************************************************************)
EXTENDS MCDispatch

(* The retention allows it: another claimed job holds the service clock.   *)
Outlived(j) ==
    \E i \in Db!Fenced(jobs[j].partition) \ {j} : jobs[i].vstamp >= jobs[j].vstamp

WorkerClaims(p) ==
    /\ \E j \in JobId, c \in ClaimId, d \in Duration : Db!Claim(j, p, c, d)
    /\ UNCHANGED << clocks, lwm >>

LowestUnused == {j \in JobId : jobs[j] = Absent}

ServiceNext ==
    \/ \E t \in Timeline, cost \in Cost, weight \in Weight :
        LowestUnused # {} /\ Enqueue(Min(LowestUnused), t, cost, weight, 0)
    \/ \E n \in Node :
        \/ \E failed \in SUBSET Partition : Reconcile(n, failed)
        \/ Restart(n)
    \/ \E p \in Partition : WorkerClaims(p)
    \/ /\ \E j \in JobId :
            \/ \E r \in Resolution : Db!Complete(j, r)
            \/ jobs[j] # Absent /\ Outlived(j) /\ Db!Expire(j)
       /\ UNCHANGED << clocks, lwm >>

ServiceFairSpec ==
    /\ Init
    /\ [][ServiceNext]_vars
    /\ \A p \in Partition : WF_vars(WorkerClaims(p))
    /\ \A n \in Node : WF_vars(Reconcile(n, {}))

Waits(j) == Db!Pending(j) /\ jobs[j].claim_id = NoClaim

(* A job that waits is claimed or resolved in the end, whatever the other  *)
(* tenants enqueue meanwhile: no tenant can keep stamping its jobs ahead   *)
(* of it (claim.go:68, claim.go:99-102; vtimecache.go:60-64).              *)
NoStarvation == \A j \in JobId : Waits(j) ~> ~Waits(j)
=============================================================================
