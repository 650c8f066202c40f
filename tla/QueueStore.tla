----------------------------- MODULE QueueStore -----------------------------
(***************************************************************************)
(* What a queue reads of the collection (queue.go), and what workers,      *)
(* cancelers, the TTL monitor and time do to it, whoever holds the         *)
(* handles: a fenced operation that does not match changes nothing.        *)
(***************************************************************************)
EXTENDS JobStore, FiniteSetsExt

(* The reads, each one query on the primary.                               *)

(* seedFilter: the pending jobs of a timeline.                             *)
TimelineJobs(t) ==
    {j \in JobId : Pending(j) /\ << jobs[j].tenant, jobs[j].partition >> = t}

(* clockFilter: the jobs that carry a claim id, pending or resolved.       *)
Fenced(p) ==
    {j \in JobId : /\ jobs[j] # Absent
                   /\ jobs[j].partition = p
                   /\ jobs[j].claim_id # NoClaim}

(* pendingFilter: the pending jobs of a partition, visible or not.         *)
PendingIn(p) == {j \in JobId : Pending(j) /\ jobs[j].partition = p}

Stamps(J) == {jobs[j].vstamp : j \in J}

(* The frontier as one read would give it: a set of at most one stamp.     *)
Frontier(p) ==
    IF Fenced(p) # {} THEN {Max(Stamps(Fenced(p)))}
    ELSE IF PendingIn(p) # {} THEN {Min(Stamps(PendingIn(p)))} ELSE {}

(* Mutation: the seed reads visible jobs only.                             *)
EdgeVisible(t) ==
    LET visible == {j \in TimelineJobs(t) : jobs[j].visible_in = 0}
    IN  IF visible = {} THEN 0 ELSE Max(Stamps(visible))

(* seedTenantVtime: the trailing edge, or 0.                               *)
Edge(t) == IF TimelineJobs(t) = {} THEN 0 ELSE Max(Stamps(TimelineJobs(t)))

-----------------------------------------------------------------------------
(* The other clients of the collection.                                    *)

(* A fence some worker still matches, its lease expired or not.            *)
Held(j) == Pending(j) /\ jobs[j].claim_id # NoClaim

Claim(j, p, c, lease) ==
    lease > 0 /\ IsFirst(j, p) /\ Put(j, Claimed(jobs[j], c, lease))

Heartbeat(j, extend) ==
    extend > 0 /\ Held(j) /\ Put(j, Extended(jobs[j], extend))

Release(j, delay) == Held(j) /\ Put(j, ReleasedJob(jobs[j], delay))

Complete(j, r) == Held(j) /\ Put(j, ResolvedJob(jobs[j], r))

Cancel(j) == CancelFilter(j) /\ Put(j, ResolvedJob(jobs[j], Canceled))

(* One step of any of them.                                                *)
StoreStep ==
    \/ \E j \in JobId :
        \/ \E d \in Duration : \/ Heartbeat(j, d) \/ Release(j, d)
                               \/ \E p \in Partition, c \in ClaimId : Claim(j, p, c, d)
        \/ \E r \in Resolution : Complete(j, r)
        \/ Cancel(j)
        \/ Expire(j)
    \/ TickJobs
=============================================================================
