------------------------------- MODULE Leases -------------------------------
(***************************************************************************)
(* The life of jobs between enqueue and garbage collection: workers claim, *)
(* heartbeat, release and complete through handles, anyone cancels by id,  *)
(* time passes, records are collected and their ids reused.                *)
(*                                                                         *)
(* A command takes effect at the server in one step.  Its reply may be     *)
(* late or lost and its caller may be gone; a handle stays usable for as   *)
(* long as a worker keeps it, so a delayed call is the same call made      *)
(* later, and only the lost reply of Claim, which leaves a claim without a *)
(* handle, needs an action of its own.                                     *)
(***************************************************************************)
EXTENDS JobStore

CONSTANTS
    Canceler,       \* concurrent callers of Cancel
    Idle            \* a canceler between calls

VARIABLES
    handles,        \* the ClaimedJobs workers keep: [job, claim]
    cancels,        \* each canceler: Idle, or between its update and its Get
    promise,        \* history: nanoseconds left of the lease granted to a claim
    ended           \* history: handles whose claim is over as far as the
                    \* server told: Release or Complete matched, or a call
                    \* returned ErrLeaseLost

vars == << jobs, handles, cancels, promise, ended >>

Handle == [job : JobId, claim : ClaimId]

(* inserted is history: the id was inserted since the update missed.       *)
Miss == [job : JobId, inserted : BOOLEAN]

ASSUME IdleAssumption == Idle \notin Miss

Init ==
    /\ StoreInit
    /\ handles = {}
    /\ cancels = [k \in Canceler |-> Idle]
    /\ promise = [c \in ClaimId |-> 0]
    /\ ended = {}

(* Claim mints a new ObjectID; what matters is that no record and no       *)
(* handle carries it already.                                              *)
InUse(c) ==
    \/ \E j \in JobId : jobs[j] # Absent /\ jobs[j].claim_id = c
    \/ \E h \in handles : h.claim = c

Insert(j, t, p, v, delay) ==
    /\ InsertOne(j, t, p, v, delay)
    /\ cancels' = [k \in Canceler |->
                    IF cancels[k] # Idle /\ cancels[k].job = j
                    THEN [cancels[k] EXCEPT !.inserted = TRUE]
                    ELSE cancels[k]]
    /\ UNCHANGED << handles, promise, ended >>

(* The findOneAndUpdate of Claim; ErrNoJob changes nothing.                *)
ClaimOne(p, lease, c, j) ==
    /\ lease > 0
    /\ ~InUse(c)
    /\ IsFirst(j, p)
    /\ Put(j, Claimed(jobs[j], c, lease))
    /\ promise' = [promise EXCEPT ![c] = lease]
    /\ UNCHANGED << cancels, ended >>

Claim(p, lease, c, j) ==
    /\ ClaimOne(p, lease, c, j)
    /\ handles' = handles \cup {[job |-> j, claim |-> c]}

(* The caller timed out or crashed: the job is claimed, nobody knows.      *)
ClaimReplyLost(p, lease, c, j) ==
    /\ ClaimOne(p, lease, c, j)
    /\ UNCHANGED handles

(* A lease operation whose fence matches no record: ErrLeaseLost.          *)
LeaseLost(h) ==
    /\ ~Holds(h.job, h.claim)
    /\ ended' = ended \cup {h}
    /\ UNCHANGED << jobs, handles, cancels, promise >>

Heartbeat(h, extend) ==
    /\ extend > 0
    /\ Holds(h.job, h.claim)
    /\ Put(h.job, Extended(jobs[h.job], extend))
    /\ promise' = [promise EXCEPT ![h.claim] = extend]
    /\ UNCHANGED << handles, cancels, ended >>

Release(h, delay) ==
    /\ Holds(h.job, h.claim)
    /\ Put(h.job, ReleasedJob(jobs[h.job], delay))
    /\ promise' = [promise EXCEPT ![h.claim] = 0]
    /\ ended' = ended \cup {h}
    /\ UNCHANGED << handles, cancels >>

Complete(h, r) ==
    /\ Holds(h.job, h.claim)
    /\ Put(h.job, ResolvedJob(jobs[h.job], r))
    /\ promise' = [promise EXCEPT ![h.claim] = 0]
    /\ ended' = ended \cup {h}
    /\ UNCHANGED << handles, cancels >>

(* Cancel, first command: the update matches a pending job and is done ... *)
CancelUpdate(k, j) ==
    /\ cancels[k] = Idle
    /\ CancelFilter(j)
    /\ Put(j, ResolvedJob(jobs[j], Canceled))
    /\ promise' = [c \in ClaimId |->
                    IF c = jobs[j].claim_id THEN 0 ELSE promise[c]]
    /\ UNCHANGED << handles, cancels, ended >>

(* ... or it matches none, and a read has to classify the miss.            *)
CancelMiss(k, j) ==
    /\ cancels[k] = Idle
    /\ ~CancelFilter(j)
    /\ cancels' = [cancels EXCEPT ![k] = [job |-> j, inserted |-> FALSE]]
    /\ UNCHANGED << jobs, handles, promise, ended >>

(* The Get of Cancel, whatever it finds or fails with, changes nothing.    *)
CancelGet(k) ==
    /\ cancels[k] # Idle
    /\ cancels' = [cancels EXCEPT ![k] = Idle]
    /\ UNCHANGED << jobs, handles, promise, ended >>

Collect(j) ==
    /\ Expire(j)
    /\ UNCHANGED << handles, cancels, promise, ended >>

(* The worker returns, moves on or crashes: no call uses the handle again. *)
Forget(h) ==
    /\ handles' = handles \ {h}
    /\ ended' = ended \ {h}
    /\ UNCHANGED << jobs, cancels, promise >>

(* A millisecond of server time passes for records and for leases.         *)
Tick ==
    /\ TickJobs
    /\ promise' = [c \in ClaimId |->
                    IF promise[c] > NsPerMs THEN promise[c] - NsPerMs ELSE 0]
    /\ UNCHANGED << handles, cancels, ended >>

Dispatch ==
    \E p \in Partition, lease \in Duration, c \in ClaimId, j \in JobId :
        Claim(p, lease, c, j) \/ ClaimReplyLost(p, lease, c, j)

Work ==
    \E h \in handles :
        \/ LeaseLost(h)
        \/ \E d \in Duration : Heartbeat(h, d) \/ Release(h, d)
        \/ \E r \in Resolution \ {Canceled} : Complete(h, r)
        \/ Forget(h)

Next ==
    \/ \E j \in JobId, t \in Tenant, p \in Partition, v \in VStamp, d \in Duration :
           Insert(j, t, p, v, d)
    \/ Dispatch
    \/ Work
    \/ \E k \in Canceler : \/ \E j \in JobId : CancelUpdate(k, j) \/ CancelMiss(k, j)
                           \/ CancelGet(k)
    \/ \E j \in JobId : Collect(j)
    \/ Tick

Spec == Init /\ [][Next]_vars

(* The server's clock does not stop.  Nothing is assumed of any caller.    *)
FairSpec == Spec /\ WF_vars(Tick)

-----------------------------------------------------------------------------

(* Types, and a resolution on exactly the resolved records (job.go:28-30). *)
TypeOK ==
    /\ StoreTypeOK
    /\ handles \subseteq Handle
    /\ cancels \in [Canceler -> Miss \cup {Idle}]
    /\ promise \in [ClaimId -> Nat]
    /\ ended \subseteq handles

(* While any part of a granted lease is left, by the server's clock, the   *)
(* job is pending under that very claim and hidden from every claimer:     *)
(* "Concurrent claimers never receive the same job while its lease is      *)
(* live" (claim.go:44), for sub-millisecond leases too (duration.go:7).    *)
LeaseHonoured ==
    \A c \in ClaimId : promise[c] > 0 =>
        \E j \in JobId : /\ Holds(j, c)
                         /\ ~ClaimFilter(j, jobs[j].partition)

(* A claim that is over stays over: once a handle's Release or Complete    *)
(* took effect, or any of its calls returned ErrLeaseLost, it can never    *)
(* write again, even after its job was reclaimed, canceled, collected or   *)
(* its id reused (claim.go:14-18, lease.go:56, resolve.go:21).             *)
EndedForGood == \A h \in ended : ~Holds(h.job, h.claim)

(* Cancel's read finds the job pending after its update missed only if the *)
(* id was inserted in between, so answering ErrJobResolved never hides a   *)
(* job that was there to cancel (resolve.go:38-43).                        *)
PendingMissIsReuse ==
    \A k \in Canceler :
        cancels[k] # Idle /\ Pending(cancels[k].job) => cancels[k].inserted

(* Exactly one terminal write wins: a resolved record never changes again  *)
(* and only disappears (job.go:22-25).                                     *)
ResolvedIsFinal ==
    [][\A j \in JobId : Resolved(j) => jobs'[j] \in {jobs[j], Absent}]_vars

(* No job is lost: a pending job keeps its tenant, partition and stamp and *)
(* leaves the pending state only through Cancel or through the Complete of *)
(* the very handle whose claim it carries (job.go:22-25, queue.go:306-308, *)
(* claim.go:14-18).                                                        *)
OnlyHolderOrCancelResolves ==
    [][\A j \in JobId : Pending(j) =>
        /\ jobs'[j] # Absent
        /\ jobs'[j].tenant = jobs[j].tenant
        /\ jobs'[j].partition = jobs[j].partition
        /\ jobs'[j].vstamp = jobs[j].vstamp
        /\ \/ Pending(j)'
           \/ jobs'[j].resolution = Canceled
           \/ [job |-> j, claim |-> jobs[j].claim_id] \in ended']_vars

(* A claim nobody can act on: its reply was lost or its worker is gone.    *)
Orphaned(j) ==
    /\ Pending(j)
    /\ jobs[j].claim_id # NoClaim
    /\ [job |-> j, claim |-> jobs[j].claim_id] \notin handles

(* "An expired lease makes the job claimable again with no sweeper"        *)
(* (claim.go:44): a job whose worker is gone returns to the visible set,   *)
(* by the passing of time alone, unless it is canceled first.              *)
OrphansReturn ==
    \A j \in JobId :
        Orphaned(j) ~> \/ ~Orphaned(j)
                       \/ ClaimFilter(j, jobs[j].partition)
=============================================================================
