------------------------------ MODULE JobStore ------------------------------
(***************************************************************************)
(* The durable job collection and the filters and updates the library     *)
(* sends to it (claim.go, lease.go, resolve.go, enqueue.go, job.go).  The  *)
(* server applies each single-document command atomically, so a command is *)
(* one step of the modules that extend this one.                           *)
(*                                                                         *)
(* Server time ($$NOW) is only ever compared with visible_at, so a record  *)
(* keeps visible_in, the milliseconds from now until visible_at, and 0     *)
(* once it has passed.  Cost, kind, body, stamped_by and resolved_at (set  *)
(* by the write that sets liveness) are left out.                          *)
(***************************************************************************)
EXTENDS Integers

CONSTANTS
    JobId,          \* job ids, numbered in their binary collation order
    Tenant,
    Partition,
    VStamp,          \* the vstamps stored jobs carry
    ClaimId,        \* the non-empty claim ids
    Resolution,     \* the caller-defined resolutions, and Canceled
    Duration,       \* the nanoseconds callers pass as lease, extend or delay
    NsPerMs,        \* time.Millisecond
    MaxAttempts     \* bound: attempts saturates here (the library never reads it)

CONSTANTS
    Absent,         \* no record under this id
    NoClaim,        \* the empty claim_id
    NoResolution,   \* resolution of a pending job
    Canceled        \* ResolutionCanceled

ASSUME StoreAssumption ==
    /\ JobId \subseteq Nat
    /\ VStamp \subseteq Nat
    /\ Duration \subseteq Nat
    /\ NsPerMs \in Nat \ {0}
    /\ MaxAttempts \in Nat
    /\ NoClaim \notin ClaimId
    /\ Canceled \in Resolution
    /\ NoResolution \notin Resolution

Job ==
    [tenant : Tenant, partition : Partition, vstamp : VStamp,
     liveness : {"pending", "resolved"},
     resolution : Resolution \cup {NoResolution},
     claim_id : ClaimId \cup {NoClaim},
     visible_in : Nat,
     attempts : 0 .. MaxAttempts]

ASSUME AbsentAssumption == Absent \notin Job

VARIABLE jobs       \* the collection: id -> record or Absent

-----------------------------------------------------------------------------
(* Mutation: whole milliseconds rounded down.                              *)
DurationMillisDown(d) == d \div NsPerMs

(* Whole milliseconds, rounded up so a positive duration never becomes 0.  *)
DurationMillis(d) ==
    (d \div NsPerMs) + (IF d % NsPerMs # 0 THEN 1 ELSE 0)

Pending(j) == jobs[j] # Absent /\ jobs[j].liveness = "pending"
Resolved(j) == jobs[j] # Absent /\ jobs[j].liveness = "resolved"

(* Mutations: a claim filter that ignores visible_at, and one that passes  *)
(* over jobs with a lapsed claim.                                          *)
ClaimFilterHidden(j, p) == Pending(j) /\ jobs[j].partition = p
ClaimFilterUnclaimed(j, p) ==
    /\ Pending(j)
    /\ jobs[j].partition = p
    /\ jobs[j].visible_in = 0
    /\ jobs[j].claim_id = NoClaim

(* The visible set of a partition: pending and visible_at <= $$NOW.        *)
ClaimFilter(j, p) ==
    /\ Pending(j)
    /\ jobs[j].partition = p
    /\ jobs[j].visible_in = 0

(* claimSort: lowest (vstamp, _id) first.                                  *)
Before(i, j) ==
    \/ jobs[i].vstamp < jobs[j].vstamp
    \/ jobs[i].vstamp = jobs[j].vstamp /\ i < j

IsFirst(j, p) ==
    /\ ClaimFilter(j, p)
    /\ \A i \in JobId \ {j} : ClaimFilter(i, p) => Before(j, i)

(* Mutations: the fence without its liveness or without its claim id.      *)
HoldsAnyLiveness(j, c) == jobs[j] # Absent /\ jobs[j].claim_id = c
HoldsAnyClaim(j, c) == Pending(j)

(* The filter of fencedUpdate: this id, this claim id, still pending; no   *)
(* visibility condition, so a lapsed but unreclaimed lease still holds.    *)
Holds(j, c) == Pending(j) /\ jobs[j].claim_id = c

(* Mutation: a cancel that spares claimed jobs.                            *)
CancelFilterUnclaimed(j) == Pending(j) /\ jobs[j].claim_id = NoClaim

(* The filter of Cancel: pending, claimed or not.                          *)
CancelFilter(j) == Pending(j)

-----------------------------------------------------------------------------
(* The records the library's writes produce.                               *)

NewJob(t, p, v, delay) ==
    [tenant |-> t, partition |-> p, vstamp |-> v,
     liveness |-> "pending", resolution |-> NoResolution,
     claim_id |-> NoClaim, visible_in |-> DurationMillis(delay),
     attempts |-> 0]

Claimed(job, c, lease) ==
    [job EXCEPT !.claim_id = c,
                !.visible_in = DurationMillis(lease),
                !.attempts = IF @ < MaxAttempts THEN @ + 1 ELSE @]

Extended(job, extend) == [job EXCEPT !.visible_in = DurationMillis(extend)]

(* Mutation: Release leaves the claim id in place.                         *)
ReleasedFenced(job, delay) ==
    [job EXCEPT !.visible_in = DurationMillis(delay)]

ReleasedJob(job, delay) ==
    [job EXCEPT !.visible_in = DurationMillis(delay),
                !.claim_id = NoClaim]

(* Mutation: a terminal write whose resolution does not reach the record.  *)
ResolvedJobBare(job, r) ==
    [job EXCEPT !.liveness = "resolved", !.visible_in = 0]

(* resolveSet: the claim id stays in the record.  So does visible_at, which *)
(* nothing reads any more; visible_in is blanked.                          *)
ResolvedJob(job, r) ==
    [job EXCEPT !.liveness = "resolved", !.resolution = r, !.visible_in = 0]

-----------------------------------------------------------------------------
(* The commands, as steps of the collection.                               *)

Put(j, job) == jobs' = [jobs EXCEPT ![j] = job]

(* InsertOne; a stored id makes it a duplicate-key error that writes       *)
(* nothing.  delay stands for the wait until visible_at by the server's    *)
(* clock: the caller's Delay shifted by the skew of its own clock.         *)
InsertOne(j, t, p, v, delay) ==
    /\ jobs[j] = Absent
    /\ Put(j, NewJob(t, p, v, delay))

(* The TTL index is partial on liveness: resolved.                         *)
Expirable(j) == Resolved(j)

(* The server's TTL monitor deletes a resolved job, at any later time.     *)
Expire(j) == Expirable(j) /\ Put(j, Absent)

(* One millisecond of server time.                                         *)
TickJobs ==
    jobs' = [j \in JobId |->
                IF Pending(j) /\ jobs[j].visible_in > 0
                THEN [jobs[j] EXCEPT !.visible_in = @ - 1]
                ELSE jobs[j]]

StoreInit == jobs = [j \in JobId |-> Absent]

(* A record has a resolution exactly when it is resolved (job.go:28-30).   *)
StoreTypeOK ==
    /\ jobs \in [JobId -> Job \cup {Absent}]
    /\ \A j \in JobId : jobs[j] # Absent =>
          (jobs[j].liveness = "resolved" <=> jobs[j].resolution # NoResolution)
=============================================================================
