-------------------------- MODULE JobStore_proofs --------------------------
(***************************************************************************)
(* The records the library's writes produce are well formed, whatever the  *)
(* constants, and hide their job for no less than was asked.               *)
(***************************************************************************)
EXTENDS JobStore, TLAPS

(* Integer division of a natural number by a positive one, as bounds.      *)
LEMMA DivisionBounds ==
    ASSUME NEW a \in Nat, NEW b \in Nat \ {0}
    PROVE  /\ a \div b \in Nat
           /\ (a \div b) * b <= a
           /\ a < (a \div b) * b + b
           /\ a \div b <= a
<1> DEFINE q == a \div b
           r == a % b
<1>1. q \in Int /\ r \in 0 .. (b - 1) /\ a = b * q + r
  OBVIOUS
<1>2. q \in Nat
  BY <1>1
<1>3. q * b = b * q
  BY <1>2
<1>4. q <= b * q
  BY <1>2
<1> QED BY <1>1, <1>2, <1>3, <1>4

(* Rounding up loses nothing: whole milliseconds cover the duration.       *)
LEMMA MillisCover ==
    ASSUME NEW d \in Nat
    PROVE  /\ DurationMillis(d) \in Nat
           /\ d <= DurationMillis(d) * NsPerMs
<1> DEFINE q == d \div NsPerMs
           r == d % NsPerMs
<1>1. NsPerMs \in Nat \ {0}
  BY StoreAssumption
<1>2. /\ q \in Nat /\ q * NsPerMs <= d /\ d < q * NsPerMs + NsPerMs
      /\ r = 0 => d = q * NsPerMs
  BY <1>1, DivisionBounds
<1>3. DurationMillis(d) = q + (IF r # 0 THEN 1 ELSE 0)
  BY DEF DurationMillis
<1> HIDE DEF q, r
<1>4. CASE r = 0
  BY <1>1, <1>2, <1>3, <1>4
<1>5. CASE r # 0
  <2>1. DurationMillis(d) = q + 1
    BY <1>3, <1>5
  <2>2. (q + 1) * NsPerMs = q * NsPerMs + NsPerMs
    BY <1>1, <1>2
  <2>3. q * NsPerMs \in Nat
    BY <1>1, <1>2
  <2> QED BY <1>1, <1>2, <2>1, <2>2, <2>3
<1> QED BY <1>4, <1>5

(* A record in place of one that is not Absent-typed keeps the store's     *)
(* type when it has a resolution exactly if it is resolved.                *)
LEMMA PutTyped ==
    ASSUME StoreTypeOK, NEW j \in JobId, NEW job \in Job,
           job.liveness = "resolved" <=> job.resolution # NoResolution,
           Put(j, job)
    PROVE  /\ StoreTypeOK'
           /\ jobs'[j] = job
           /\ \A i \in JobId \ {j} : jobs'[i] = jobs[i]
<1>1. jobs \in [JobId -> Job \cup {Absent}]
  BY DEF StoreTypeOK
<1>2. /\ jobs' \in [JobId -> Job \cup {Absent}]
      /\ jobs'[j] = job
      /\ \A i \in JobId \ {j} : jobs'[i] = jobs[i]
  BY <1>1 DEF Put
<1>3. ASSUME NEW i \in JobId, jobs'[i] # Absent
      PROVE  jobs'[i].liveness = "resolved"
                <=> jobs'[i].resolution # NoResolution
  <2>1. CASE i = j
    BY <1>2, <2>1
  <2>2. CASE i # j
    BY <1>2, <1>3, <2>2 DEF StoreTypeOK
  <2> QED BY <2>1, <2>2
<1> QED BY <1>2, <1>3 DEF StoreTypeOK

(* Each kind of write produces a well-formed record.                       *)
LEMMA RecordTypes ==
    ASSUME StoreTypeOK, NEW j \in JobId, Pending(j)
    PROVE  /\ jobs[j] \in Job /\ jobs[j].resolution = NoResolution
           /\ \A d \in Duration : /\ Extended(jobs[j], d) \in Job
                                  /\ ReleasedJob(jobs[j], d) \in Job
                                  /\ \A c \in ClaimId : Claimed(jobs[j], c, d) \in Job
           /\ \A r \in Resolution : ResolvedJob(jobs[j], r) \in Job
<1>1. jobs[j] \in Job /\ jobs[j].liveness = "pending"
  BY DEF StoreTypeOK, Pending
<1>2. \A d \in Duration : DurationMillis(d) \in Nat
  BY MillisCover, StoreAssumption
<1>3. jobs[j].resolution = NoResolution
  BY <1>1 DEF StoreTypeOK, Pending
<1>4. ASSUME NEW c \in ClaimId, NEW d \in Duration
      PROVE  Claimed(jobs[j], c, d) \in Job
  <2> DEFINE a == jobs[j].attempts
             n == IF a < MaxAttempts THEN a + 1 ELSE a
  <2>1. a \in 0 .. MaxAttempts /\ MaxAttempts \in Nat
    BY <1>1, StoreAssumption DEF Job
  <2>2. n \in 0 .. MaxAttempts
    <3> HIDE DEF a
    <3> QED BY <2>1
  <2>3. Claimed(jobs[j], c, d)
          = [jobs[j] EXCEPT !.claim_id = c,
                            !.visible_in = DurationMillis(d),
                            !.attempts = n]
    BY DEF Claimed
  <2> HIDE DEF n
  <2> QED BY <1>1, <1>2, <2>2, <2>3 DEF Job
<1>5. ASSUME NEW d \in Duration
      PROVE  Extended(jobs[j], d) \in Job /\ ReleasedJob(jobs[j], d) \in Job
  BY <1>1, <1>2 DEF Extended, ReleasedJob, Job
<1>6. ASSUME NEW r \in Resolution
      PROVE  ResolvedJob(jobs[j], r) \in Job
  BY <1>1 DEF ResolvedJob, Job
<1> QED BY <1>1, <1>3, <1>4, <1>5, <1>6

(* A new record is well formed and pending.                                *)
LEMMA NewJobType ==
    ASSUME NEW t \in Tenant, NEW p \in Partition, NEW v \in VStamp,
           NEW d \in Nat
    PROVE  /\ NewJob(t, p, v, d) \in Job
           /\ NewJob(t, p, v, d).claim_id = NoClaim
           /\ NewJob(t, p, v, d).liveness = "pending"
           /\ NewJob(t, p, v, d).resolution = NoResolution
<1>1. DurationMillis(d) \in Nat /\ 0 \in 0 .. MaxAttempts
  BY MillisCover, StoreAssumption
<1> QED BY <1>1 DEF NewJob, Job

(* A write to a pending record leaves a well-formed store, with as many    *)
(* records as before.                                                      *)
LEMMA WriteTyped ==
    ASSUME StoreTypeOK, NEW j \in JobId, Pending(j), NEW job, Put(j, job),
           \/ \E d \in Duration : \/ job = Extended(jobs[j], d)
                                  \/ job = ReleasedJob(jobs[j], d)
                                  \/ \E c \in ClaimId : job = Claimed(jobs[j], c, d)
           \/ \E r \in Resolution : job = ResolvedJob(jobs[j], r)
    PROVE  /\ StoreTypeOK'
           /\ \A i \in JobId : jobs[i] # Absent => jobs'[i] # Absent
<1>1. /\ job \in Job /\ jobs[j] \in Job
      /\ jobs[j].resolution = NoResolution /\ jobs[j].liveness = "pending"
  BY RecordTypes DEF Pending
<1>2. job.liveness = "resolved" <=> job.resolution # NoResolution
  <2>1. ASSUME NEW d \in Duration, NEW c,
               job \in {Claimed(jobs[j], c, d), Extended(jobs[j], d),
                        ReleasedJob(jobs[j], d)}
        PROVE  job.liveness = "pending" /\ job.resolution = NoResolution
    BY <1>1, <2>1 DEF Claimed, Extended, ReleasedJob, Job
  <2>2. ASSUME NEW r \in Resolution, job = ResolvedJob(jobs[j], r)
        PROVE  job.liveness = "resolved" /\ job.resolution # NoResolution
    BY <1>1, <2>2, StoreAssumption DEF ResolvedJob, Job
  <2> QED BY <2>1, <2>2
<1> QED BY <1>1, <1>2, PutTyped, AbsentAssumption

(* So does a tick.                                                         *)
LEMMA TickTyped ==
    ASSUME StoreTypeOK, TickJobs
    PROVE  /\ StoreTypeOK'
           /\ \A i \in JobId : jobs[i] # Absent => jobs'[i] # Absent
<1>1. ASSUME NEW j \in JobId
      PROVE  /\ jobs'[j] \in Job \cup {Absent}
             /\ jobs'[j] = Absent <=> jobs[j] = Absent
             /\ jobs[j] # Absent => /\ jobs'[j].liveness = jobs[j].liveness
                                    /\ jobs'[j].resolution = jobs[j].resolution
  <2>1. jobs[j] \in Job \cup {Absent}
    BY DEF StoreTypeOK
  <2>2. CASE Pending(j) /\ jobs[j].visible_in > 0
    <3>1. jobs'[j] = [jobs[j] EXCEPT !.visible_in = @ - 1] /\ jobs[j] \in Job
      BY <2>1, <2>2 DEF TickJobs, Pending
    <3>2. jobs'[j] \in Job
      BY <2>2, <3>1 DEF Job
    <3> QED BY <3>1, <3>2, AbsentAssumption DEF Job
  <2>3. CASE ~(Pending(j) /\ jobs[j].visible_in > 0)
    BY <2>1, <2>3 DEF TickJobs
  <2> QED BY <2>2, <2>3
<1>2. jobs' \in [JobId -> Job \cup {Absent}]
  BY <1>1 DEF TickJobs
<1> QED BY <1>1, <1>2 DEF StoreTypeOK

(* And an expiry, which takes one resolved record away.                    *)
LEMMA ExpireTyped ==
    ASSUME StoreTypeOK, NEW j \in JobId, Expire(j)
    PROVE  /\ StoreTypeOK'
           /\ Resolved(j)
           /\ \A i \in JobId \ {j} : jobs'[i] = jobs[i]
<1>1. /\ Resolved(j)
      /\ jobs' \in [JobId -> Job \cup {Absent}]
      /\ jobs'[j] = Absent
      /\ \A i \in JobId \ {j} : jobs'[i] = jobs[i]
  BY DEF Expire, Expirable, Put, StoreTypeOK
<1>2. ASSUME NEW i \in JobId, jobs'[i] # Absent
      PROVE  jobs'[i].liveness = "resolved"
                <=> jobs'[i].resolution # NoResolution
  <2>1. i # j /\ jobs'[i] = jobs[i]
    BY <1>1, <1>2
  <2> QED BY <1>2, <2>1 DEF StoreTypeOK
<1> QED BY <1>1, <1>2 DEF StoreTypeOK
=============================================================================
