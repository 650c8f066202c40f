--------------------------- MODULE Leases_proofs ---------------------------
(***************************************************************************)
(* The safety of leases for any number of jobs, claims, workers and        *)
(* cancelers, and any durations, and that Leases implements JobLifecycle.  *)
(*                                                                         *)
(* TypeOK, EndedForGood and PendingMissIsReuse are inductive;              *)
(* LeaseHonoured is not, because it does not relate what is left of the    *)
(* promise to what is left of the hiding: LeaseCovered does.               *)
(*                                                                         *)
(* For the refinement each step of Leases is a move of the job it writes   *)
(* or, for a tick, the lapse of every lease it ends.  That a claimable job *)
(* has no live lease needs the promise to be covered by that very record,  *)
(* so no two records may carry one claim id: ClaimsDiffer.                 *)
(***************************************************************************)
EXTENDS LeasesRefinement, JobStore_proofs, TLAPS

(* What is left of a granted lease is covered by the record that carries   *)
(* the claim: it stays hidden at least as long.                            *)
LeaseCovered ==
    \A c \in ClaimId : promise[c] > 0 =>
        \E j \in JobId : /\ Holds(j, c)
                         /\ promise[c] <= jobs[j].visible_in * NsPerMs

IInv ==
    /\ TypeOK
    /\ LeaseCovered
    /\ EndedForGood
    /\ PendingMissIsReuse

-----------------------------------------------------------------------------

LEMMA InitIInv == Init => IInv
<1> SUFFICES ASSUME Init PROVE IInv
  OBVIOUS
<1> USE DEF Init, StoreInit
<1>1. TypeOK
  BY DEF TypeOK, StoreTypeOK
<1>2. LeaseCovered
  BY DEF LeaseCovered
<1>3. EndedForGood
  BY DEF EndedForGood
<1>4. PendingMissIsReuse
  BY DEF PendingMissIsReuse
<1> QED BY <1>1, <1>2, <1>3, <1>4 DEF IInv

(* A write to one record leaves the claims on all others as they were.     *)
LEMMA HoldsElsewhere ==
    ASSUME NEW j \in JobId, NEW i \in JobId \ {j}, NEW c,
           jobs'[i] = jobs[i]
    PROVE  Holds(i, c)' <=> Holds(i, c)
BY DEF Holds, Pending

(* Coverage after a step that changes at most record j and the lease of    *)
(* claim c0: it suffices that j covered no other live lease, and covers    *)
(* c0 if anything of its lease is left.                                    *)
LEMMA CoverStep ==
    ASSUME LeaseCovered,
           NEW j \in JobId, NEW c0,
           \A i \in JobId \ {j} : jobs'[i] = jobs[i],
           \A c \in ClaimId \ {c0} : promise'[c] = promise[c],
           \A c \in ClaimId \ {c0} :
                ~ /\ promise[c] > 0
                  /\ Holds(j, c)
                  /\ promise[c] <= jobs[j].visible_in * NsPerMs,
           c0 \in ClaimId /\ promise'[c0] > 0 =>
                /\ Holds(j, c0)'
                /\ promise'[c0] <= jobs'[j].visible_in * NsPerMs
    PROVE  LeaseCovered'
<1> SUFFICES ASSUME NEW c \in ClaimId, promise'[c] > 0
             PROVE  \E i \in JobId :
                        /\ Holds(i, c)'
                        /\ promise'[c] <= jobs'[i].visible_in * NsPerMs
  BY DEF LeaseCovered
<1>1. CASE c = c0
  BY <1>1
<1>2. CASE c # c0
  <2>1. promise'[c] = promise[c] /\ promise[c] > 0
    BY <1>2
  <2>2. PICK i \in JobId : /\ Holds(i, c)
                           /\ promise[c] <= jobs[i].visible_in * NsPerMs
    BY <2>1 DEF LeaseCovered
  <2>3. i # j
    BY <1>2, <2>1, <2>2
  <2>4. jobs'[i] = jobs[i]
    BY <2>3
  <2>5. Holds(i, c)'
    BY <2>2, <2>3, <2>4, HoldsElsewhere
  <2> QED BY <2>1, <2>2, <2>4, <2>5
<1> QED BY <1>1, <1>2

(* Ended handles after a step that changes at most record j: it suffices   *)
(* that j does not come to carry an ended handle's claim.                  *)
LEMMA EndedStep ==
    ASSUME EndedForGood, TypeOK,
           NEW j \in JobId,
           \A i \in JobId \ {j} : jobs'[i] = jobs[i],
           \A h \in ended' : h.job = j => ~Holds(j, h.claim)',
           \A h \in ended' : h.job # j => h \in ended
    PROVE  EndedForGood'
<1> SUFFICES ASSUME NEW h \in ended'
             PROVE  ~Holds(h.job, h.claim)'
  BY DEF EndedForGood
<1>1. CASE h.job = j
  BY <1>1
<1>2. CASE h.job # j
  <2>1. h \in ended /\ ~Holds(h.job, h.claim)
    BY <1>2 DEF EndedForGood
  <2>2. h.job \in JobId
    BY <2>1 DEF TypeOK, Handle
  <2> QED BY <1>2, <2>1, <2>2, HoldsElsewhere
<1> QED BY <1>1, <1>2

(* Pending misses after a step that makes no job pending and starts no     *)
(* miss.                                                                   *)
LEMMA MissStep ==
    ASSUME PendingMissIsReuse, TypeOK, UNCHANGED cancels,
           \A i \in JobId : Pending(i)' => Pending(i)
    PROVE  PendingMissIsReuse'
<1> SUFFICES ASSUME NEW k \in Canceler,
                    cancels[k] # Idle, Pending(cancels[k].job)'
             PROVE  cancels[k].inserted
  BY DEF PendingMissIsReuse, Pending
<1>1. cancels[k].job \in JobId
  BY DEF TypeOK, Miss
<1> QED BY <1>1 DEF PendingMissIsReuse

-----------------------------------------------------------------------------
(* One lemma per action, one step per conjunct of the invariant.           *)

LEMMA InsertStep ==
    ASSUME IInv, NEW j \in JobId, NEW t \in Tenant, NEW p \in Partition,
           NEW v \in VStamp, NEW d \in Duration, Insert(j, t, p, v, d)
    PROVE  IInv'
<1> USE DEF IInv
<1> DEFINE job == NewJob(t, p, v, d)
<1>1. /\ jobs[j] = Absent /\ Put(j, job)
      /\ UNCHANGED << handles, promise, ended >>
  BY DEF Insert, InsertOne
<1>2. /\ job \in Job /\ job.claim_id = NoClaim
      /\ job.liveness = "pending" /\ job.resolution = NoResolution
  BY NewJobType, StoreAssumption
<1> HIDE DEF job
<1>3. /\ StoreTypeOK'
      /\ jobs'[j] = job
      /\ \A i \in JobId \ {j} : jobs'[i] = jobs[i]
  BY <1>1, <1>2, PutTyped DEF TypeOK
<1>4. \A c \in ClaimId : ~Holds(j, c) /\ ~Holds(j, c)'
  BY <1>1, <1>2, <1>3, StoreAssumption DEF Holds, Pending
<1>5. cancels' \in [Canceler -> Miss \cup {Idle}]
  <2>1. ASSUME NEW k \in Canceler, cancels[k] # Idle
        PROVE  [cancels[k] EXCEPT !.inserted = TRUE] \in Miss
    BY <2>1 DEF TypeOK, Miss
  <2> QED BY <2>1 DEF Insert, TypeOK
<1>6. TypeOK'
  BY <1>1, <1>3, <1>5 DEF TypeOK
<1>7. LeaseCovered'
  BY <1>1, <1>3, <1>4, CoverStep, StoreAssumption
<1>8. EndedForGood'
  BY <1>1, <1>3, <1>4, EndedStep DEF TypeOK, Handle
<1>9. PendingMissIsReuse'
  <2> SUFFICES ASSUME NEW k \in Canceler,
                      cancels'[k] # Idle, Pending(cancels[k].job)'
               PROVE  cancels'[k].inserted
    BY DEF PendingMissIsReuse, Pending
  <2>1. cancels'[k] = IF cancels[k] # Idle /\ cancels[k].job = j
                      THEN [cancels[k] EXCEPT !.inserted = TRUE]
                      ELSE cancels[k]
    BY DEF Insert
  <2>2. cancels[k] # Idle /\ cancels[k] \in Miss
    BY <2>1 DEF TypeOK
  <2>3. CASE cancels[k].job = j
    BY <2>1, <2>2, <2>3 DEF Miss
  <2>4. CASE cancels[k].job # j
    <3>1. cancels'[k] = cancels[k] /\ cancels[k].job \in JobId \ {j}
      BY <2>1, <2>2, <2>4 DEF Miss
    <3>2. Pending(cancels[k].job)
      BY <1>3, <3>1 DEF Pending
    <3> QED BY <2>2, <3>1, <3>2 DEF PendingMissIsReuse
  <2> QED BY <2>3, <2>4
<1> QED BY <1>6, <1>7, <1>8, <1>9

LEMMA ClaimStep ==
    ASSUME IInv, NEW p \in Partition, NEW lease \in Duration,
           NEW c \in ClaimId, NEW j \in JobId,
           Claim(p, lease, c, j) \/ ClaimReplyLost(p, lease, c, j)
    PROVE  IInv'
<1> USE DEF IInv
<1>1. ClaimOne(p, lease, c, j)
  BY DEF Claim, ClaimReplyLost
<1> DEFINE job == Claimed(jobs[j], c, lease)
<1>2. /\ ~InUse(c) /\ IsFirst(j, p) /\ Put(j, job)
      /\ promise' = [promise EXCEPT ![c] = lease]
      /\ UNCHANGED << cancels, ended >>
      /\ lease \in Nat
  BY <1>1, StoreAssumption DEF ClaimOne
<1>3. Pending(j) /\ jobs[j].visible_in = 0
  BY <1>2 DEF IsFirst, ClaimFilter
<1>4. /\ job \in Job /\ jobs[j] \in Job
      /\ jobs[j].resolution = NoResolution
  BY <1>3, RecordTypes, StoreAssumption DEF TypeOK
<1>5. /\ job.claim_id = c /\ job.visible_in = DurationMillis(lease)
      /\ job.liveness = "pending" /\ job.resolution = NoResolution
  BY <1>3, <1>4 DEF Claimed, Job, Pending
<1> HIDE DEF job
<1>6. /\ StoreTypeOK'
      /\ jobs'[j] = job
      /\ \A i \in JobId \ {j} : jobs'[i] = jobs[i]
  BY <1>2, <1>4, <1>5, PutTyped DEF TypeOK
<1>7. Holds(j, c)' /\ \A c1 : Holds(j, c1)' => c1 = c
  BY <1>4, <1>5, <1>6, AbsentAssumption DEF Holds, Pending
<1>8. TypeOK'
  <2>1. promise' \in [ClaimId -> Nat]
    BY <1>2 DEF TypeOK
  <2>2. [job |-> j, claim |-> c] \in Handle
    BY DEF Handle
  <2>3. handles \subseteq handles' /\ handles' \subseteq Handle
    BY <2>2 DEF Claim, ClaimReplyLost, TypeOK
  <2> QED BY <1>2, <1>6, <2>1, <2>3 DEF TypeOK
<1>9. LeaseCovered'
  <2>1. \A c1 \in ClaimId \ {c} : promise'[c1] = promise[c1]
    BY <1>2 DEF TypeOK
  <2>2. \A c1 \in ClaimId \ {c} :
           ~(promise[c1] > 0 /\ promise[c1] <= jobs[j].visible_in * NsPerMs)
    BY <1>3, StoreAssumption DEF TypeOK
  <2>3. promise'[c] = lease /\ lease <= DurationMillis(lease) * NsPerMs
    BY <1>2, MillisCover DEF TypeOK
  <2> QED BY <1>5, <1>6, <1>7, <2>1, <2>2, <2>3, CoverStep
<1>10. EndedForGood'
  <2>1. \A h \in ended : h.claim # c
    BY <1>2 DEF InUse, TypeOK
  <2> QED BY <1>2, <1>6, <1>7, <2>1, EndedStep
<1>11. PendingMissIsReuse'
  <2>1. \A i \in JobId : Pending(i)' => Pending(i)
    BY <1>3, <1>6 DEF Pending
  <2> QED BY <1>2, <2>1, MissStep
<1> QED BY <1>8, <1>9, <1>10, <1>11

(* Heartbeat, Release and Complete write the record their handle holds.    *)
LEMMA HolderFacts ==
    ASSUME IInv, NEW h \in handles, Holds(h.job, h.claim)
    PROVE  /\ h.job \in JobId /\ h.claim \in ClaimId
           /\ h = [job |-> h.job, claim |-> h.claim]
           /\ Pending(h.job) /\ jobs[h.job].claim_id = h.claim
BY DEF IInv, TypeOK, Handle, Holds

LEMMA HeartbeatStep ==
    ASSUME IInv, NEW h \in handles, NEW d \in Duration, Heartbeat(h, d)
    PROVE  IInv'
<1> USE DEF IInv
<1> DEFINE j == h.job
           c == h.claim
           job == Extended(jobs[j], d)
<1>1. /\ Holds(j, c) /\ Put(j, job)
      /\ promise' = [promise EXCEPT ![c] = d]
      /\ UNCHANGED << handles, cancels, ended >>
      /\ d \in Nat
  BY StoreAssumption DEF Heartbeat
<1>2. /\ j \in JobId /\ c \in ClaimId /\ Pending(j)
      /\ jobs[j].claim_id = c
  BY <1>1, HolderFacts
<1> HIDE DEF j, c
<1>3. /\ job \in Job /\ jobs[j] \in Job
      /\ jobs[j].resolution = NoResolution
  BY <1>2, RecordTypes, StoreAssumption DEF TypeOK
<1>4. /\ job.claim_id = c /\ job.visible_in = DurationMillis(d)
      /\ job.liveness = "pending" /\ job.resolution = NoResolution
  BY <1>2, <1>3 DEF Extended, Job, Pending
<1> HIDE DEF job
<1>5. /\ StoreTypeOK'
      /\ jobs'[j] = job
      /\ \A i \in JobId \ {j} : jobs'[i] = jobs[i]
  BY <1>1, <1>2, <1>3, <1>4, PutTyped DEF TypeOK
<1>6. \A c1 : Holds(j, c1)' <=> Holds(j, c1)
  BY <1>2, <1>3, <1>4, <1>5, AbsentAssumption DEF Holds, Pending
<1>7. TypeOK'
  <2>1. promise' \in [ClaimId -> Nat]
    BY <1>1, <1>2 DEF TypeOK
  <2> QED BY <1>1, <1>5, <2>1 DEF TypeOK
<1>8. LeaseCovered'
  <2>1. \A c1 \in ClaimId \ {c} : promise'[c1] = promise[c1]
    BY <1>1, <1>2 DEF TypeOK
  <2>2. \A c1 \in ClaimId \ {c} : ~Holds(j, c1)
    BY <1>2 DEF Holds
  <2>3. promise'[c] = d /\ d <= DurationMillis(d) * NsPerMs
    BY <1>1, <1>2, MillisCover DEF TypeOK
  <2> QED BY <1>1, <1>2, <1>4, <1>5, <1>6, <2>1, <2>2, <2>3, CoverStep
<1>9. EndedForGood'
  <2>1. \A h1 \in ended : h1.job = j => ~Holds(j, h1.claim)'
    BY <1>6 DEF EndedForGood
  <2> QED BY <1>1, <1>2, <1>5, <2>1, EndedStep
<1>10. PendingMissIsReuse'
  <2>1. \A i \in JobId : Pending(i)' => Pending(i)
    BY <1>2, <1>5 DEF Pending
  <2> QED BY <1>1, <2>1, MissStep
<1> QED BY <1>7, <1>8, <1>9, <1>10

(* Release and Complete: the claim is given up, so its promise is over.    *)
LEMMA GiveUpStep ==
    ASSUME IInv, NEW h \in handles, NEW job,
           Holds(h.job, h.claim),
           Put(h.job, job),
           job \in Job,
           job.liveness = "resolved" <=> job.resolution # NoResolution,
           job.liveness = "pending" => job.claim_id = NoClaim,
           promise' = [promise EXCEPT ![h.claim] = 0],
           ended' = ended \cup {h},
           UNCHANGED << handles, cancels >>
    PROVE  IInv'
<1> USE DEF IInv
<1> DEFINE j == h.job
           c == h.claim
<1>1. /\ j \in JobId /\ c \in ClaimId /\ Pending(j)
      /\ jobs[j].claim_id = c
  BY HolderFacts
<1>2. /\ StoreTypeOK'
      /\ jobs'[j] = job
      /\ \A i \in JobId \ {j} : jobs'[i] = jobs[i]
  BY <1>1, PutTyped DEF TypeOK
<1>3. \A c1 \in ClaimId : ~Holds(j, c1)'
  BY <1>2, StoreAssumption DEF Holds, Pending
<1>4. TypeOK'
  <2>1. promise' \in [ClaimId -> Nat]
    BY <1>1 DEF TypeOK
  <2> QED BY <1>2, <2>1 DEF TypeOK
<1>5. LeaseCovered'
  <2>1. \A c1 \in ClaimId \ {c} : promise'[c1] = promise[c1]
    BY <1>1 DEF TypeOK
  <2>2. \A c1 \in ClaimId \ {c} : ~Holds(j, c1)
    BY <1>1 DEF Holds
  <2>3. ~(promise'[c] > 0)
    BY <1>1 DEF TypeOK
  <2> QED BY <1>1, <1>2, <2>1, <2>2, <2>3, CoverStep
<1>6. EndedForGood'
  <2>1. \A h1 \in ended' : h1.job = j => ~Holds(j, h1.claim)'
    BY <1>3 DEF TypeOK, Handle
  <2>2. \A h1 \in ended' : h1.job # j => h1 \in ended
    OBVIOUS
  <2> QED BY <1>1, <1>2, <2>1, <2>2, EndedStep
<1>7. PendingMissIsReuse'
  <2>1. \A i \in JobId : Pending(i)' => Pending(i)
    BY <1>1, <1>2 DEF Pending
  <2> QED BY <2>1, MissStep
<1> QED BY <1>4, <1>5, <1>6, <1>7

LEMMA ReleaseStep ==
    ASSUME IInv, NEW h \in handles, NEW d \in Duration, Release(h, d)
    PROVE  IInv'
<1> DEFINE j == h.job
           job == ReleasedJob(jobs[j], d)
<1>1. /\ j \in JobId /\ Pending(j) /\ StoreTypeOK
  BY HolderFacts DEF Release, IInv, TypeOK
<1>2. /\ job \in Job /\ jobs[j] \in Job
      /\ jobs[j].resolution = NoResolution
  BY <1>1, RecordTypes, StoreAssumption, HolderFacts DEF Release
<1>3. /\ job.claim_id = NoClaim /\ job.liveness = "pending"
      /\ job.resolution = NoResolution
  BY <1>1, <1>2 DEF ReleasedJob, Job, Pending
<1> HIDE DEF job
<1>4. Put(h.job, job)
  BY DEF Release, job
<1> QED BY <1>2, <1>3, <1>4, GiveUpStep DEF Release

LEMMA CompleteStep ==
    ASSUME IInv, NEW h \in handles, NEW r \in Resolution, Complete(h, r)
    PROVE  IInv'
<1> DEFINE j == h.job
           job == ResolvedJob(jobs[j], r)
<1>1. /\ j \in JobId /\ Pending(j) /\ StoreTypeOK
  BY HolderFacts DEF Complete, IInv, TypeOK
<1>2. jobs[j] \in Job
  BY <1>1 DEF StoreTypeOK, Pending
<1>3. /\ job \in Job /\ job.liveness = "resolved"
      /\ job.resolution # NoResolution
  BY <1>2, StoreAssumption DEF ResolvedJob, Job
<1> HIDE DEF job
<1>4. Put(h.job, job)
  BY DEF Complete, job
<1> QED BY <1>3, <1>4, GiveUpStep DEF Complete

LEMMA CancelUpdateStep ==
    ASSUME IInv, NEW k \in Canceler, NEW j \in JobId, CancelUpdate(k, j)
    PROVE  IInv'
<1> USE DEF IInv
<1> DEFINE c == jobs[j].claim_id
           job == ResolvedJob(jobs[j], Canceled)
<1>1. /\ Pending(j) /\ jobs[j] \in Job /\ Put(j, job)
      /\ promise' = [x \in ClaimId |-> IF x = c THEN 0 ELSE promise[x]]
      /\ UNCHANGED << handles, cancels, ended >>
  BY DEF CancelUpdate, CancelFilter, TypeOK, StoreTypeOK, Pending
<1>2. /\ job \in Job /\ job.liveness = "resolved"
      /\ job.resolution # NoResolution
  BY <1>1, StoreAssumption DEF ResolvedJob, Job
<1> HIDE DEF job
<1>3. /\ StoreTypeOK'
      /\ jobs'[j] = job
      /\ \A i \in JobId \ {j} : jobs'[i] = jobs[i]
  BY <1>1, <1>2, PutTyped DEF TypeOK
<1>4. \A c1 : ~Holds(j, c1)'
  BY <1>2, <1>3 DEF Holds, Pending
<1>5. TypeOK'
  BY <1>1, <1>3 DEF TypeOK
<1>6. LeaseCovered'
  <2>1. \A c1 \in ClaimId \ {c} : promise'[c1] = promise[c1] /\ ~Holds(j, c1)
    BY <1>1 DEF Holds
  <2>2. c \in ClaimId => ~(promise'[c] > 0)
    BY <1>1
  <2> HIDE DEF c
  <2> QED BY <1>3, <2>1, <2>2, CoverStep
<1>7. EndedForGood'
  BY <1>1, <1>3, <1>4, EndedStep
<1>8. PendingMissIsReuse'
  <2>1. \A i \in JobId : Pending(i)' => Pending(i)
    BY <1>1, <1>3 DEF Pending
  <2> QED BY <1>1, <2>1, MissStep
<1> QED BY <1>5, <1>6, <1>7, <1>8

LEMMA CollectStep ==
    ASSUME IInv, NEW j \in JobId, Collect(j)
    PROVE  IInv'
<1> USE DEF IInv
<1>1. /\ Resolved(j) /\ Put(j, Absent)
      /\ UNCHANGED << handles, cancels, promise, ended >>
  BY DEF Collect, Expire, Expirable
<1>2. /\ jobs' \in [JobId -> Job \cup {Absent}]
      /\ jobs'[j] = Absent
      /\ \A i \in JobId \ {j} : jobs'[i] = jobs[i]
  BY <1>1 DEF Put, TypeOK, StoreTypeOK
<1>3. StoreTypeOK'
  <2> SUFFICES ASSUME NEW i \in JobId, jobs'[i] # Absent
               PROVE  jobs'[i].liveness = "resolved"
                        <=> jobs'[i].resolution # NoResolution
    BY <1>2 DEF StoreTypeOK
  <2>1. i # j /\ jobs'[i] = jobs[i]
    BY <1>2
  <2> QED BY <2>1 DEF TypeOK, StoreTypeOK
<1>4. \A c1 : ~Holds(j, c1) /\ ~Holds(j, c1)'
  BY <1>1, <1>2 DEF Holds, Pending, Resolved
<1>5. TypeOK'
  BY <1>1, <1>3 DEF TypeOK
<1>6. LeaseCovered'
  BY <1>1, <1>2, <1>4, CoverStep, StoreAssumption
<1>7. EndedForGood'
  BY <1>1, <1>2, <1>4, EndedStep
<1>8. PendingMissIsReuse'
  <2>1. \A i \in JobId : Pending(i)' => Pending(i)
    BY <1>2 DEF Pending
  <2> QED BY <1>1, <2>1, MissStep
<1> QED BY <1>5, <1>6, <1>7, <1>8

(* Steps that leave the collection alone.                                  *)
LEMMA BookkeepingStep ==
    ASSUME IInv,
           \/ \E h \in handles : LeaseLost(h) \/ Forget(h)
           \/ \E k \in Canceler : CancelGet(k) \/ \E j \in JobId : CancelMiss(k, j)
           \/ UNCHANGED vars
    PROVE  IInv'
<1> USE DEF IInv
<1>1. UNCHANGED << jobs, promise >>
  BY DEF LeaseLost, Forget, CancelMiss, CancelGet, vars
<1>2. TypeOK'
  <2>1. \A j \in JobId : [job |-> j, inserted |-> FALSE] \in Miss
    BY DEF Miss
  <2>2. StoreTypeOK'
    BY <1>1 DEF TypeOK, StoreTypeOK
  <2> QED BY <1>1, <2>1, <2>2
          DEF TypeOK, LeaseLost, Forget, CancelMiss, CancelGet, vars
<1>3. LeaseCovered'
  BY <1>1 DEF LeaseCovered, Holds, Pending
<1>4. EndedForGood'
  <2>1. \A h \in ended' : h \in ended \/ ~Holds(h.job, h.claim)
    BY DEF LeaseLost, Forget, CancelMiss, CancelGet, vars
  <2> QED BY <1>1, <2>1 DEF EndedForGood, Holds, Pending
<1>5. PendingMissIsReuse'
  <2> SUFFICES ASSUME NEW k \in Canceler,
                      cancels'[k] # Idle, Pending(cancels[k].job)'
               PROVE  cancels'[k].inserted
    BY DEF PendingMissIsReuse, Pending
  <2>1. \A j : Pending(j)' <=> Pending(j)
    BY <1>1 DEF Pending
  <2>2. CASE cancels'[k] = cancels[k]
    BY <2>1, <2>2 DEF PendingMissIsReuse, Pending
  <2>3. CASE cancels'[k] # cancels[k]
    <3>1. PICK j \in JobId : CancelMiss(k, j)
      BY <2>3 DEF LeaseLost, Forget, CancelMiss, CancelGet, vars, TypeOK
    <3>2. cancels'[k] = [job |-> j, inserted |-> FALSE] /\ ~Pending(j)
      BY <3>1 DEF CancelMiss, CancelFilter, TypeOK
    <3> QED BY <1>1, <3>2 DEF Pending
  <2> QED BY <2>2, <2>3
<1> QED BY <1>2, <1>3, <1>4, <1>5

LEMMA TickStep ==
    ASSUME IInv, Tick
    PROVE  IInv'
<1> USE DEF IInv
<1>0. NsPerMs \in Nat \ {0}
  BY StoreAssumption
<1>1. ASSUME NEW j \in JobId
      PROVE  /\ jobs'[j] \in Job \cup {Absent}
             /\ jobs'[j] = Absent <=> jobs[j] = Absent
             /\ jobs[j] # Absent =>
                  /\ jobs'[j].liveness = jobs[j].liveness
                  /\ jobs'[j].resolution = jobs[j].resolution
                  /\ jobs'[j].claim_id = jobs[j].claim_id
                  /\ jobs[j].visible_in \in Nat
                  /\ Pending(j) /\ jobs[j].visible_in > 0
                        => jobs'[j].visible_in = jobs[j].visible_in - 1
  <2>1. jobs[j] \in Job \cup {Absent}
    BY DEF TypeOK, StoreTypeOK
  <2>2. CASE Pending(j) /\ jobs[j].visible_in > 0
    <3>1. jobs'[j] = [jobs[j] EXCEPT !.visible_in = @ - 1] /\ jobs[j] \in Job
      BY <2>1, <2>2 DEF Tick, TickJobs, Pending
    <3>2. jobs'[j] \in Job /\ jobs[j].visible_in \in Nat
      BY <2>2, <3>1 DEF Job
    <3> QED BY <3>1, <3>2, AbsentAssumption DEF Job
  <2>3. CASE ~(Pending(j) /\ jobs[j].visible_in > 0)
    <3>1. jobs'[j] = jobs[j]
      BY <2>3 DEF Tick, TickJobs
    <3> QED BY <2>1, <2>3, <3>1 DEF Job
  <2> QED BY <2>2, <2>3
<1>2. \A j \in JobId : \A c : Holds(j, c)' <=> Holds(j, c)
  BY <1>1 DEF Holds, Pending
<1>3. \A j \in JobId : Pending(j)' <=> Pending(j)
  BY <1>1 DEF Pending
<1>4. TypeOK'
  <2>1. jobs' \in [JobId -> Job \cup {Absent}]
    BY <1>1 DEF Tick, TickJobs
  <2>2. StoreTypeOK'
    BY <1>1, <2>1 DEF TypeOK, StoreTypeOK
  <2>3. promise' \in [ClaimId -> Nat]
    BY <1>0 DEF Tick, TypeOK
  <2> QED BY <2>2, <2>3 DEF Tick, TypeOK
<1>5. LeaseCovered'
  <2> SUFFICES ASSUME NEW c \in ClaimId, promise'[c] > 0
               PROVE  \E i \in JobId :
                        /\ Holds(i, c)'
                        /\ promise'[c] <= jobs'[i].visible_in * NsPerMs
    BY DEF LeaseCovered
  <2>1. promise[c] \in Nat /\ promise[c] > NsPerMs
        /\ promise'[c] = promise[c] - NsPerMs
    BY <1>0 DEF Tick, TypeOK
  <2>2. PICK i \in JobId : /\ Holds(i, c)
                           /\ promise[c] <= jobs[i].visible_in * NsPerMs
    BY <1>0, <2>1 DEF LeaseCovered
  <2> DEFINE v == jobs[i].visible_in
  <2>3. v \in Nat /\ Pending(i)
    BY <1>1, <2>2 DEF Holds, Pending
  <2>4. promise[c] <= v * NsPerMs
    BY <2>2
  <2>5. v > 0
    BY <1>0, <2>1, <2>3, <2>4
  <2>6. jobs'[i].visible_in = v - 1
    BY <1>1, <2>3, <2>5 DEF Pending
  <2> HIDE DEF v
  <2>7. (v - 1) * NsPerMs = v * NsPerMs - NsPerMs /\ v * NsPerMs \in Nat
    BY <1>0, <2>3
  <2>8. promise'[c] <= (v - 1) * NsPerMs
    BY <1>0, <2>1, <2>4, <2>7
  <2> QED BY <1>2, <2>2, <2>6, <2>8
<1>6. EndedForGood'
  <2>1. ended' = ended /\ \A h \in ended : h.job \in JobId
    BY DEF Tick, TypeOK, Handle
  <2> QED BY <1>2, <2>1 DEF EndedForGood
<1>7. PendingMissIsReuse'
  BY <1>3, MissStep DEF Tick
<1> QED BY <1>4, <1>5, <1>6, <1>7

LEMMA NextIInv == IInv /\ [Next]_vars => IInv'
<1> SUFFICES ASSUME IInv, [Next]_vars
             PROVE  IInv'
  OBVIOUS
<1>1. ASSUME NEW j \in JobId, NEW t \in Tenant, NEW p \in Partition,
             NEW v \in VStamp, NEW d \in Duration, Insert(j, t, p, v, d)
      PROVE  IInv'
  BY <1>1, InsertStep
<1>2. CASE Dispatch
  BY <1>2, ClaimStep DEF Dispatch
<1>3. CASE Work
  <2>1. ASSUME NEW h \in handles, LeaseLost(h) \/ Forget(h)
        PROVE  IInv'
    BY <2>1, BookkeepingStep
  <2>2. ASSUME NEW h \in handles, NEW d \in Duration, Heartbeat(h, d)
        PROVE  IInv'
    BY <2>2, HeartbeatStep
  <2>3. ASSUME NEW h \in handles, NEW d \in Duration, Release(h, d)
        PROVE  IInv'
    BY <2>3, ReleaseStep
  <2>4. ASSUME NEW h \in handles, NEW r \in Resolution \ {Canceled},
               Complete(h, r)
        PROVE  IInv'
    BY <2>4, CompleteStep
  <2> QED BY <1>3, <2>1, <2>2, <2>3, <2>4 DEF Work
<1>4. ASSUME NEW k \in Canceler, NEW j \in JobId,
             CancelUpdate(k, j) \/ CancelMiss(k, j)
      PROVE  IInv'
  BY <1>4, CancelUpdateStep, BookkeepingStep
<1>5. ASSUME NEW k \in Canceler, CancelGet(k)
      PROVE  IInv'
  BY <1>5, BookkeepingStep
<1>6. ASSUME NEW j \in JobId, Collect(j)
      PROVE  IInv'
  BY <1>6, CollectStep
<1>7. CASE Tick
  BY <1>7, TickStep
<1>8. CASE UNCHANGED vars
  BY <1>8, BookkeepingStep
<1> QED BY <1>1, <1>2, <1>3, <1>4, <1>5, <1>6, <1>7, <1>8 DEF Next

-----------------------------------------------------------------------------

(* The strengthened invariant holds of every behaviour; the theorems on    *)
(* state properties below are read off it.                                 *)
THEOREM Invariance == Spec => []IInv
BY InitIInv, NextIInv, PTL DEF Spec

(* Every record is well formed, and has a resolution exactly if resolved.  *)
THEOREM TypeCorrect == Spec => []TypeOK
<1>1. IInv => TypeOK
  BY DEF IInv
<1> QED BY <1>1, Invariance, PTL

(* No claimer receives a job whose lease is live by the server's clock,    *)
(* whatever the lease and however the calls of its holders, of cancelers   *)
(* and of the TTL monitor interleave (claim.go:44).                        *)
THEOREM LeasesHonoured == Spec => []LeaseHonoured
<1>1. IInv => LeaseHonoured
  <2> SUFFICES ASSUME IInv, NEW c \in ClaimId, promise[c] > 0
               PROVE  \E j \in JobId :
                        /\ Holds(j, c)
                        /\ ~ClaimFilter(j, jobs[j].partition)
    BY DEF LeaseHonoured
  <2>1. NsPerMs \in Nat /\ promise[c] \in Nat
    BY StoreAssumption DEF IInv, TypeOK
  <2>2. PICK j \in JobId : /\ Holds(j, c)
                           /\ promise[c] <= jobs[j].visible_in * NsPerMs
    BY DEF IInv, LeaseCovered
  <2>3. jobs[j].visible_in # 0
    BY <2>1, <2>2
  <2> QED BY <2>2, <2>3 DEF ClaimFilter
<1> QED BY <1>1, Invariance, PTL

(* A handle whose claim is over can never write again.                     *)
THEOREM EndedHandlesStayEnded == Spec => []EndedForGood
<1>1. IInv => EndedForGood
  BY DEF IInv
<1> QED BY <1>1, Invariance, PTL

(* Cancel never answers ErrJobResolved for a job it could have canceled.   *)
THEOREM PendingMissesAreReuse == Spec => []PendingMissIsReuse
<1>1. IInv => PendingMissIsReuse
  BY DEF IInv
<1> QED BY <1>1, Invariance, PTL

(* How one step changes one record, whichever action takes it.             *)
LEMMA RecordStep ==
    ASSUME IInv, Next, NEW j \in JobId, jobs'[j] # jobs[j]
    PROVE  \/ jobs[j] = Absent
           \/ Resolved(j) /\ jobs'[j] = Absent
           \/ Pending(j) /\ \E d \in Duration, c \in ClaimId :
                jobs'[j] \in {Claimed(jobs[j], c, d), Extended(jobs[j], d),
                              ReleasedJob(jobs[j], d)}
           \/ /\ Pending(j) /\ jobs[j].visible_in > 0
              /\ jobs'[j] = [jobs[j] EXCEPT !.visible_in = @ - 1]
           \/ Pending(j) /\ jobs'[j] = ResolvedJob(jobs[j], Canceled)
           \/ /\ Pending(j)
              /\ \E r \in Resolution : jobs'[j] = ResolvedJob(jobs[j], r)
              /\ [job |-> j, claim |-> jobs[j].claim_id] \in ended'
<1> DEFINE Goal ==
           \/ jobs[j] = Absent
           \/ Resolved(j) /\ jobs'[j] = Absent
           \/ Pending(j) /\ \E d \in Duration, c \in ClaimId :
                jobs'[j] \in {Claimed(jobs[j], c, d), Extended(jobs[j], d),
                              ReleasedJob(jobs[j], d)}
           \/ /\ Pending(j) /\ jobs[j].visible_in > 0
              /\ jobs'[j] = [jobs[j] EXCEPT !.visible_in = @ - 1]
           \/ Pending(j) /\ jobs'[j] = ResolvedJob(jobs[j], Canceled)
           \/ /\ Pending(j)
              /\ \E r \in Resolution : jobs'[j] = ResolvedJob(jobs[j], r)
              /\ [job |-> j, claim |-> jobs[j].claim_id] \in ended'
<1>0. ASSUME NEW i, NEW job, Put(i, job)
      PROVE  i = j /\ jobs'[j] = job
  BY <1>0 DEF Put, IInv, TypeOK, StoreTypeOK
<1>1. ASSUME NEW i \in JobId, NEW t \in Tenant, NEW p \in Partition,
             NEW v \in VStamp, NEW d \in Duration, Insert(i, t, p, v, d)
      PROVE  Goal
  BY <1>0, <1>1 DEF Insert, InsertOne
<1>2. CASE Dispatch
  <2>1. PICK p \in Partition, d \in Duration, c \in ClaimId, i \in JobId :
            ClaimOne(p, d, c, i)
    BY <1>2 DEF Dispatch, Claim, ClaimReplyLost
  <2>2. Pending(i) /\ Put(i, Claimed(jobs[i], c, d))
    BY <2>1 DEF ClaimOne, IsFirst, ClaimFilter
  <2> QED BY <1>0, <2>2
<1>3. CASE Work
  <2>1. ASSUME NEW h \in handles, LeaseLost(h) \/ Forget(h)
        PROVE  Goal
    BY <2>1 DEF LeaseLost, Forget
  <2>2. ASSUME NEW h \in handles, NEW d \in Duration,
               Heartbeat(h, d) \/ Release(h, d)
        PROVE  Goal
    <3>1. Pending(h.job) /\ h.claim \in ClaimId
      BY <2>2, HolderFacts DEF Heartbeat, Release
    <3>2. \/ Put(h.job, Extended(jobs[h.job], d))
          \/ Put(h.job, ReleasedJob(jobs[h.job], d))
      BY <2>2 DEF Heartbeat, Release
    <3> QED BY <1>0, <3>1, <3>2
  <2>3. ASSUME NEW h \in handles, NEW r \in Resolution, Complete(h, r)
        PROVE  Goal
    <3>1. /\ Pending(h.job) /\ jobs[h.job].claim_id = h.claim
          /\ h = [job |-> h.job, claim |-> h.claim]
      BY <2>3, HolderFacts DEF Complete
    <3>2. Put(h.job, ResolvedJob(jobs[h.job], r)) /\ h \in ended'
      BY <2>3 DEF Complete
    <3>3. h.job = j /\ jobs'[j] = ResolvedJob(jobs[j], r)
      BY <1>0, <3>2
    <3>4. [job |-> j, claim |-> jobs[j].claim_id] \in ended'
      BY <3>1, <3>2, <3>3
    <3> QED BY <3>1, <3>3, <3>4
  <2> QED BY <1>3, <2>1, <2>2, <2>3 DEF Work
<1>4. ASSUME NEW k \in Canceler, NEW i \in JobId,
             CancelUpdate(k, i) \/ CancelMiss(k, i)
      PROVE  Goal
  BY <1>0, <1>4 DEF CancelUpdate, CancelMiss, CancelFilter
<1>5. ASSUME NEW k \in Canceler, CancelGet(k)
      PROVE  Goal
  BY <1>5 DEF CancelGet
<1>6. ASSUME NEW i \in JobId, Collect(i)
      PROVE  Goal
  BY <1>0, <1>6 DEF Collect, Expire, Expirable
<1>7. CASE Tick
  BY <1>7 DEF Tick, TickJobs
<1> QED BY <1>1, <1>2, <1>3, <1>4, <1>5, <1>6, <1>7 DEF Next

(* Exactly one terminal write wins: no later Complete, Cancel or lease     *)
(* operation changes a resolved record (job.go:22-25).                     *)
THEOREM TerminalWriteIsFinal == Spec => ResolvedIsFinal
<1>1. IInv /\ [Next]_vars
        => [\A j \in JobId : Resolved(j) => jobs'[j] \in {jobs[j], Absent}]_vars
  <2> SUFFICES ASSUME IInv, Next, NEW j \in JobId, Resolved(j),
                      jobs'[j] # jobs[j]
               PROVE  jobs'[j] = Absent
    OBVIOUS
  <2>1. jobs[j] # Absent /\ ~Pending(j)
    BY DEF Resolved, Pending
  <2> QED BY <2>1, RecordStep
<1> QED BY <1>1, Invariance, PTL DEF Spec, ResolvedIsFinal

(* A pending job is never lost, keeps its tenant, partition and stamp, and *)
(* is resolved by Cancel or by the handle whose claim it carries only.     *)
THEOREM JobsAreKept == Spec => OnlyHolderOrCancelResolves
<1> DEFINE Kept(j) ==
        /\ jobs'[j] # Absent
        /\ jobs'[j].tenant = jobs[j].tenant
        /\ jobs'[j].partition = jobs[j].partition
        /\ jobs'[j].vstamp = jobs[j].vstamp
        /\ \/ Pending(j)'
           \/ jobs'[j].resolution = Canceled
           \/ [job |-> j, claim |-> jobs[j].claim_id] \in ended'
<1>1. IInv /\ [Next]_vars => [\A j \in JobId : Pending(j) => Kept(j)]_vars
  <2> SUFFICES ASSUME IInv, Next, NEW j \in JobId, Pending(j)
               PROVE  Kept(j)
    OBVIOUS
  <2>1. jobs[j] \in Job /\ jobs[j].liveness = "pending" /\ ~Resolved(j)
    BY DEF IInv, TypeOK, StoreTypeOK, Pending, Resolved
  <2>2. CASE jobs'[j] = jobs[j]
    BY <2>1, <2>2, AbsentAssumption DEF Pending
  <2>3. ASSUME NEW d \in Duration, NEW c \in ClaimId,
               jobs'[j] \in {Claimed(jobs[j], c, d), Extended(jobs[j], d),
                             ReleasedJob(jobs[j], d)}
        PROVE  Kept(j)
    <3>1. jobs'[j] \in Job
      BY <2>3, RecordTypes, StoreAssumption DEF IInv, TypeOK
    <3>2. /\ jobs'[j].tenant = jobs[j].tenant
          /\ jobs'[j].partition = jobs[j].partition
          /\ jobs'[j].vstamp = jobs[j].vstamp
          /\ jobs'[j].liveness = "pending"
      BY <2>1, <2>3 DEF Claimed, Extended, ReleasedJob, Job
    <3> QED BY <3>1, <3>2, AbsentAssumption DEF Pending
  <2>4. CASE /\ jobs[j].visible_in > 0
             /\ jobs'[j] = [jobs[j] EXCEPT !.visible_in = @ - 1]
    <3>1. /\ jobs'[j].tenant = jobs[j].tenant
          /\ jobs'[j].partition = jobs[j].partition
          /\ jobs'[j].vstamp = jobs[j].vstamp
          /\ jobs'[j].liveness = "pending"
      BY <2>1, <2>4 DEF Job
    <3>2. jobs'[j] \in Job
      BY <2>1, <2>4 DEF Job
    <3> QED BY <3>1, <3>2, AbsentAssumption DEF Pending
  <2>5. ASSUME NEW r \in Resolution, jobs'[j] = ResolvedJob(jobs[j], r)
        PROVE  /\ jobs'[j] # Absent
               /\ jobs'[j].tenant = jobs[j].tenant
               /\ jobs'[j].partition = jobs[j].partition
               /\ jobs'[j].vstamp = jobs[j].vstamp
               /\ jobs'[j].resolution = r
    <3>1. ResolvedJob(jobs[j], r) \in Job
      BY <2>1 DEF ResolvedJob, Job
    <3>2. /\ jobs'[j].tenant = jobs[j].tenant
          /\ jobs'[j].partition = jobs[j].partition
          /\ jobs'[j].vstamp = jobs[j].vstamp
          /\ jobs'[j].resolution = r
      BY <2>1, <2>5 DEF ResolvedJob, Job
    <3> QED BY <2>5, <3>1, <3>2, AbsentAssumption
  <2> QED BY <2>1, <2>2, <2>3, <2>4, <2>5, RecordStep, StoreAssumption
          DEF Pending
<1> QED BY <1>1, Invariance, PTL DEF Spec, OnlyHolderOrCancelResolves

-----------------------------------------------------------------------------

(* No claim id is on two records.                                          *)
ClaimsDiffer ==
    \A i, j \in JobId :
        /\ jobs[i] # Absent /\ jobs[j] # Absent
        /\ jobs[i].claim_id = jobs[j].claim_id
        /\ jobs[i].claim_id # NoClaim
        => i = j

RInv == IInv /\ ClaimsDiffer

(* The stages, case by case.                                               *)
LEMMA StageCases ==
    ASSUME NEW job \in Job \cup {Absent}, NEW left
    PROVE  /\ job = Absent => StageFor(job, left) = Lifecycle!Gone
           /\ job # Absent /\ job.liveness = "resolved" =>
                StageFor(job, left) = Lifecycle!Done(job.resolution)
           /\ job # Absent /\ job.liveness = "pending" /\ job.claim_id = NoClaim =>
                StageFor(job, left) = Lifecycle!Waiting
           /\ job # Absent /\ job.liveness = "pending" /\ job.claim_id # NoClaim =>
                StageFor(job, left) =
                    IF left[job.claim_id] > 0 THEN Lifecycle!Leased(job.claim_id)
                                              ELSE Lifecycle!Lapsed(job.claim_id)
<1>1. job # Absent => job.liveness \in {"pending", "resolved"}
  BY DEF Job
<1>2. CASE job = Absent
  BY <1>2 DEF StageFor, Lifecycle!Gone
<1>3. CASE job # Absent /\ job.liveness = "resolved"
  BY <1>3 DEF StageFor, Lifecycle!Done
<1>4. CASE job # Absent /\ job.liveness = "pending" /\ job.claim_id = NoClaim
  BY <1>4 DEF StageFor, Lifecycle!Waiting
<1>5. CASE job # Absent /\ job.liveness = "pending" /\ job.claim_id # NoClaim
  BY <1>5 DEF StageFor, Lifecycle!Leased, Lifecycle!Lapsed
<1> QED BY <1>1, <1>2, <1>3, <1>4, <1>5

(* A claim counts in the lifecycle exactly if its fence matches.           *)
LEMMA ClaimedIsHeld ==
    ASSUME TypeOK, NEW j \in JobId, NEW c \in ClaimId
    PROVE  Lifecycle!ClaimedBy(j, c) <=> Holds(j, c)
<1> DEFINE stage == StageFor(jobs[j], promise)
<1>1. jobs[j] \in Job \cup {Absent}
  BY DEF TypeOK, StoreTypeOK
<1>2. jobs[j] # Absent => jobs[j].liveness \in {"pending", "resolved"}
  BY <1>1 DEF Job
<1>3. Lifecycle!ClaimedBy(j, c)
        <=> stage \in {Lifecycle!Leased(c), Lifecycle!Lapsed(c)}
  BY DEF Lifecycle!ClaimedBy
<1> USE DEF Lifecycle!Gone, Lifecycle!Waiting, Lifecycle!Leased,
            Lifecycle!Lapsed, Lifecycle!Done
<1>4. CASE jobs[j] = Absent
  BY <1>1, <1>3, <1>4, StageCases DEF Holds, Pending
<1>5. CASE jobs[j] # Absent /\ jobs[j].liveness = "resolved"
  BY <1>1, <1>3, <1>5, StageCases DEF Holds, Pending
<1>6. CASE Pending(j) /\ jobs[j].claim_id = NoClaim
  BY <1>1, <1>3, <1>6, StageCases, StoreAssumption DEF Holds, Pending
<1>7. CASE Pending(j) /\ jobs[j].claim_id # NoClaim
  <2>1. \/ stage = Lifecycle!Leased(jobs[j].claim_id)
        \/ stage = Lifecycle!Lapsed(jobs[j].claim_id)
    BY <1>1, <1>7, StageCases DEF Pending
  <2> HIDE DEF stage
  <2> QED BY <1>3, <1>7, <2>1 DEF Holds, Pending
<1> QED BY <1>2, <1>4, <1>5, <1>6, <1>7 DEF Pending

(* Records that differ only in what the lifecycle leaves out are in the    *)
(* same stage.                                                             *)
LEMMA SameStage ==
    ASSUME NEW job \in Job \cup {Absent}, NEW next \in Job \cup {Absent},
           NEW left, NEW later,
           next = Absent <=> job = Absent,
           job # Absent =>
                /\ next.liveness = job.liveness
                /\ next.resolution = job.resolution
                /\ next.claim_id = job.claim_id
                /\ job.liveness = "pending" /\ job.claim_id # NoClaim =>
                        (later[job.claim_id] > 0 <=> left[job.claim_id] > 0)
    PROVE  StageFor(next, later) = StageFor(job, left)
<1>1. job # Absent => job.liveness \in {"pending", "resolved"}
  BY DEF Job
<1>2. CASE job = Absent
  BY <1>2, StageCases
<1>3. CASE job # Absent /\ job.liveness = "resolved"
  BY <1>3, StageCases
<1>4. CASE job # Absent /\ job.liveness = "pending" /\ job.claim_id = NoClaim
  BY <1>4, StageCases
<1>5. CASE job # Absent /\ job.liveness = "pending" /\ job.claim_id # NoClaim
  BY <1>5, StageCases
<1> QED BY <1>1, <1>2, <1>3, <1>4, <1>5

(* A write to one record, that touches the promise of no claim another     *)
(* record carries, moves that job only.                                    *)
LEMMA MoveOne ==
    ASSUME TypeOK, NEW j \in JobId, NEW c0, NEW stage,
           \A i \in JobId \ {j} : jobs'[i] = jobs[i],
           \A c \in ClaimId \ {c0} : promise'[c] = promise[c],
           \A i \in JobId \ {j} :
                jobs[i] # Absent => jobs[i].claim_id = NoClaim
                                    \/ jobs[i].claim_id # c0,
           StageFor(jobs'[j], promise') = stage
    PROVE  Lifecycle!Move(j, stage)
<1>1. ASSUME NEW i \in JobId \ {j}
      PROVE  StageFor(jobs'[i], promise') = StageFor(jobs[i], promise)
  <2>1. jobs'[i] = jobs[i] /\ jobs[i] \in Job \cup {Absent}
    BY DEF TypeOK, StoreTypeOK
  <2>2. ASSUME jobs[i] # Absent, jobs[i].claim_id # NoClaim
        PROVE  promise'[jobs[i].claim_id] = promise[jobs[i].claim_id]
    <3>1. jobs[i].claim_id \in ClaimId \ {c0}
      BY <2>1, <2>2 DEF Job
    <3> QED BY <3>1
  <2> QED BY <2>1, <2>2, SameStage
<1> DEFINE before == [i \in JobId |-> StageFor(jobs[i], promise)]
           after == [i \in JobId |-> StageFor(jobs'[i], promise')]
<1>2. after = [before EXCEPT ![j] = stage]
  BY <1>1
<1> QED BY <1>2 DEF Lifecycle!Move

(* After a write to one record the claims still differ, if that record     *)
(* carries none, the one it carried, or one that no other carries.         *)
LEMMA ClaimsDifferStep ==
    ASSUME ClaimsDiffer, NEW j \in JobId,
           \A i \in JobId \ {j} : jobs'[i] = jobs[i],
           \/ jobs'[j] = Absent
           \/ jobs'[j].claim_id = NoClaim
           \/ jobs[j] # Absent /\ jobs'[j].claim_id = jobs[j].claim_id
           \/ \A i \in JobId \ {j} :
                jobs[i] # Absent => jobs[i].claim_id # jobs'[j].claim_id
    PROVE  ClaimsDiffer'
<1> SUFFICES ASSUME NEW a \in JobId, NEW b \in JobId,
                    jobs'[a] # Absent, jobs'[b] # Absent,
                    jobs'[a].claim_id = jobs'[b].claim_id,
                    jobs'[a].claim_id # NoClaim
             PROVE  a = b
  BY DEF ClaimsDiffer
<1> QED BY DEF ClaimsDiffer

-----------------------------------------------------------------------------
(* One lemma per action: the move it is, and that claims keep differing.   *)

LEMMA PutOne ==
    ASSUME IInv, NEW j \in JobId, NEW job, Put(j, job)
    PROVE  /\ TypeOK /\ StoreTypeOK
           /\ jobs'[j] = job
           /\ \A i \in JobId \ {j} : jobs'[i] = jobs[i]
           /\ jobs[j] \in Job \cup {Absent}
BY DEF Put, IInv, TypeOK, StoreTypeOK

LEMMA InsertIsSubmit ==
    ASSUME RInv, NEW j \in JobId, NEW t \in Tenant, NEW p \in Partition,
           NEW v \in VStamp, NEW d \in Duration, Insert(j, t, p, v, d)
    PROVE  Lifecycle!Submit(j) /\ ClaimsDiffer'
<1> USE DEF RInv
<1> DEFINE job == NewJob(t, p, v, d)
<1>1. /\ jobs[j] = Absent /\ Put(j, job)
      /\ UNCHANGED << handles, promise >>
  BY DEF Insert, InsertOne
<1>2. /\ job \in Job /\ job.claim_id = NoClaim /\ job.liveness = "pending"
  BY NewJobType, StoreAssumption
<1> HIDE DEF job
<1>3. /\ TypeOK
      /\ jobs'[j] = job
      /\ \A i \in JobId \ {j} : jobs'[i] = jobs[i]
  BY <1>1, PutOne
<1>4. StageFor(jobs[j], promise) = Lifecycle!Gone
  BY <1>1, StageCases
<1>5. StageFor(jobs'[j], promise') = Lifecycle!Waiting
  BY <1>2, <1>3, StageCases, AbsentAssumption
<1>6. Lifecycle!Move(j, Lifecycle!Waiting)
  BY <1>1, <1>3, <1>5, MoveOne
<1>7. ClaimsDiffer'
  BY <1>2, <1>3, ClaimsDifferStep
<1> QED BY <1>1, <1>4, <1>6, <1>7 DEF Lifecycle!Submit

(* A claimable record is visible, so nothing is left of the lease of the   *)
(* claim it may carry: that lease would be covered by this very record.    *)
LEMMA ClaimableIsFree ==
    ASSUME RInv, NEW j \in JobId, Pending(j), jobs[j].visible_in = 0
    PROVE  \/ StageFor(jobs[j], promise) = Lifecycle!Waiting
           \/ \E b \in ClaimId : StageFor(jobs[j], promise) = Lifecycle!Lapsed(b)
<1> USE DEF RInv
<1>1. jobs[j] \in Job /\ jobs[j] # Absent /\ jobs[j].liveness = "pending"
  BY DEF IInv, TypeOK, StoreTypeOK, Pending
<1>2. CASE jobs[j].claim_id = NoClaim
  BY <1>1, <1>2, StageCases
<1>3. CASE jobs[j].claim_id # NoClaim
  <2> DEFINE b == jobs[j].claim_id
  <2>1. b \in ClaimId
    BY <1>1, <1>3 DEF Job
  <2>2. ~(promise[b] > 0)
    <3> SUFFICES ASSUME promise[b] > 0 PROVE FALSE
      OBVIOUS
    <3>1. PICK i \in JobId : /\ Holds(i, b)
                             /\ promise[b] <= jobs[i].visible_in * NsPerMs
      BY <2>1 DEF IInv, LeaseCovered
    <3>2. i = j
      BY <1>1, <1>3, <3>1 DEF ClaimsDiffer, Holds, Pending
    <3>3. promise[b] \in Nat /\ NsPerMs \in Nat
      BY <2>1, StoreAssumption DEF IInv, TypeOK
    <3> QED BY <3>1, <3>2, <3>3
  <2>3. StageFor(jobs[j], promise) = Lifecycle!Lapsed(b)
    BY <1>1, <1>3, <2>2, StageCases
  <2> QED BY <2>1, <2>3
<1> QED BY <1>2, <1>3

LEMMA ClaimIsLease ==
    ASSUME RInv, NEW p \in Partition, NEW lease \in Duration,
           NEW c \in ClaimId, NEW j \in JobId,
           Claim(p, lease, c, j) \/ ClaimReplyLost(p, lease, c, j)
    PROVE  Lifecycle!Lease(j, c) /\ ClaimsDiffer'
<1> USE DEF RInv
<1> DEFINE job == Claimed(jobs[j], c, lease)
<1>1. /\ lease > 0 /\ ~InUse(c) /\ IsFirst(j, p) /\ Put(j, job)
      /\ promise' = [promise EXCEPT ![c] = lease]
      /\ handles' \in {handles, handles \cup {[job |-> j, claim |-> c]}}
  BY DEF Claim, ClaimReplyLost, ClaimOne
<1>2. Pending(j) /\ jobs[j].visible_in = 0
  BY <1>1 DEF IsFirst, ClaimFilter
<1>3. job \in Job /\ jobs[j] \in Job
  BY <1>2, RecordTypes, StoreAssumption DEF IInv, TypeOK
<1>4. job.claim_id = c /\ job.liveness = "pending"
  BY <1>2, <1>3 DEF Claimed, Job, Pending
<1> HIDE DEF job
<1>5. /\ TypeOK
      /\ jobs'[j] = job
      /\ \A i \in JobId \ {j} : jobs'[i] = jobs[i]
  BY <1>1, PutOne
<1>6. \A i \in JobId : jobs[i] # Absent => jobs[i].claim_id # c
  BY <1>1 DEF InUse
<1>7. promise'[c] = lease /\ \A b \in ClaimId \ {c} : promise'[b] = promise[b]
  BY <1>1, <1>5 DEF TypeOK
<1>8. StageFor(jobs'[j], promise') = Lifecycle!Leased(c)
  <2>1. job # Absent /\ job.claim_id # NoClaim
    BY <1>3, <1>4, AbsentAssumption, StoreAssumption
  <2>2. promise'[job.claim_id] > 0
    BY <1>1, <1>4, <1>7
  <2> QED BY <1>3, <1>4, <1>5, <2>1, <2>2, StageCases
<1>9. Lifecycle!Move(j, Lifecycle!Leased(c))
  BY <1>5, <1>6, <1>7, <1>8, MoveOne
<1>10. \A i \in JobId : ~Lifecycle!ClaimedBy(i, c)
  BY <1>5, <1>6, ClaimedIsHeld DEF Holds, Pending
<1>11. ClaimsDiffer'
  BY <1>4, <1>5, <1>6, ClaimsDifferStep
<1> QED BY <1>1, <1>2, <1>9, <1>10, <1>11, ClaimableIsFree
        DEF InUse, Lifecycle!Lease

(* A write through a handle whose fence matches.                           *)
LEMMA HolderMoves ==
    ASSUME RInv, NEW h \in handles, Holds(h.job, h.claim),
           NEW job, Put(h.job, job),
           job.claim_id \in {NoClaim, h.claim},
           NEW left, promise' = [promise EXCEPT ![h.claim] = left],
           NEW stage, StageFor(job, promise') = stage
    PROVE  /\ Lifecycle!Valid(h)
           /\ Lifecycle!Move(h.job, stage)
           /\ ClaimsDiffer'
<1> USE DEF RInv
<1>1. /\ h.job \in JobId /\ h.claim \in ClaimId
      /\ jobs[h.job] # Absent /\ jobs[h.job].claim_id = h.claim
  BY HolderFacts DEF Pending
<1>2. /\ TypeOK
      /\ jobs'[h.job] = job
      /\ \A i \in JobId \ {h.job} : jobs'[i] = jobs[i]
  BY <1>1, PutOne
<1>3. Lifecycle!Valid(h)
  BY <1>1, <1>2, ClaimedIsHeld DEF Lifecycle!Valid
<1>4. \A i \in JobId \ {h.job} : jobs[i] # Absent =>
            jobs[i].claim_id = NoClaim \/ jobs[i].claim_id # h.claim
  BY <1>1 DEF ClaimsDiffer
<1>5. \A c \in ClaimId \ {h.claim} : promise'[c] = promise[c]
  BY <1>2 DEF TypeOK
<1>6. Lifecycle!Move(h.job, stage)
  BY <1>1, <1>2, <1>4, <1>5, MoveOne
<1>7. ClaimsDiffer'
  BY <1>1, <1>2, ClaimsDifferStep
<1> QED BY <1>3, <1>6, <1>7

LEMMA HeartbeatIsRenew ==
    ASSUME RInv, NEW h \in handles, NEW d \in Duration, Heartbeat(h, d)
    PROVE  Lifecycle!Renew(h) /\ ClaimsDiffer'
<1> USE DEF RInv
<1> DEFINE job == Extended(jobs[h.job], d)
<1>1. /\ d > 0 /\ Holds(h.job, h.claim) /\ Put(h.job, job)
      /\ promise' = [promise EXCEPT ![h.claim] = d]
      /\ UNCHANGED handles
  BY DEF Heartbeat
<1>2. /\ h.job \in JobId /\ h.claim \in ClaimId /\ Pending(h.job)
      /\ jobs[h.job].claim_id = h.claim
  BY <1>1, HolderFacts
<1>3. job \in Job /\ jobs[h.job] \in Job
  BY <1>2, RecordTypes, StoreAssumption DEF IInv, TypeOK
<1>4. /\ job # Absent /\ job.liveness = "pending"
      /\ job.claim_id = h.claim /\ h.claim # NoClaim
  BY <1>2, <1>3, AbsentAssumption, StoreAssumption DEF Extended, Job, Pending
<1> HIDE DEF job
<1>5. promise'[h.claim] > 0
  BY <1>1, <1>2 DEF IInv, TypeOK
<1>6. StageFor(job, promise') = Lifecycle!Leased(h.claim)
  BY <1>3, <1>4, <1>5, StageCases
<1> QED BY <1>1, <1>4, <1>6, HolderMoves DEF Lifecycle!Renew

LEMMA ReleaseIsGiveUp ==
    ASSUME RInv, NEW h \in handles, NEW d \in Duration, Release(h, d)
    PROVE  Lifecycle!GiveUp(h) /\ ClaimsDiffer'
<1> USE DEF RInv
<1> DEFINE job == ReleasedJob(jobs[h.job], d)
<1>1. /\ Holds(h.job, h.claim) /\ Put(h.job, job)
      /\ promise' = [promise EXCEPT ![h.claim] = 0]
      /\ UNCHANGED handles
  BY DEF Release
<1>2. h.job \in JobId /\ Pending(h.job)
  BY <1>1, HolderFacts
<1>3. job \in Job /\ jobs[h.job] \in Job
  BY <1>1, <1>2, RecordTypes, StoreAssumption, HolderFacts DEF IInv, TypeOK
<1>4. job # Absent /\ job.liveness = "pending" /\ job.claim_id = NoClaim
  BY <1>2, <1>3, AbsentAssumption DEF ReleasedJob, Job, Pending
<1> HIDE DEF job
<1>5. StageFor(job, promise') = Lifecycle!Waiting
  BY <1>3, <1>4, StageCases
<1> QED BY <1>1, <1>4, <1>5, HolderMoves DEF Lifecycle!GiveUp

(* A resolved record: well formed, and carries the claim it carried.       *)
LEMMA ResolvedFacts ==
    ASSUME IInv, NEW j \in JobId, Pending(j), NEW r \in Resolution, NEW left
    PROVE  /\ ResolvedJob(jobs[j], r).claim_id = jobs[j].claim_id
           /\ StageFor(ResolvedJob(jobs[j], r), left) = Lifecycle!Done(r)
<1> DEFINE job == ResolvedJob(jobs[j], r)
<1>1. jobs[j] \in Job
  BY DEF IInv, TypeOK, StoreTypeOK, Pending
<1>2. /\ job \in Job /\ job.liveness = "resolved" /\ job.resolution = r
      /\ job.claim_id = jobs[j].claim_id
  BY <1>1 DEF ResolvedJob, Job
<1> HIDE DEF job
<1>3. job # Absent
  BY <1>2, AbsentAssumption
<1>4. StageFor(job, left) = Lifecycle!Done(r)
  BY <1>2, <1>3, StageCases
<1> QED BY <1>2, <1>4 DEF job

LEMMA CompleteIsFinish ==
    ASSUME RInv, NEW h \in handles, NEW r \in Resolution, Complete(h, r)
    PROVE  Lifecycle!Finish(h, r) /\ ClaimsDiffer'
<1> USE DEF RInv
<1> DEFINE job == ResolvedJob(jobs[h.job], r)
<1>1. /\ Holds(h.job, h.claim) /\ Put(h.job, job)
      /\ promise' = [promise EXCEPT ![h.claim] = 0]
      /\ UNCHANGED handles
  BY DEF Complete
<1>2. h.job \in JobId /\ Pending(h.job) /\ jobs[h.job].claim_id = h.claim
  BY <1>1, HolderFacts
<1>3. job.claim_id = h.claim /\ StageFor(job, promise') = Lifecycle!Done(r)
  BY <1>2, ResolvedFacts
<1> HIDE DEF job
<1> QED BY <1>1, <1>3, HolderMoves DEF Lifecycle!Finish

LEMMA CancelIsCancel ==
    ASSUME RInv, NEW k \in Canceler, NEW j \in JobId, CancelUpdate(k, j)
    PROVE  Lifecycle!Cancel(j) /\ ClaimsDiffer'
<1> USE DEF RInv
<1> DEFINE c == jobs[j].claim_id
           job == ResolvedJob(jobs[j], Canceled)
<1>1. /\ Pending(j) /\ Put(j, job)
      /\ promise' = [x \in ClaimId |-> IF x = c THEN 0 ELSE promise[x]]
      /\ UNCHANGED handles
  BY DEF CancelUpdate, CancelFilter
<1>2. /\ TypeOK
      /\ jobs'[j] = job
      /\ \A i \in JobId \ {j} : jobs'[i] = jobs[i]
  BY <1>1, PutOne
<1>3. /\ jobs[j] # Absent /\ jobs[j] \in Job /\ jobs[j].liveness = "pending"
      /\ c \in ClaimId \cup {NoClaim}
  BY <1>1, <1>2 DEF TypeOK, StoreTypeOK, Pending, Job
<1>4. job.claim_id = c /\ StageFor(job, promise') = Lifecycle!Done(Canceled)
  BY <1>1, ResolvedFacts, StoreAssumption
<1> HIDE DEF job
<1>5. \A i \in JobId \ {j} :
        jobs[i] # Absent => jobs[i].claim_id = NoClaim \/ jobs[i].claim_id # c
  BY <1>3 DEF ClaimsDiffer
<1>6. \/ StageFor(jobs[j], promise) = Lifecycle!Waiting
      \/ \E x \in ClaimId : Lifecycle!ClaimedBy(j, x)
  <2>1. CASE c = NoClaim
    BY <1>3, <2>1, StageCases
  <2>2. CASE c \in ClaimId
    BY <1>1, <1>2, <2>2, ClaimedIsHeld DEF Holds
  <2> QED BY <1>3, <2>1, <2>2
<1>7. \A x \in ClaimId \ {c} : promise'[x] = promise[x]
  BY <1>1
<1>8. ClaimsDiffer'
  BY <1>2, <1>3, <1>4, ClaimsDifferStep
<1> HIDE DEF c
<1>9. Lifecycle!Move(j, Lifecycle!Done(Canceled))
  BY <1>2, <1>4, <1>5, <1>7, MoveOne
<1> QED BY <1>1, <1>6, <1>8, <1>9 DEF Lifecycle!Cancel

LEMMA CollectIsCollect ==
    ASSUME RInv, NEW j \in JobId, Collect(j)
    PROVE  Lifecycle!Collect(j) /\ ClaimsDiffer'
<1> USE DEF RInv
<1>1. Resolved(j) /\ Put(j, Absent) /\ UNCHANGED << handles, promise >>
  BY DEF Collect, Expire, Expirable
<1>2. /\ TypeOK
      /\ jobs'[j] = Absent
      /\ \A i \in JobId \ {j} : jobs'[i] = jobs[i]
  BY <1>1, PutOne
<1>3. \E r \in Resolution : StageFor(jobs[j], promise) = Lifecycle!Done(r)
  <2>1. /\ jobs[j] \in Job /\ jobs[j] # Absent
        /\ jobs[j].liveness = "resolved" /\ jobs[j].resolution # NoResolution
    BY <1>1, <1>2 DEF Resolved, TypeOK, StoreTypeOK
  <2>2. jobs[j].resolution \in Resolution
    BY <2>1 DEF Job
  <2> QED BY <2>1, <2>2, StageCases
<1>4. StageFor(jobs'[j], promise') = Lifecycle!Gone
  BY <1>2, StageCases
<1>5. Lifecycle!Move(j, Lifecycle!Gone)
  BY <1>1, <1>2, <1>4, MoveOne
<1>6. ClaimsDiffer'
  BY <1>2, ClaimsDifferStep
<1> QED BY <1>1, <1>3, <1>5, <1>6 DEF Lifecycle!Collect

(* A tick changes no more of a record than how long it stays hidden.       *)
LEMMA TickKeepsRecord ==
    ASSUME IInv, Tick, NEW j \in JobId
    PROVE  /\ jobs[j] \in Job \cup {Absent} /\ jobs'[j] \in Job \cup {Absent}
           /\ jobs'[j] = Absent <=> jobs[j] = Absent
           /\ jobs[j] # Absent => /\ jobs'[j].liveness = jobs[j].liveness
                                  /\ jobs'[j].resolution = jobs[j].resolution
                                  /\ jobs'[j].claim_id = jobs[j].claim_id
<1>1. jobs[j] \in Job \cup {Absent}
  BY DEF IInv, TypeOK, StoreTypeOK
<1>2. CASE Pending(j) /\ jobs[j].visible_in > 0
  <2>1. jobs'[j] = [jobs[j] EXCEPT !.visible_in = @ - 1] /\ jobs[j] \in Job
    BY <1>1, <1>2 DEF Tick, TickJobs, Pending
  <2>2. jobs'[j] \in Job
    BY <1>2, <2>1 DEF Job
  <2> QED BY <2>1, <2>2, AbsentAssumption DEF Job
<1>3. CASE ~(Pending(j) /\ jobs[j].visible_in > 0)
  BY <1>1, <1>3 DEF Tick, TickJobs
<1> QED BY <1>2, <1>3

(* The leases a tick ends, of several jobs perhaps.                        *)
Ending == {j \in JobId : /\ Pending(j) /\ jobs[j].claim_id # NoClaim
                         /\ promise[jobs[j].claim_id] > 0
                         /\ ~(promise'[jobs[j].claim_id] > 0)}

LEMMA TickIsLapse ==
    ASSUME RInv, Tick
    PROVE  Lifecycle!Lapse(Ending) /\ ClaimsDiffer'
<1> USE DEF RInv
<1>1. ASSUME NEW j \in Ending
      PROVE  \E c \in ClaimId :
                /\ StageFor(jobs[j], promise) = Lifecycle!Leased(c)
                /\ StageFor(jobs'[j], promise') = Lifecycle!Lapsed(c)
  <2> DEFINE c == jobs[j].claim_id
  <2>1. /\ j \in JobId /\ jobs[j] # Absent /\ jobs[j].liveness = "pending"
        /\ c # NoClaim /\ promise[c] > 0 /\ ~(promise'[c] > 0)
    BY <1>1 DEF Ending, Pending
  <2>2. /\ jobs[j] \in Job /\ jobs'[j] \in Job /\ jobs'[j] # Absent
        /\ jobs'[j].liveness = "pending" /\ jobs'[j].claim_id = c
    BY <2>1, TickKeepsRecord
  <2>3. c \in ClaimId
    BY <2>1, <2>2 DEF Job
  <2>4. StageFor(jobs[j], promise) = Lifecycle!Leased(c)
    BY <2>1, <2>2, StageCases
  <2>5. StageFor(jobs'[j], promise') = Lifecycle!Lapsed(c)
    BY <2>1, <2>2, StageCases
  <2> QED BY <2>3, <2>4, <2>5
<1>2. ASSUME NEW j \in JobId \ Ending
      PROVE  StageFor(jobs'[j], promise') = StageFor(jobs[j], promise)
  <2>1. ASSUME jobs[j] # Absent, jobs[j].liveness = "pending",
               jobs[j].claim_id # NoClaim
        PROVE  promise'[jobs[j].claim_id] > 0 <=> promise[jobs[j].claim_id] > 0
    <3> DEFINE c == jobs[j].claim_id
    <3>1. c \in ClaimId
      BY <2>1, TickKeepsRecord DEF Job
    <3>2. promise[c] > 0 => promise'[c] > 0
      BY <2>1 DEF Ending, Pending
    <3>3. promise'[c] > 0 => promise[c] > 0
      <4>1. /\ NsPerMs \in Nat /\ promise[c] \in Nat
            /\ promise'[c] = IF promise[c] > NsPerMs
                             THEN promise[c] - NsPerMs ELSE 0
        BY <3>1, StoreAssumption DEF Tick, IInv, TypeOK
      <4> HIDE DEF c
      <4> QED BY <4>1
    <3> QED BY <3>2, <3>3
  <2>2. /\ jobs[j] \in Job \cup {Absent} /\ jobs'[j] \in Job \cup {Absent}
        /\ jobs'[j] = Absent <=> jobs[j] = Absent
        /\ jobs[j] # Absent => /\ jobs'[j].liveness = jobs[j].liveness
                               /\ jobs'[j].resolution = jobs[j].resolution
                               /\ jobs'[j].claim_id = jobs[j].claim_id
    BY TickKeepsRecord
  <2> QED BY <2>1, <2>2, SameStage
<1>3. Ending \subseteq JobId
  BY DEF Ending
<1>4. ASSUME NEW j \in Ending
      PROVE  StageFor(jobs'[j], promise')
                = Lifecycle!Lapsed(StageFor(jobs[j], promise).claim)
  <2>1. PICK c \in ClaimId :
            /\ StageFor(jobs[j], promise) = Lifecycle!Leased(c)
            /\ StageFor(jobs'[j], promise') = Lifecycle!Lapsed(c)
    BY <1>1
  <2>2. Lifecycle!Leased(c).claim = c
    BY DEF Lifecycle!Leased
  <2> QED BY <2>1, <2>2
<1>5. Lifecycle!Lapse(Ending)
  BY <1>1, <1>2, <1>3, <1>4 DEF Lifecycle!Lapse, Tick
<1>6. ClaimsDiffer'
  BY TickKeepsRecord DEF ClaimsDiffer
<1> QED BY <1>5, <1>6

-----------------------------------------------------------------------------

LEMMA InitRefines == Init => RInv /\ Lifecycle!LifeInit
<1> SUFFICES ASSUME Init PROVE RInv /\ Lifecycle!LifeInit
  OBVIOUS
<1>1. \A j \in JobId : jobs[j] = Absent
  BY DEF Init, StoreInit
<1>2. RInv
  BY <1>1, InitIInv DEF RInv, ClaimsDiffer
<1>3. \A j \in JobId : StageFor(jobs[j], promise) = Lifecycle!Gone
  BY <1>1, StageCases
<1> QED BY <1>2, <1>3 DEF Lifecycle!LifeInit, Init

(* Every step keeps the invariant and is a move of the lifecycle or none.  *)
LEMMA NextRefines ==
    ASSUME RInv, [Next]_vars
    PROVE  RInv' /\ [Lifecycle!LifeNext]_(Lifecycle!lifeVars)
<1> DEFINE Goal == ClaimsDiffer' /\ [Lifecycle!LifeNext]_(Lifecycle!lifeVars)
<1> SUFFICES Goal
  BY NextIInv DEF RInv
<1> USE DEF Lifecycle!LifeNext
<1>1. ASSUME NEW j \in JobId, NEW t \in Tenant, NEW p \in Partition,
             NEW v \in VStamp, NEW d \in Duration, Insert(j, t, p, v, d)
      PROVE  Goal
  BY <1>1, InsertIsSubmit
<1>2. CASE Dispatch
  BY <1>2, ClaimIsLease DEF Dispatch
<1>3. ASSUME jobs' = jobs, promise' = promise, handles' = handles
      PROVE  Goal
  BY <1>3 DEF RInv, ClaimsDiffer, Lifecycle!lifeVars
<1>4. CASE Work
  <2>1. ASSUME NEW h \in handles, LeaseLost(h)
        PROVE  Goal
    BY <1>3, <2>1 DEF LeaseLost
  <2>2. ASSUME NEW h \in handles, Forget(h)
        PROVE  Goal
    <3>1. Lifecycle!Drop(h)
      BY <2>2 DEF Forget, Lifecycle!Drop
    <3> QED BY <2>2, <3>1 DEF RInv, ClaimsDiffer, Forget
  <2>3. ASSUME NEW h \in handles, NEW d \in Duration, Heartbeat(h, d)
        PROVE  Goal
    BY <2>3, HeartbeatIsRenew
  <2>4. ASSUME NEW h \in handles, NEW d \in Duration, Release(h, d)
        PROVE  Goal
    BY <2>4, ReleaseIsGiveUp
  <2>5. ASSUME NEW h \in handles, NEW r \in Resolution \ {Canceled},
               Complete(h, r)
        PROVE  Goal
    BY <2>5, CompleteIsFinish
  <2> QED BY <1>4, <2>1, <2>2, <2>3, <2>4, <2>5 DEF Work
<1>5. ASSUME NEW k \in Canceler, NEW j \in JobId, CancelUpdate(k, j)
      PROVE  Goal
  BY <1>5, CancelIsCancel
<1>6. ASSUME NEW k \in Canceler, NEW j \in JobId,
             CancelMiss(k, j)
      PROVE  Goal
  BY <1>3, <1>6 DEF CancelMiss
<1>7. ASSUME NEW j \in JobId, Collect(j)
      PROVE  Goal
  BY <1>7, CollectIsCollect
<1>8. CASE Tick
  <2>1. Ending \in SUBSET JobId
    BY DEF Ending
  <2> QED BY <1>8, <2>1, TickIsLapse
<1>9. CASE UNCHANGED vars
  BY <1>3, <1>9 DEF vars
<1>10. ASSUME NEW k \in Canceler, CancelGet(k)
       PROVE  Goal
  BY <1>3, <1>10 DEF CancelGet
<1> HIDE DEF Goal
<1> QED BY <1>1, <1>2, <1>4, <1>5, <1>6, <1>7, <1>8, <1>9, <1>10 DEF Next

(* No two records carry one claim id, in any behaviour.                    *)
THEOREM RInvariance == Spec => []RInv
<1>1. Init => RInv
  BY InitRefines
<1>2. RInv /\ [Next]_vars => RInv'
  BY NextRefines
<1> QED BY <1>1, <1>2, PTL DEF Spec

(* The store's commands, the clock and the workers together implement the  *)
(* lifecycle of a job: no claim counts again once superseded, no live      *)
(* lease is replaced, and a resolved job is never anything else.           *)
THEOREM Implementation == Spec => ImplementsLifecycle
<1>1. Init => Lifecycle!LifeInit
  BY InitRefines
<1>2. RInv /\ [Next]_vars => [Lifecycle!LifeNext]_(Lifecycle!lifeVars)
  BY NextRefines
<1> QED BY <1>1, <1>2, RInvariance, PTL
        DEF Spec, ImplementsLifecycle, Lifecycle!LifeSpec
=============================================================================
