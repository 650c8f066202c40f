------------------------- MODULE FairQueue_proofs -------------------------
(***************************************************************************)
(* The queue of one node, for any number of jobs, timelines, enqueues and  *)
(* reconciles.  That stamps grow along each timeline is not inductive: it  *)
(* rests on where the newest pending stamp is known, in the entry, with    *)
(* the reserve that read it, or with the one that is about to commit it    *)
(* (QueueInv).  Where other writers insert too, the same argument holds of *)
(* the jobs this process has heard of (KnownInv).                          *)
(***************************************************************************)
EXTENDS ForeignInserts, VTimeCache_proofs

(* No pending job of t is stamped beyond v.                                *)
UpTo(t, v) == \A j \in Db!TimelineJobs(t) : jobs[j].vstamp <= v

JobsTyped == jobs \in [JobId -> Db!Job \cup {Absent}]

(* A reserve past its seed works on a seeded entry,                        *)
PastSeed ==
    \A e \in Enqueuer : pc[e] \in StampedPC => entry[ref[e]].seeded

(* carries a trailing edge that is still the edge,                         *)
EdgeHeld ==
    \A e \in Enqueuer : pc[e] = "set" => UpTo(key[e], val[e])

(* then a stamp beyond the clock,                                          *)
StampAhead ==
    \A e \in Enqueuer : pc[e] = "insert" => val[e] > entry[ref[e]].vtime

(* and, when it is stored, the newest stamp of the timeline.               *)
StampIsNewest ==
    \A e \in Enqueuer : pc[e] = "commit" => UpTo(key[e], val[e])

(* A seeded clock in the map is no earlier than any pending job, but for   *)
(* the one a reserve is about to commit.                                   *)
ClockIsNewest ==
    \A t \in Timeline :
        tenants[t] # NoRef /\ entry[tenants[t]].seeded =>
            \/ \E e \in Enqueuer : pc[e] = "commit" /\ key[e] = t
            \/ UpTo(t, entry[tenants[t]].vtime)

QueueInv ==
    /\ JobsTyped
    /\ PastSeed
    /\ EdgeHeld
    /\ StampAhead
    /\ StampIsNewest
    /\ ClockIsNewest

-----------------------------------------------------------------------------
(* What a job looks like to the queries.                                   *)
LEMMA StampsTyped ==
    ASSUME JobsTyped
    PROVE  /\ \A j \in JobId : jobs[j] # Absent =>
                /\ jobs[j].vstamp \in 0 .. MaxInt
                /\ << jobs[j].tenant, jobs[j].partition >> \in Timeline
           /\ \A t : \A j \in Db!TimelineJobs(t) : jobs[j].vstamp \in 0 .. MaxInt
<1>1. \A j \in JobId : jobs[j] # Absent => jobs[j] \in Db!Job
  BY DEF JobsTyped
<1>2. \A j \in JobId : jobs[j] # Absent =>
        /\ jobs[j].vstamp \in 0 .. MaxInt
        /\ jobs[j].tenant \in Tenant /\ jobs[j].partition \in Partition
  BY <1>1 DEF Db!Job
<1> QED BY <1>2 DEF Timeline, Db!TimelineJobs, Db!Pending

(* The trailing edge is a stamp no pending job of the timeline exceeds.    *)
LEMMA EdgeIsNewest ==
    ASSUME JobsTyped, NEW t
    PROVE  Db!Edge(t) \in 0 .. MaxInt /\ UpTo(t, Db!Edge(t))
<1> DEFINE J == Db!TimelineJobs(t)
           S == Db!Stamps(J)
<1>1. S \subseteq 0 .. MaxInt
  BY StampsTyped DEF Db!Stamps
<1>2. CASE J = {}
  BY <1>2, Sentinels DEF Db!Edge, UpTo
<1>3. CASE J # {}
  <2>1. S # {} /\ Db!Edge(t) = Max(S)
    BY <1>3 DEF Db!Stamps, Db!Edge, Db!Max, Max
  <2>2. Max(S) \in 0 .. MaxInt /\ \A y \in S : y <= Max(S)
    BY <1>1, <2>1, ExtremesExist
  <2>3. \A j \in J : jobs[j].vstamp \in S
    BY DEF Db!Stamps
  <2> QED BY <2>1, <2>2, <2>3 DEF UpTo
<1> QED BY <1>2, <1>3

(* So is either answer to the frontier queries.                            *)
LEMMA FrontierTyped ==
    ASSUME JobsTyped, NEW p, NEW J, J \in {Db!Fenced(p), Db!PendingIn(p)}, J # {}
    PROVE  Max(Db!Stamps(J)) \in 0 .. MaxInt /\ Min(Db!Stamps(J)) \in 0 .. MaxInt
<1>1. \A j \in J : jobs[j].vstamp \in 0 .. MaxInt
  BY StampsTyped DEF Db!Fenced, Db!PendingIn, Db!Pending
<1>2. Db!Stamps(J) \subseteq 0 .. MaxInt /\ Db!Stamps(J) # {}
  BY <1>1 DEF Db!Stamps
<1> QED BY <1>2, ExtremesExist

-----------------------------------------------------------------------------
(* What the collection goes through.                                       *)

LEMMA DurationTyped == \A d \in Duration : Db!DurationMillis(d) \in Nat
<1>1. ASSUME NEW d \in Duration
      PROVE  Db!DurationMillis(d) \in Nat
  <2>1. d \in Nat /\ NsPerMs \in Nat \ {0}
    BY QueueAssumption
  <2>2. d \div NsPerMs \in Nat
    BY <2>1, DivisionBounds
  <2> QED BY <2>2 DEF Db!DurationMillis
<1> QED BY <1>1

(* The job is where and what it was: another record of it.                 *)
SameJob(job, new) ==
    /\ new \in Db!Job
    /\ new.tenant = job.tenant
    /\ new.partition = job.partition
    /\ new.vstamp = job.vstamp

LEMMA WritesKeepTheJob ==
    ASSUME NEW job \in Db!Job
    PROVE  /\ \A d \in Duration :
                /\ SameJob(job, Db!Extended(job, d))
                /\ SameJob(job, Db!ReleasedJob(job, d))
                /\ \A c \in ClaimId : SameJob(job, Db!Claimed(job, c, d))
           /\ \A r \in Resolution : SameJob(job, Db!ResolvedJob(job, r))
<1>1. ASSUME NEW d \in Duration
      PROVE  SameJob(job, Db!Extended(job, d)) /\ SameJob(job, Db!ReleasedJob(job, d))
  BY DurationTyped DEF SameJob, Db!Extended, Db!ReleasedJob, Db!Job
<1>2. ASSUME NEW d \in Duration, NEW c \in ClaimId
      PROVE  SameJob(job, Db!Claimed(job, c, d))
  <2> DEFINE n == IF job.attempts < MaxAttempts THEN job.attempts + 1 ELSE job.attempts
  <2>1. job.attempts \in 0 .. MaxAttempts /\ MaxAttempts \in Nat
    BY QueueAssumption DEF Db!Job
  <2>2. n \in 0 .. MaxAttempts
    BY <2>1
  <2>3. Db!Claimed(job, c, d) = [job EXCEPT !.claim_id = c,
                                            !.visible_in = Db!DurationMillis(d),
                                            !.attempts = n]
    BY DEF Db!Claimed
  <2> HIDE DEF n
  <2> QED BY <2>2, <2>3, DurationTyped DEF SameJob, Db!Job
<1>3. ASSUME NEW r \in Resolution
      PROVE  SameJob(job, Db!ResolvedJob(job, r))
  BY DEF SameJob, Db!ResolvedJob, Db!Job
<1> QED BY <1>1, <1>2, <1>3

(* Nothing becomes pending, and what stays pending stays what it is.       *)
NothingArrives ==
    /\ JobsTyped'
    /\ \A j \in JobId :
        /\ jobs[j] = Absent => jobs'[j] = Absent
        /\ Db!Pending(j)' => Db!Pending(j) /\ SameJob(jobs[j], jobs'[j])

LEMMA PutSpares ==
    ASSUME JobsTyped, NEW j \in JobId, Db!Pending(j),
           NEW new, SameJob(jobs[j], new), Db!Put(j, new)
    PROVE  NothingArrives
<1>1. /\ jobs'[j] = new /\ new \in Db!Job
      /\ \A i \in JobId \ {j} : jobs'[i] = jobs[i]
      /\ JobsTyped'
  BY DEF Db!Put, JobsTyped, SameJob
<1>2. \A i \in JobId : jobs[i] # Absent => SameJob(jobs[i], jobs[i])
  BY DEF JobsTyped, SameJob
<1>3. jobs[j] # Absent
  BY DEF Db!Pending
<1>4. \A i \in JobId \ {j} : Db!Pending(i)' => Db!Pending(i) /\ jobs[i] # Absent
  BY <1>1 DEF Db!Pending
<1> QED BY <1>1, <1>2, <1>3, <1>4 DEF NothingArrives

LEMMA StoreSpares ==
    ASSUME JobsTyped, Db!StoreStep
    PROVE  NothingArrives
<1>0. \A j \in JobId : Db!Pending(j) => jobs[j] \in Db!Job
  BY DEF JobsTyped, Db!Pending
<1>1. ASSUME NEW j \in JobId, NEW d \in Duration, Db!Heartbeat(j, d) \/ Db!Release(j, d)
      PROVE  NothingArrives
  BY <1>0, <1>1, WritesKeepTheJob, PutSpares DEF Db!Heartbeat, Db!Release, Db!Held
<1>2. ASSUME NEW j \in JobId, NEW d \in Duration, NEW p \in Partition, NEW c \in ClaimId,
             Db!Claim(j, p, c, d)
      PROVE  NothingArrives
  BY <1>0, <1>2, WritesKeepTheJob, PutSpares DEF Db!Claim, Db!IsFirst, Db!ClaimFilter
<1>3. ASSUME NEW j \in JobId, NEW r \in Resolution, Db!Complete(j, r)
      PROVE  NothingArrives
  BY <1>0, <1>3, WritesKeepTheJob, PutSpares DEF Db!Complete, Db!Held
<1>4. ASSUME NEW j \in JobId, Db!Cancel(j)
      PROVE  NothingArrives
  BY <1>0, <1>4, WritesKeepTheJob, PutSpares, QueueAssumption
  DEF Db!Cancel, Db!CancelFilter
<1>5. ASSUME NEW j \in JobId, Db!Expire(j)
      PROVE  NothingArrives
  <2>1. /\ jobs'[j] = Absent /\ JobsTyped'
        /\ \A i \in JobId \ {j} : jobs'[i] = jobs[i]
    BY <1>5 DEF Db!Expire, Db!Put, JobsTyped
  <2>2. \A i \in JobId : Db!Pending(i) => SameJob(jobs[i], jobs[i])
    BY <1>0 DEF SameJob
  <2>3. \A i \in JobId : Db!Pending(i)' => i # j /\ Db!Pending(i)
    BY <2>1 DEF Db!Pending
  <2> QED BY <2>1, <2>2, <2>3 DEF NothingArrives
<1>6. CASE Db!TickJobs
  <2>1. ASSUME NEW j \in JobId
        PROVE  /\ jobs'[j] \in Db!Job \cup {Absent}
               /\ jobs[j] = Absent => jobs'[j] = Absent
               /\ Db!Pending(j)' => Db!Pending(j) /\ SameJob(jobs[j], jobs'[j])
    <3>1. CASE Db!Pending(j) /\ jobs[j].visible_in > 0
      <4>1. jobs'[j] = [jobs[j] EXCEPT !.visible_in = @ - 1]
        BY <1>6, <3>1 DEF Db!TickJobs
      <4>2. jobs[j] \in Db!Job /\ jobs[j] # Absent /\ jobs[j].visible_in - 1 \in Nat
        BY <1>0, <3>1 DEF Db!Job, Db!Pending
      <4>3. SameJob(jobs[j], jobs'[j])
        BY <4>1, <4>2 DEF SameJob, Db!Job
      <4> QED BY <3>1, <4>2, <4>3 DEF SameJob
    <3>2. CASE ~(Db!Pending(j) /\ jobs[j].visible_in > 0)
      <4>1. jobs'[j] = jobs[j]
        BY <1>6, <3>2 DEF Db!TickJobs
      <4> QED BY <1>0, <4>1 DEF Db!Pending, SameJob, JobsTyped
    <3> QED BY <3>1, <3>2
  <2>2. JobsTyped'
    BY <1>6, <2>1 DEF Db!TickJobs, JobsTyped
  <2> QED BY <2>1, <2>2 DEF NothingArrives
<1> QED BY <1>1, <1>2, <1>3, <1>4, <1>5, <1>6 DEF Db!StoreStep

(* Then no stamp that was the newest is overtaken.                         *)
LEMMA UpToStays ==
    ASSUME NothingArrives, NEW t, NEW v, UpTo(t, v)
    PROVE  UpTo(t, v)'
<1>1. ASSUME NEW j \in Db!TimelineJobs(t)'
      PROVE  j \in Db!TimelineJobs(t) /\ jobs'[j].vstamp = jobs[j].vstamp
  BY <1>1 DEF Db!TimelineJobs, NothingArrives, SameJob
<1> QED BY <1>1 DEF UpTo

LEMMA NothingChanges ==
    ASSUME JobsTyped, UNCHANGED jobs
    PROVE  JobsTyped' /\ \A t, v : UpTo(t, v)' <=> UpTo(t, v)
BY DEF JobsTyped, UpTo, Db!TimelineJobs, Db!Pending

(* An insert adds one job, at the end of its timeline if it is stamped     *)
(* beyond the others.                                                      *)
LEMMA InsertAppends ==
    ASSUME JobsTyped, NEW j \in JobId, NEW t \in Timeline, NEW v \in 0 .. MaxInt,
           NEW d \in Duration, Db!InsertOne(j, t[1], t[2], v, d)
    PROVE  /\ JobsTyped'
           /\ jobs[j] = Absent /\ jobs'[j] # Absent
           /\ jobs'[j].vstamp = v
           /\ << jobs'[j].tenant, jobs'[j].partition >> = t
           /\ \A i \in JobId \ {j} : jobs'[i] = jobs[i]
           /\ \A u : u # t => \A w : UpTo(u, w)' <=> UpTo(u, w)
           /\ \A w \in 0 .. MaxInt : UpTo(t, w) /\ v <= w => UpTo(t, w)'
<1> DEFINE new == Db!NewJob(t[1], t[2], v, d)
<1>1. t[1] \in Tenant /\ t[2] \in Partition /\ t = << t[1], t[2] >>
  BY DEF Timeline
<1>2. /\ new \in Db!Job
      /\ new.tenant = t[1] /\ new.partition = t[2] /\ new.vstamp = v
  <2>1. 0 \in 0 .. MaxAttempts
    BY QueueAssumption
  <2> QED BY <1>1, <2>1, DurationTyped DEF Db!NewJob, Db!Job
<1>3. jobs[j] = Absent /\ jobs' = [jobs EXCEPT ![j] = new]
  BY DEF Db!InsertOne, Db!Put
<1> HIDE DEF new
<1>4. /\ JobsTyped' /\ jobs'[j] = new /\ jobs'[j] # Absent
      /\ \A i \in JobId \ {j} : jobs'[i] = jobs[i]
  BY <1>2, <1>3, QueueAssumption DEF JobsTyped
<1>5. j \notin Db!TimelineJobs(t)
  BY <1>3 DEF Db!TimelineJobs, Db!Pending
<1>6. \A i \in JobId \ {j} : \A u : i \in Db!TimelineJobs(u)' <=> i \in Db!TimelineJobs(u)
  BY <1>4 DEF Db!TimelineJobs, Db!Pending
<1>7. \A u : u # t => j \notin Db!TimelineJobs(u) /\ j \notin Db!TimelineJobs(u)'
  BY <1>1, <1>2, <1>3, <1>4 DEF Db!TimelineJobs, Db!Pending
<1>8. \A u : Db!TimelineJobs(u) \subseteq JobId /\ Db!TimelineJobs(u)' \subseteq JobId
  BY DEF Db!TimelineJobs
<1>9. ASSUME NEW u, u # t, NEW w
      PROVE  UpTo(u, w)' <=> UpTo(u, w)
  BY <1>4, <1>6, <1>7, <1>8, <1>9 DEF UpTo
<1>10. ASSUME NEW w \in 0 .. MaxInt, UpTo(t, w), v <= w
       PROVE  UpTo(t, w)'
  BY <1>2, <1>4, <1>6, <1>8, <1>10 DEF UpTo
<1> QED BY <1>1, <1>2, <1>3, <1>4, <1>9, <1>10

-----------------------------------------------------------------------------
(* An enqueue against the clocks.                                          *)

EnqueueActs(e) ==
    (\E t \in Timeline : Begin(e, t)) \/ EnqueueStep(e) \/ EnqueueAnswered(e)

ReconcileActs(r) == Reconcile(r) \/ ReconcileStep(r) \/ ReconcileAnswered(r)

(* A goroutine of another reserve keeps what it holds.                     *)
LEMMA OthersKeep ==
    ASSUME CacheInv, NEW e \in Enqueuer, EnqueueActs(e),
           NEW f \in Enqueuer \ {e}, Critical(f) \/ Critical(f)'
    PROVE  /\ Critical(f) /\ Critical(f)'
           /\ pc'[f] = pc[f] /\ key'[f] = key[f]
           /\ ref'[f] = ref[f] /\ val'[f] = val[f]
           /\ entry'[ref[f]].seeded = entry[ref[f]].seeded
           /\ entry'[ref[f]].vtime = entry[ref[f]].vtime
           /\ entry'[ref[f]].stale = entry[ref[f]].stale
<1>0. /\ pc'[f] = pc[f] /\ key'[f] = key[f]
      /\ ref'[f] = ref[f] /\ val'[f] = val[f]
  BY EnqueueSpares DEF EnqueueActs, Proc
<1>1. /\ pc'[f] = pc[f] /\ key'[f] = key[f]
      /\ ref'[f] = ref[f] /\ val'[f] = val[f]
      /\ Critical(f) /\ Critical(f)'
  BY <1>0 DEF Critical
<1>2. ref[f] \in Ref /\ entry[ref[f]].holder = f /\ tenants[key[f]] = ref[f]
      /\ key[f] \in Timeline
  BY <1>1 DEF CacheInv, Locks, HoldsItsEntry, DataOK, Proc
<1>3. Critical(e) => ref[e] # ref[f]
  BY <1>2 DEF CacheInv, Locks, HoldsItsEntry
<1>4. CASE Swap(e)
  BY <1>1, <1>2, <1>3, <1>4, SwapEffect
<1>5. CASE SeedSet(e)
  BY <1>1, <1>2, <1>3, <1>5, SeedSetEffect
<1>6. CASE Lookup(e)
  <2>1. entry' = entry \/ \E r \in Ref : /\ Unreachable(r)
                                         /\ entry' = [entry EXCEPT ![r] = NewEntry]
    BY <1>6 DEF Lookup
  <2>2. entry'[ref[f]] = entry[ref[f]]
    BY <1>2, <2>1 DEF Unreachable, CacheInv, DataOK
  <2> QED BY <1>1, <2>2
<1>7. CASE ClocksKept(e)
  <2>1. Commit(e) => Critical(e)
    BY DEF Commit, Critical, CriticalPC, EnqueuePC
  <2> QED BY <1>1, <1>2, <1>3, <1>7, <2>1 DEF ClocksKept
<1> QED BY <1>4, <1>5, <1>6, <1>7, EnqueueEffect DEF EnqueueActs

(* How a reserve comes by what it carries.                                 *)
LEMMA EnqueueCarries ==
    ASSUME CacheInv, NEW e \in Enqueuer, EnqueueActs(e)
    PROVE  /\ pc'[e] = "set" => \E v : EdgeRead(e, v)
           /\ pc'[e] = "stamp" => Swap(e) \/ SeedSet(e)
           /\ pc'[e] = "insert" => \E c \in Cost, w \in Weight : Stamp(e, c, w)
           /\ pc'[e] = "commit" => Inserted(e, TRUE)
           /\ pc[e] = "commit" => Commit(e)
<1> USE DEF Goto, EnqueueActs
<1>1. e \in Proc /\ pc \in [Proc -> EnqueuePC \cup ReconcilePC]
  BY DEF Proc, CacheInv, PcOK
<1>2. CASE \E t \in Timeline : Begin(e, t)
  BY <1>1, <1>2 DEF Begin
<1>3. CASE EnqueueStep(e)
  BY <1>1, <1>3 DEF EnqueueStep, Lookup, Lock, LockEvicted, Touch, Swap, Store,
              SeedSet, Commit, Abort, Leave, Stamp, Overflow, AfterRefresh
<1>4. CASE EnqueueAnswered(e)
  <2>1. CASE \E ok \in BOOLEAN : Inserted(e, ok)
    BY <1>1, <2>1 DEF Inserted
  <2>2. CASE ~\E ok \in BOOLEAN : Inserted(e, ok)
    BY <1>1, <1>4, <2>2 DEF EnqueueAnswered, FrontierFound, EdgeRead, FrontierNone,
              FrontierFails, EdgeFails, Leave, AfterRefresh
  <2> QED BY <2>1, <2>2
<1> QED BY <1>2, <1>3, <1>4

LEMMA CommitSetsClock ==
    ASSUME CacheInv, NEW e \in Enqueuer, Commit(e)
    PROVE  /\ Critical(e) /\ ref[e] \in Ref
           /\ entry'[ref[e]].vtime = val[e]
<1>1. Critical(e)
  BY DEF Commit, Critical, CriticalPC, EnqueuePC
<1>2. ref[e] \in Ref /\ entry[ref[e]] \in Entry /\ entry \in [Ref -> Entry]
  BY <1>1 DEF CacheInv, DataOK, Locks, HoldsItsEntry
<1> DEFINE new == [entry[ref[e]] EXCEPT !.vtime = val[e], !.holder = Free]
<1>3. entry' = [entry EXCEPT ![ref[e]] = new]
  BY DEF Commit, Leave
<1>4. new.vtime = val[e]
  BY <1>2 DEF Entry
<1> HIDE DEF new
<1> QED BY <1>1, <1>2, <1>3, <1>4

(* What no stamp exceeds, no stamp exceeds later values either.            *)
LEMMA UpToGrows ==
    ASSUME JobsTyped, NEW t, NEW v \in Int, NEW w \in Int, UpTo(t, v), v <= w
    PROVE  UpTo(t, w)
<1>1. \A j \in Db!TimelineJobs(t) : jobs[j].vstamp \in Int
  BY StampsTyped
<1> QED BY <1>1 DEF UpTo

LEMMA EntryClocks ==
    ASSUME CacheInv
    PROVE  /\ \A s \in Ref : entry[s].vtime \in 0 .. MaxInt
           /\ \A x \in Proc : val[x] \in 0 .. MaxInt
           /\ \A t \in Timeline : tenants[t] # NoRef => tenants[t] \in Ref
BY DEF CacheInv, DataOK, Entry

(* A seeded clock in the map was there before and stays as it is, unless    *)
(* its own reserve seeds it or commits to it; a mark on it is only cleared *)
(* by making it unseeded.                                                  *)
LEMMA ClockMoves ==
    ASSUME CacheInv, NEW e \in Enqueuer, EnqueueActs(e),
           NEW t \in Timeline, tenants'[t] # NoRef, entry'[tenants'[t]].seeded
    PROVE  /\ tenants'[t] = tenants[t] /\ tenants[t] \in Ref
           /\ entry[tenants[t]].stale => entry'[tenants[t]].stale
           /\ \/ /\ entry[tenants[t]].seeded
                 /\ entry'[tenants[t]].vtime = entry[tenants[t]].vtime
                 /\ pc[e] = "commit" => key[e] # t
              \/ /\ pc[e] = "set" /\ key[e] = t
                 /\ entry'[tenants[t]].vtime >= val[e]
              \/ /\ pc[e] = "commit" /\ key[e] = t
                 /\ entry'[tenants[t]].vtime = val[e]
<1> USE DEF EnqueueActs
<1>0. /\ \A u \in Timeline : tenants[u] # NoRef => tenants[u] \in Ref
      /\ Critical(e) =>
            \A u \in Timeline : tenants[u] = ref[e] <=> u = key[e]
  BY EntryIsOwn DEF CacheInv, DataOK
<1>1. CASE Swap(e)
  BY <1>0, <1>1, SwapEffect
<1>2. CASE SeedSet(e)
  <2>1. CASE tenants[t] = ref[e]
    BY <1>0, <1>2, <2>1, SeedSetEffect
  <2>2. CASE tenants[t] # ref[e]
    BY <1>0, <1>2, <2>2, SeedSetEffect
  <2> QED BY <2>1, <2>2
<1>3. CASE Lookup(e)
  <2>1. CASE UNCHANGED << tenants, entry >>
    BY <1>0, <1>3, <2>1 DEF Lookup
  <2>2. CASE \E r \in Ref : /\ Unreachable(r)
                            /\ tenants' = [tenants EXCEPT ![key[e]] = r]
                            /\ entry' = [entry EXCEPT ![r] = NewEntry]
    <3>1. PICK r \in Ref : /\ Unreachable(r)
                           /\ tenants' = [tenants EXCEPT ![key[e]] = r]
                           /\ entry' = [entry EXCEPT ![r] = NewEntry]
      BY <2>2
    <3>2. ~entry'[r].seeded /\ \A s \in Ref \ {r} : entry'[s] = entry[s]
      BY <3>1 DEF CacheInv, DataOK, NewEntry
    <3>3. t # key[e] /\ tenants'[t] = tenants[t] /\ tenants[t] # r
      BY <3>1, <3>2 DEF CacheInv, DataOK, Unreachable, Proc
    <3>4. pc[e] # "commit"
      BY <1>3 DEF Lookup
    <3> QED BY <1>0, <3>2, <3>3, <3>4
  <2> QED BY <1>3, <2>1, <2>2 DEF Lookup
<1>4. CASE ClocksKept(e)
  <2>1. tenants'[t] = tenants[t] /\ tenants[t] \in Ref
    BY <1>0, <1>4 DEF ClocksKept
  <2>2. entry[tenants[t]].seeded /\ entry'[tenants[t]].stale = entry[tenants[t]].stale
    BY <1>4, <2>1 DEF ClocksKept
  <2>3. CASE pc[e] = "commit" /\ key[e] = t
    <3>1. Commit(e) /\ Critical(e)
      BY <2>3, EnqueueCarries, CommitSetsClock
    <3>2. tenants[t] = ref[e]
      BY <1>0, <2>3, <3>1
    <3> QED BY <2>1, <2>2, <2>3, <3>1, <3>2, CommitSetsClock
  <2>4. CASE ~(pc[e] = "commit" /\ key[e] = t)
    <3>1. ~(Commit(e) /\ tenants[t] = ref[e])
      BY <1>0, <2>4, CommitSetsClock DEF Commit
    <3> QED BY <1>4, <2>1, <2>2, <2>4, <3>1 DEF ClocksKept
  <2> QED BY <2>3, <2>4
<1> QED BY <1>1, <1>2, <1>3, <1>4, EnqueueEffect

(* The clock of a stamped reserve is up to date until its own insert.      *)
LEMMA OwnClockIsNewest ==
    ASSUME CacheInv, QueueInv, NEW e \in Enqueuer,
           pc[e] \in StampedPC, pc[e] # "commit"
    PROVE  UpTo(key[e], entry[ref[e]].vtime)
<1>1. Critical(e)
  BY DEF StampedPC, Critical, CriticalPC, EnqueuePC
<1>2. key[e] \in Timeline /\ ref[e] \in Ref /\ tenants[key[e]] = ref[e]
  BY <1>1 DEF CacheInv, DataOK, Proc, Locks, HoldsItsEntry
<1>3. entry[ref[e]].seeded
  BY DEF QueueInv, PastSeed
<1>4. ASSUME NEW f \in Enqueuer, pc[f] = "commit", key[f] = key[e]
      PROVE  FALSE
  <2>1. Critical(f)
    BY <1>4 DEF Critical, CriticalPC, EnqueuePC
  <2> QED BY <1>1, <1>4, <2>1, InvImpliesOneWriter DEF OneWriter
<1> QED BY <1>2, <1>3, <1>4, Sentinels DEF QueueInv, ClockIsNewest

(* What a reserve carries stays right, whatever happens to the jobs.       *)
LEMMA EnqueueKeepsReserves ==
    ASSUME CacheInv, PastSeed, StampAhead, NEW e \in Enqueuer, EnqueueActs(e)
    PROVE  PastSeed' /\ StampAhead'
<1> USE DEF CriticalPC, EnqueuePC, StampedPC
<1>1. PastSeed'
  <2>1. ASSUME NEW f \in Enqueuer, pc'[f] \in StampedPC
        PROVE  entry'[ref'[f]].seeded
    <3>1. CASE f # e
      <4>1. Critical(f)'
        BY <2>1 DEF Critical
      <4> QED BY OthersKeep, <2>1, <3>1, <4>1 DEF PastSeed
    <3>2. CASE f = e /\ Swap(e)
      <4>1. ref' = ref /\ pc'[e] = "stamp"
        BY <2>1, <3>2 DEF Swap, Goto, CacheInv, PcOK, Proc
      <4> QED BY <3>2, <4>1, SwapEffect
    <3>3. CASE f = e /\ SeedSet(e)
      BY <3>3, SeedSetEffect DEF SeedSet
    <3>4. CASE f = e /\ ~Swap(e) /\ ~SeedSet(e)
      <4>1. pc[e] \in StampedPC
        BY <2>1, <3>4, EnqueueMoves DEF EnqueueActs
      <4>2. Critical(e) /\ Critical(e)' /\ ~Lookup(e)
        BY <2>1, <3>4, <4>1 DEF Critical, Lookup
      <4>3. ref'[e] = ref[e] /\ ref[e] \in Ref /\ ClocksKept(e)
        BY <3>4, <4>2, EnqueueMoves, EnqueueEffect
        DEF EnqueueActs, CacheInv, Locks, HoldsItsEntry
      <4> QED BY <3>4, <4>1, <4>3 DEF PastSeed, ClocksKept
    <3> QED BY <3>1, <3>2, <3>3, <3>4
  <2> QED BY <2>1 DEF PastSeed
<1>2. StampAhead'
  <2>1. ASSUME NEW f \in Enqueuer, pc'[f] = "insert"
        PROVE  val'[f] > entry'[ref'[f]].vtime
    <3>1. CASE f # e
      <4>1. Critical(f)'
        BY <2>1 DEF Critical
      <4> QED BY OthersKeep, <2>1, <3>1, <4>1 DEF StampAhead
    <3>2. CASE f = e
      <4>1. PICK c \in Cost, w \in Weight : Stamp(e, c, w)
        BY <2>1, <3>2, EnqueueCarries
      <4>2. Critical(e) /\ ref[e] \in Ref /\ val \in [Proc -> 0 .. MaxInt] /\ e \in Proc
        BY <4>1 DEF Stamp, Critical, CacheInv, Locks, HoldsItsEntry, DataOK, Proc
      <4>3. entry[ref[e]].vtime \in 0 .. MaxInt
        BY <4>2, EntryClocks
      <4> QED BY <3>2, <4>1, <4>2, <4>3, StampAdvances DEF Stamp
    <3> QED BY <3>1, <3>2
  <2> QED BY <2>1 DEF StampAhead
<1> QED BY <1>1, <1>2

(* A reconcile leaves a clock that stays in the map as it is, and marks at *)
(* most; so it does the clock of a reserve.                                *)
LEMMA ReconcileClocks ==
    ASSUME CacheInv, NEW r \in Reconciler, ReconcileActs(r)
    PROVE  /\ ref' = ref
           /\ \A f \in Enqueuer :
                pc'[f] = pc[f] /\ key'[f] = key[f] /\ val'[f] = val[f]
           /\ \A t \in Timeline : tenants'[t] # NoRef =>
                /\ tenants'[t] = tenants[t]
                /\ entry'[tenants[t]].seeded = entry[tenants[t]].seeded
                /\ entry'[tenants[t]].vtime = entry[tenants[t]].vtime
                /\ entry[tenants[t]].stale => entry'[tenants[t]].stale
           /\ \A f \in Enqueuer : Critical(f) =>
                /\ tenants'[key[f]] = tenants[key[f]]
                /\ entry'[ref[f]].seeded = entry[ref[f]].seeded
                /\ entry'[ref[f]].vtime = entry[ref[f]].vtime
                /\ entry[ref[f]].stale => entry'[ref[f]].stale
<1>1. /\ ref' = ref
      /\ \A f \in Enqueuer : pc'[f] = pc[f] /\ key'[f] = key[f] /\ val'[f] = val[f]
  BY ReconcileSpares DEF ReconcileActs
<1>2. /\ \A t \in Timeline : tenants[t] # NoRef => tenants[t] \in Ref
      /\ \A f \in Enqueuer : Critical(f) =>
            /\ key[f] \in Timeline /\ tenants[key[f]] = ref[f]
            /\ ref[f] \in Ref /\ entry[ref[f]].holder # Free
  BY EntryIsOwn, Sentinels DEF CacheInv, DataOK, Locks, HoldsItsEntry
<1>3. CASE MarksOnly
  BY <1>1, <1>2, <1>3 DEF MarksOnly
<1>4. CASE WalkEvict(r)
  <2> DEFINE s == tenants[key[r]]
  <2>1. /\ entry[s].holder = Free /\ tenants'[key[r]] = NoRef
        /\ \A q \in Ref \ {s} : entry'[q] = entry[q]
        /\ \A t \in Timeline \ {key[r]} : /\ tenants'[t] = tenants[t]
                                          /\ tenants[t] # NoRef => tenants[t] # s
    BY <1>4, EvictEffect
  <2>2. \A f \in Enqueuer : Critical(f) => ref[f] # s /\ key[f] # key[r]
    BY <1>2, <2>1
  <2> HIDE DEF s
  <2> QED BY <1>1, <1>2, <2>1, <2>2
<1> QED BY <1>3, <1>4, ReconcileEffect DEF ReconcileActs

LEMMA ReconcileKeepsReserves ==
    ASSUME CacheInv, PastSeed, StampAhead, NEW r \in Reconciler, ReconcileActs(r)
    PROVE  PastSeed' /\ StampAhead'
BY ReconcileClocks DEF PastSeed, StampAhead, Critical, CriticalPC, EnqueuePC, StampedPC

-----------------------------------------------------------------------------
(* The invariant is kept, by an enqueue that inserts nothing,              *)
LEMMA EnqueueKeepsQueue ==
    ASSUME CacheInv, QueueInv, NEW e \in Enqueuer, EnqueueActs(e), UNCHANGED jobs,
           ~Inserted(e, TRUE),
           pc'[e] = "set" => val'[e] = Db!Edge(key[e])
    PROVE  QueueInv'
<1> USE DEF CriticalPC, EnqueuePC, StampedPC
<1>1. JobsTyped' /\ \A t, v : UpTo(t, v)' <=> UpTo(t, v)
  BY NothingChanges DEF QueueInv
<1>2. \A f \in Enqueuer \ {e} :
        Critical(f) \/ Critical(f)' =>
            /\ pc'[f] = pc[f] /\ key'[f] = key[f]
            /\ ref'[f] = ref[f] /\ val'[f] = val[f]
  BY OthersKeep
<1>3. pc'[e] # "commit"
  BY EnqueueCarries
<1>4. PastSeed' /\ StampAhead'
  BY EnqueueKeepsReserves DEF QueueInv
<1>5. EdgeHeld'
  <2>1. ASSUME NEW f \in Enqueuer, pc'[f] = "set"
        PROVE  UpTo(key'[f], val'[f])
    <3>1. CASE f # e
      <4>1. Critical(f)'
        BY <2>1 DEF Critical
      <4> QED BY <1>2, <2>1, <3>1, <4>1 DEF QueueInv, EdgeHeld
    <3>2. CASE f = e
      <4>1. key' = key /\ val'[e] = Db!Edge(key[e])
        BY <2>1, <3>2, EnqueueCarries DEF EdgeRead
      <4> QED BY <3>2, <4>1, EdgeIsNewest DEF QueueInv
    <3> QED BY <3>1, <3>2
  <2> QED BY <1>1, <2>1 DEF EdgeHeld
<1>6. StampIsNewest'
  <2>1. ASSUME NEW f \in Enqueuer, pc'[f] = "commit"
        PROVE  UpTo(key'[f], val'[f])
    <3>1. f # e /\ Critical(f)'
      BY <1>3, <2>1 DEF Critical
    <3> QED BY <1>2, <2>1, <3>1 DEF QueueInv, StampIsNewest
  <2> QED BY <1>1, <2>1 DEF StampIsNewest
<1>7. ClockIsNewest'
  <2>1. ASSUME NEW t \in Timeline, tenants'[t] # NoRef, entry'[tenants'[t]].seeded,
               ~\E f \in Enqueuer : pc'[f] = "commit" /\ key'[f] = t
        PROVE  UpTo(t, entry'[tenants'[t]].vtime)
    <3> DEFINE clock == entry[tenants[t]].vtime
               clock1 == entry'[tenants[t]].vtime
    <3>1. ASSUME NEW f \in Enqueuer, pc[f] = "commit", key[f] = t
          PROVE  f = e
      <4>1. Critical(f)
        BY <3>1 DEF Critical
      <4> QED BY <1>2, <2>1, <3>1, <4>1
    <3>2. tenants'[t] = tenants[t] /\ tenants[t] # NoRef
      BY <2>1, ClockMoves, Sentinels
    <3>3. CASE /\ entry[tenants[t]].seeded /\ clock1 = clock
               /\ pc[e] = "commit" => key[e] # t
      BY <3>1, <3>2, <3>3 DEF QueueInv, ClockIsNewest
    <3>4. CASE pc[e] = "set" /\ key[e] = t /\ clock1 >= val[e]
      <4>1. UpTo(t, val[e])
        BY <3>4 DEF QueueInv, EdgeHeld
      <4>2. val[e] \in Int /\ clock1 \in Int
        <5>1. CacheInv'
          BY EnqueueInv DEF EnqueueActs
        <5>2. clock1 \in 0 .. MaxInt
          BY <2>1, <3>2, <5>1 DEF CacheInv, DataOK, Entry
        <5> QED BY <5>2, EntryClocks, Sentinels DEF Proc
      <4> QED BY <3>2, <3>4, <4>1, <4>2, UpToGrows DEF QueueInv
    <3>5. CASE pc[e] = "commit" /\ key[e] = t /\ clock1 = val[e]
      BY <3>2, <3>5 DEF QueueInv, StampIsNewest
    <3> QED BY <2>1, <3>3, <3>4, <3>5, ClockMoves
  <2> QED BY <1>1, <2>1 DEF ClockIsNewest
<1> QED BY <1>1, <1>4, <1>5, <1>6, <1>7 DEF QueueInv

(* by an insert that was stored,                                           *)
LEMMA InsertKeepsQueue ==
    ASSUME CacheInv, QueueInv, NEW e \in Enqueuer, Inserted(e, TRUE),
           NEW j \in JobId, NEW d \in Duration,
           Db!InsertOne(j, key[e][1], key[e][2], val[e], d)
    PROVE  /\ QueueInv'
           /\ jobs[j] = Absent
           /\ << jobs'[j].tenant, jobs'[j].partition >> = key[e]
           /\ jobs'[j].vstamp = val[e]
           /\ \A i \in JobId \ {j} : jobs'[i] = jobs[i]
           /\ \A i \in Db!TimelineJobs(key[e]) : jobs[i].vstamp < val[e]
<1> USE DEF CriticalPC, EnqueuePC, StampedPC
<1>1. /\ pc[e] = "insert" /\ pc'[e] = "commit"
      /\ \A f \in Enqueuer \ {e} : pc'[f] = pc[f]
      /\ UNCHANGED << tenants, entry, key, ref, val >>
  BY DEF Inserted, Goto, CacheInv, PcOK, Proc
<1>2. /\ Critical(e) /\ key[e] \in Timeline /\ ref[e] \in Ref
      /\ val[e] \in 0 .. MaxInt /\ val[e] \in Int
      /\ tenants[key[e]] = ref[e]
      /\ entry[ref[e]].vtime \in 0 .. MaxInt /\ entry[ref[e]].vtime \in Int
      /\ JobsTyped
  BY <1>1, Sentinels DEF Critical, CacheInv, DataOK, Proc, Locks, HoldsItsEntry,
                         Entry, QueueInv
<1>3. /\ JobsTyped'
      /\ jobs[j] = Absent
      /\ jobs'[j].vstamp = val[e]
      /\ << jobs'[j].tenant, jobs'[j].partition >> = key[e]
      /\ \A i \in JobId \ {j} : jobs'[i] = jobs[i]
      /\ \A u : u # key[e] => \A w : UpTo(u, w)' <=> UpTo(u, w)
      /\ \A w \in 0 .. MaxInt : UpTo(key[e], w) /\ val[e] <= w => UpTo(key[e], w)'
  <2>1. PICK t \in Timeline : t = key[e]
    BY <1>2
  <2>2. /\ JobsTyped'
        /\ jobs[j] = Absent
        /\ jobs'[j].vstamp = val[e]
        /\ << jobs'[j].tenant, jobs'[j].partition >> = t
        /\ \A i \in JobId \ {j} : jobs'[i] = jobs[i]
        /\ \A u : u # t => \A w : UpTo(u, w)' <=> UpTo(u, w)
        /\ \A w \in 0 .. MaxInt : UpTo(t, w) /\ val[e] <= w => UpTo(t, w)'
    BY <1>2, <2>1, InsertAppends
  <2> QED BY <1>1, <2>1, <2>2
<1>4. UpTo(key[e], entry[ref[e]].vtime) /\ entry[ref[e]].vtime < val[e]
  BY <1>1, <1>2, OwnClockIsNewest DEF QueueInv, StampAhead
<1>5. UpTo(key[e], val[e])'
  <2>1. UpTo(key[e], val[e])
    BY <1>2, <1>4, UpToGrows
  <2> QED BY <1>1, <1>2, <1>3, <2>1
(* Nobody else is at work on this timeline.                                *)
<1>6. \A f \in Enqueuer \ {e} : Critical(f) => key[f] # key[e]
  BY <1>2, InvImpliesOneWriter DEF OneWriter
<1>7. PastSeed'
  BY <1>1 DEF QueueInv, PastSeed
<1>8. EdgeHeld'
  <2>1. ASSUME NEW f \in Enqueuer, pc'[f] = "set"
        PROVE  UpTo(key[f], val[f])'
    <3>1. f # e /\ pc[f] = "set" /\ key[f] # key[e]
      BY <1>1, <1>6, <2>1 DEF Critical
    <3> QED BY <1>1, <1>3, <3>1 DEF QueueInv, EdgeHeld
  <2> QED BY <2>1 DEF EdgeHeld
<1>9. StampAhead'
  BY <1>1 DEF QueueInv, StampAhead
<1>10. StampIsNewest'
  <2>1. ASSUME NEW f \in Enqueuer, pc'[f] = "commit", f # e
        PROVE  UpTo(key[f], val[f])'
    <3>1. pc[f] = "commit" /\ key[f] # key[e]
      BY <1>1, <1>6, <2>1 DEF Critical
    <3> QED BY <1>1, <1>3, <3>1 DEF QueueInv, StampIsNewest
  <2> QED BY <1>5, <2>1 DEF StampIsNewest
<1>11. ClockIsNewest'
  <2>1. ASSUME NEW t \in Timeline, tenants[t] # NoRef, entry[tenants[t]].seeded, t # key[e]
        PROVE  \/ \E f \in Enqueuer : pc'[f] = "commit" /\ key[f] = t
               \/ UpTo(t, entry[tenants[t]].vtime)'
    <3>1. CASE \E f \in Enqueuer : pc[f] = "commit" /\ key[f] = t
      BY <1>1, <3>1
    <3>2. CASE UpTo(t, entry[tenants[t]].vtime)
      BY <1>1, <1>3, <2>1, <3>2
    <3> QED BY <2>1, <3>1, <3>2 DEF QueueInv, ClockIsNewest
  <2> QED BY <1>1, <2>1 DEF ClockIsNewest
<1>12. \A i \in Db!TimelineJobs(key[e]) : jobs[i].vstamp < val[e]
  <2>1. \A i \in Db!TimelineJobs(key[e]) : jobs[i].vstamp \in Int
    BY <1>2, StampsTyped
  <2> QED BY <1>2, <1>4, <2>1 DEF UpTo
<1> QED BY <1>3, <1>7, <1>8, <1>9, <1>10, <1>11, <1>12 DEF QueueInv

(* and by a reconcile, whatever it does to the entries in the map.         *)
LEMMA ReconcileKeepsQueue ==
    ASSUME CacheInv, QueueInv, NEW r \in Reconciler, ReconcileActs(r), UNCHANGED jobs
    PROVE  QueueInv'
<1>1. JobsTyped' /\ \A t, v : UpTo(t, v)' <=> UpTo(t, v)
  BY NothingChanges DEF QueueInv
<1>2. PastSeed' /\ StampAhead'
  BY ReconcileKeepsReserves DEF QueueInv
<1>3. EdgeHeld' /\ StampIsNewest'
  BY <1>1, ReconcileClocks DEF QueueInv, EdgeHeld, StampIsNewest
<1>4. ClockIsNewest'
  BY <1>1, ReconcileClocks DEF QueueInv, ClockIsNewest
<1> QED BY <1>1, <1>2, <1>3, <1>4 DEF QueueInv

(* The other clients of the collection make no job pending.                *)
LEMMA StoreKeepsQueue ==
    ASSUME QueueInv, NothingArrives, UNCHANGED cacheVars
    PROVE  QueueInv'
<1>1. \A t, v : UpTo(t, v) => UpTo(t, v)'
  BY UpToStays
<1>2. JobsTyped'
  BY DEF NothingArrives
<1>3. PastSeed' /\ StampAhead'
  BY DEF QueueInv, PastSeed, StampAhead, cacheVars
<1>4. EdgeHeld' /\ StampIsNewest'
  BY <1>1 DEF QueueInv, EdgeHeld, StampIsNewest, cacheVars
<1>5. ClockIsNewest'
  BY <1>1 DEF QueueInv, ClockIsNewest, cacheVars
<1> QED BY <1>2, <1>3, <1>4, <1>5 DEF QueueInv

LEMMA RestartKeepsQueue ==
    ASSUME QueueInv, CacheRestart, UNCHANGED jobs
    PROVE  QueueInv'
BY DEF CacheRestart, QueueInv, JobsTyped, PastSeed, EdgeHeld, StampAhead, StampIsNewest,
       ClockIsNewest, StampedPC, Proc

-----------------------------------------------------------------------------
(* Every step of the queue is one of these.                                *)

(* An enqueue's, with nothing stored by it, a seed's edge being the real   *)
(* one,                                                                    *)
EnqueueOnly(e) ==
    /\ EnqueueActs(e)
    /\ UNCHANGED jobs
    /\ ~Inserted(e, TRUE)
    /\ pc'[e] = "set" => val'[e] = Db!Edge(key[e])

(* a stored insert, its caller told so,                                    *)
StoredInsert(e, j, d) ==
    /\ Inserted(e, TRUE)
    /\ Db!InsertOne(j, key[e][1], key[e][2], val[e], d)

(* a reconcile's, or one that leaves the cache alone.                      *)
LEMMA StepCases ==
    ASSUME CacheInv, JobsTyped, Step
    PROVE  \/ \E e \in Enqueuer : EnqueueOnly(e)
           \/ \E e \in Enqueuer, j \in JobId, d \in Duration : StoredInsert(e, j, d)
           \/ \E r \in Reconciler : ReconcileActs(r) /\ UNCHANGED jobs
           \/ UNCHANGED << cacheVars, jobs >>
           \/ UNCHANGED cacheVars /\ NothingArrives
<1>0. pc \in [Proc -> EnqueuePC \cup ReconcilePC] /\ \A e \in Enqueuer : e \in Proc
  BY DEF CacheInv, PcOK, Proc
<1>1. ASSUME NEW e \in Enqueuer, EnqueueActs(e), UNCHANGED jobs,
             pc[e] # "insert", pc[e] # "edge"
      PROVE  EnqueueOnly(e)
  BY <1>1, EnqueueCarries DEF EnqueueOnly, Inserted, EdgeRead
<1>2. CASE CacheStep
  <2>1. ASSUME NEW e \in Enqueuer,
               (\E t \in Timeline : Begin(e, t)) \/ EnqueueStep(e)
        PROVE  pc[e] # "insert" /\ pc[e] # "edge"
    BY <2>1 DEF Begin, EnqueueStep, Lookup, Lock, LockEvicted, Touch, Swap, Store,
                SeedSet, Commit, Abort, Stamp, Overflow
  <2> QED BY <1>1, <1>2, <2>1 DEF CacheStep, EnqueueActs, ReconcileActs
(* The frontier queries answer with a stamp.                               *)
<1>3. ASSUME NEW x \in Proc, NEW v \in 0 .. MaxInt,
             FrontierFound(x, v) \/ FrontierNone(x), UNCHANGED jobs
      PROVE  \/ \E e \in Enqueuer : EnqueueOnly(e)
             \/ \E r \in Reconciler : ReconcileActs(r) /\ UNCHANGED jobs
  <2>1. pc[x] = "frontier"
    BY <1>3 DEF FrontierFound, FrontierNone
  <2>2. CASE x \in Enqueuer
    BY <1>1, <1>3, <2>1, <2>2 DEF EnqueueActs, EnqueueAnswered
  <2>3. CASE x \in Reconciler
    BY <1>3, <2>3 DEF ReconcileActs, ReconcileAnswered
  <2> QED BY <2>2, <2>3 DEF Proc
<1>4. ASSUME NEW x \in Proc, ClockQuery(x)
      PROVE  \/ \E e \in Enqueuer : EnqueueOnly(e)
             \/ \E r \in Reconciler : ReconcileActs(r) /\ UNCHANGED jobs
             \/ UNCHANGED << cacheVars, jobs >>
  <2> DEFINE J == Db!Fenced(PartitionOf(key[x]))
  <2>1. CASE J # {}
    <3>1. FrontierFound(x, Max(Db!Stamps(J))) /\ UNCHANGED jobs
      BY <1>4, <2>1 DEF ClockQuery
    <3>2. Max(Db!Stamps(J)) \in 0 .. MaxInt
      BY <2>1, FrontierTyped
    <3> QED BY <1>3, <3>1, <3>2
  <2>2. CASE J = {}
    BY <1>4, <2>2 DEF ClockQuery
  <2> QED BY <2>1, <2>2
<1>5. ASSUME NEW x \in Proc, FallbackQuery(x)
      PROVE  \/ \E e \in Enqueuer : EnqueueOnly(e)
             \/ \E r \in Reconciler : ReconcileActs(r) /\ UNCHANGED jobs
  <2> DEFINE J == Db!PendingIn(PartitionOf(key[x]))
  <2>1. CASE J # {}
    <3>1. FrontierFound(x, Min(Db!Stamps(J))) /\ UNCHANGED jobs
      BY <1>5, <2>1 DEF FallbackQuery
    <3>2. Min(Db!Stamps(J)) \in 0 .. MaxInt
      BY <2>1, FrontierTyped
    <3> QED BY <1>3, <3>1, <3>2
  <2>2. CASE J = {}
    <3>1. FrontierNone(x) /\ UNCHANGED jobs
      BY <1>5, <2>2 DEF FallbackQuery
    <3> QED BY <1>3, <3>1, Sentinels
  <2> QED BY <2>1, <2>2
<1>6. ASSUME NEW x \in Proc, FrontierQueryFails(x)
      PROVE  \/ \E e \in Enqueuer : EnqueueOnly(e)
             \/ \E r \in Reconciler : ReconcileActs(r) /\ UNCHANGED jobs
  <2>1. CASE x \in Enqueuer
    <3>1. FrontierFails(x) /\ UNCHANGED jobs /\ pc[x] = "frontier"
      BY <1>6, <2>1 DEF FrontierQueryFails, FrontierFails
    <3> QED BY <1>1, <2>1, <3>1 DEF EnqueueActs, EnqueueAnswered
  <2>2. CASE x \in Reconciler /\ x \notin Enqueuer
    BY <1>6, <2>2 DEF FrontierQueryFails, ReconcileActs, ReconcileAnswered
  <2> QED BY <2>1, <2>2 DEF Proc
<1>7. ASSUME NEW e \in Enqueuer, EdgeQuery(e)
      PROVE  EnqueueOnly(e)
  <2>1. EdgeRead(e, Db!Edge(key[e])) /\ UNCHANGED jobs
    BY <1>7 DEF EdgeQuery
  <2>2. Db!Edge(key[e]) \in 0 .. MaxInt
    BY EdgeIsNewest
  <2>3. val'[e] = Db!Edge(key[e]) /\ pc[e] # "insert"
    BY <1>0, <2>1 DEF EdgeRead, CacheInv, DataOK
  <2> QED BY <2>1, <2>2, <2>3 DEF EnqueueOnly, EnqueueActs, EnqueueAnswered, Inserted
<1>8. ASSUME NEW e \in Enqueuer, EdgeQueryFails(e)
      PROVE  EnqueueOnly(e)
  <2>1. EdgeFails(e) /\ UNCHANGED jobs /\ pc[e] # "insert" /\ pc'[e] = "idle"
    BY <1>0, <1>8 DEF EdgeQueryFails, EdgeFails, Leave, Goto
  <2> QED BY <2>1 DEF EnqueueOnly, EnqueueActs, EnqueueAnswered, Inserted
<1>9. ASSUME NEW e \in Enqueuer, InsertFailed(e)
      PROVE  EnqueueOnly(e)
  <2>1. Inserted(e, FALSE) /\ UNCHANGED jobs /\ pc'[e] = "abort"
    BY <1>0, <1>9 DEF InsertFailed, Inserted, Goto
  <2>2. ~Inserted(e, TRUE)
    BY <1>0, <2>1 DEF Inserted, Goto
  <2> QED BY <2>1, <2>2 DEF EnqueueOnly, EnqueueActs, EnqueueAnswered
<1>10. ASSUME NEW e \in Enqueuer, NEW j \in JobId, NEW d \in Duration, InsertApplied(e, j, d)
       PROVE  StoredInsert(e, j, d)
  BY <1>10 DEF InsertApplied, StoredInsert
<1>11. StoreStep => UNCHANGED cacheVars /\ NothingArrives
  BY StoreSpares DEF StoreStep
<1> QED BY <1>2, <1>4, <1>5, <1>6, <1>7, <1>8, <1>9, <1>10, <1>11 DEF Step

LEMMA StepKeepsQueue ==
    ASSUME CacheInv, QueueInv, Step
    PROVE  CacheInv' /\ QueueInv'
<1>0. JobsTyped
  BY DEF QueueInv
<1>1. ASSUME NEW e \in Enqueuer, EnqueueOnly(e)
      PROVE  CacheInv' /\ QueueInv'
  BY <1>1, EnqueueInv, EnqueueKeepsQueue DEF EnqueueOnly, EnqueueActs
<1>2. ASSUME NEW e \in Enqueuer, NEW j \in JobId, NEW d \in Duration, StoredInsert(e, j, d)
      PROVE  CacheInv' /\ QueueInv'
  <2>1. EnqueueAnswered(e)
    BY <1>2 DEF StoredInsert, EnqueueAnswered
  <2> QED BY <1>2, <2>1, EnqueueInv, InsertKeepsQueue DEF StoredInsert
<1>3. ASSUME NEW r \in Reconciler, ReconcileActs(r), UNCHANGED jobs
      PROVE  CacheInv' /\ QueueInv'
  BY <1>3, ReconcileInv, ReconcileKeepsQueue DEF ReconcileActs
<1>4. CASE UNCHANGED << cacheVars, jobs >>
  <2>1. NothingArrives
    BY <1>0, <1>4 DEF NothingArrives, SameJob, JobsTyped, Db!Pending
  <2> QED BY <1>4, <2>1, StutterCacheInv, StoreKeepsQueue
<1>5. CASE UNCHANGED cacheVars /\ NothingArrives
  BY <1>5, StutterCacheInv, StoreKeepsQueue
<1> QED BY <1>0, <1>1, <1>2, <1>3, <1>4, <1>5, StepCases

LEMMA InitQueueInv == Init => CacheInv /\ QueueInv
<1> SUFFICES ASSUME Init PROVE CacheInv /\ QueueInv
  OBVIOUS
<1>1. CacheInv
  BY InitCacheInv DEF Init
<1>2. QueueInv
  BY DEF Init, CacheInit, Db!StoreInit, QueueInv, JobsTyped, PastSeed, EdgeHeld,
         StampAhead, StampIsNewest, ClockIsNewest, StampedPC, Proc
<1> QED BY <1>1, <1>2

LEMMA NextQueueInv ==
    CacheInv /\ QueueInv /\ [Next]_vars => (CacheInv /\ QueueInv)'
<1> SUFFICES ASSUME CacheInv, QueueInv, [Next]_vars
             PROVE  CacheInv' /\ QueueInv'
  OBVIOUS
<1>1. CASE Step
  BY <1>1, StepKeepsQueue
<1>2. CASE Restart
  BY <1>2, RestartCacheInv, RestartKeepsQueue DEF Restart
<1>3. CASE UNCHANGED vars
  <2>1. UNCHANGED cacheVars /\ UNCHANGED jobs
    BY <1>3 DEF vars, cacheVars
  <2>2. NothingArrives
    BY <2>1 DEF QueueInv, NothingArrives, SameJob, JobsTyped, Db!Pending
  <2> QED BY <2>1, <2>2, StutterCacheInv, StoreKeepsQueue
<1> QED BY <1>1, <1>2, <1>3 DEF Next

LEMMA QueueInvariance == Spec => [](CacheInv /\ QueueInv)
BY InitQueueInv, NextQueueInv, PTL DEF Spec

-----------------------------------------------------------------------------

(* The cache stays well typed under the real queries too: no answer of the *)
(* database is outside the range of a stamp.                               *)
THEOREM QueueTypeCorrect == Spec => []CacheTypeOK
<1>1. CacheInv => CacheTypeOK
  BY TypeParts DEF CacheInv
<1> QED BY <1>1, QueueInvariance, PTL

(* Over the real store, and over restarts, a timeline has one writer of    *)
(* this process at a time.                                                 *)
THEOREM QueueHasOneWriter == Spec => []OneWriter
<1>1. CacheInv => OneWriter
  BY InvImpliesOneWriter
<1> QED BY <1>1, QueueInvariance, PTL

(* A job only appears by an enqueue's stored insert, beyond the others.    *)
LEMMA StepKeepsOrder ==
    ASSUME CacheInv, QueueInv, [Next]_vars, NEW j \in JobId,
           jobs[j] = Absent, jobs'[j] # Absent,
           NEW i \in Db!TimelineJobs(<< jobs'[j].tenant, jobs'[j].partition >>)
    PROVE  jobs[i].vstamp < jobs'[j].vstamp
<1>1. Step
  <2>1. jobs' # jobs
    OBVIOUS
  <2> QED BY <2>1 DEF Next, Restart, vars
<1>2. ~NothingArrives /\ jobs' # jobs
  BY DEF NothingArrives
<1>3. PICK e \in Enqueuer, k \in JobId, d \in Duration : StoredInsert(e, k, d)
  BY <1>1, <1>2, StepCases DEF QueueInv, EnqueueOnly
<1>4. /\ << jobs'[k].tenant, jobs'[k].partition >> = key[e]
      /\ jobs'[k].vstamp = val[e]
      /\ \A h \in JobId \ {k} : jobs'[h] = jobs[h]
      /\ \A h \in Db!TimelineJobs(key[e]) : jobs[h].vstamp < val[e]
  BY <1>3, InsertKeepsQueue DEF StoredInsert
<1>5. j = k
  BY <1>4
<1> QED BY <1>4, <1>5

(* A new stamp exceeds every pending stamp on its timeline, through        *)
(* evictions, re-seeds, cancellations, failed inserts and restarts         *)
(* (docs/fair-job-queue-design.md:788).                                    *)
THEOREM StampsGrow == Spec => TimelineOrder
<1>1. CacheInv /\ QueueInv /\ [Next]_vars =>
        [\A j \in JobId : jobs[j] = Absent /\ jobs'[j] # Absent =>
            \A i \in Db!TimelineJobs(<< jobs'[j].tenant, jobs'[j].partition >>) :
                jobs[i].vstamp < jobs'[j].vstamp]_vars
  BY StepKeepsOrder
<1> QED BY <1>1, QueueInvariance, PTL DEF Spec, TimelineOrder

-----------------------------------------------------------------------------
(* Jobs that arrive behind the cache's back.  A clock need no longer be    *)
(* the newest of its timeline, so what is known takes the place of what is *)
(* stored: in every place a stamp or a clock is kept.                      *)

KnownUpTo(K, t, v) == \A j \in K \cap Db!TimelineJobs(t) : jobs[j].vstamp <= v

(* v serves as the clock of t: it is marked to be read again, or no job    *)
(* that is known exceeds it, and none the walk under way will make known,  *)
(* unless the walk has yet to come by.                                     *)
Fresh(t, v) ==
    \/ entry[tenants[t]].stale
    \/ /\ KnownUpTo(known, t, v)
       /\ \A r \in Reconciler : mu = r => Unhandled(t) \/ KnownUpTo(seen[r], t, v)

HistoryOK ==
    /\ known \subseteq PendingJobs
    /\ seen \in [Reconciler -> SUBSET PendingJobs]
    /\ must \in [Enqueuer -> SUBSET known]

(* The edge a seed has read, the clock a reserve stamps from and the stamp *)
(* of a stored job, in turn.                                               *)
EdgeCovers ==
    \A e \in Enqueuer : pc[e] = "set" =>
        KnownUpTo(must[e], key[e], val[e]) /\ Fresh(key[e], val[e])

ClockCovers ==
    \A e \in Enqueuer : pc[e] \in {"stamp", "insert"} =>
        KnownUpTo(must[e], key[e], entry[ref[e]].vtime)

StampCovers == \A e \in Enqueuer : pc[e] = "commit" => Fresh(key[e], val[e])

ClocksFresh ==
    \A t \in Timeline :
        tenants[t] # NoRef /\ entry[tenants[t]].seeded =>
            \/ \E e \in Enqueuer : pc[e] = "commit" /\ key[e] = t
            \/ Fresh(t, entry[tenants[t]].vtime)

KnownInv ==
    /\ JobsTyped
    /\ PastSeed
    /\ StampAhead
    /\ HistoryOK
    /\ EdgeCovers
    /\ ClockCovers
    /\ StampCovers
    /\ ClocksFresh

-----------------------------------------------------------------------------

LEMMA KnownStays ==
    ASSUME NothingArrives, NEW K, NEW L, L \subseteq K, NEW t, NEW v, KnownUpTo(K, t, v)
    PROVE  KnownUpTo(L, t, v)'
<1>1. ASSUME NEW j \in Db!TimelineJobs(t)'
      PROVE  j \in Db!TimelineJobs(t) /\ jobs'[j].vstamp = jobs[j].vstamp
  BY <1>1 DEF Db!TimelineJobs, NothingArrives, SameJob
<1> QED BY <1>1 DEF KnownUpTo

LEMMA NewestIsFresh ==
    ASSUME NEW t, NEW v, UpTo(t, v)
    PROVE  Fresh(t, v) /\ \A K : KnownUpTo(K, t, v)
BY DEF UpTo, Fresh, KnownUpTo

LEMMA FreshGrows ==
    ASSUME JobsTyped, NEW t, NEW v \in Int, NEW w \in Int, v <= w
    PROVE  /\ \A K : KnownUpTo(K, t, v) => KnownUpTo(K, t, w)
           /\ Fresh(t, v) => Fresh(t, w)
<1>1. \A j \in Db!TimelineJobs(t) : jobs[j].vstamp \in Int
  BY StampsTyped
<1>2. \A K : KnownUpTo(K, t, v) => KnownUpTo(K, t, w)
  BY <1>1 DEF KnownUpTo
<1> QED BY <1>2 DEF Fresh

(* While nothing is learned and no walk begins or ends, a clock stays good *)
(* as long as marks are not lost.                                          *)
LEMMA FreshStays ==
    ASSUME NothingArrives, known' \subseteq known,
           NEW t, NEW v, Fresh(t, v),
           tenants'[t] = tenants[t],
           entry[tenants[t]].stale => entry'[tenants[t]].stale,
           \A r \in Reconciler : mu' = r =>
                /\ mu = r /\ seen'[r] \subseteq seen[r]
                /\ Unhandled(t) => Unhandled(t)' \/ entry'[tenants[t]].stale
    PROVE  Fresh(t, v)'
<1>1. CASE entry[tenants[t]].stale
  BY <1>1 DEF Fresh
<1>2. CASE KnownUpTo(known, t, v) /\ ~entry'[tenants[t]].stale
  <2>1. KnownUpTo(known, t, v)'
    <3>1. \A L : L \subseteq known => KnownUpTo(L, t, v)'
      BY <1>2, KnownStays
    <3> QED BY <3>1
  <2>2. ASSUME NEW r \in Reconciler, mu' = r, ~Unhandled(t)'
        PROVE  KnownUpTo(seen[r], t, v)'
    <3>1. KnownUpTo(seen[r], t, v) \/ entry[tenants[t]].stale
      BY <1>2, <2>2 DEF Fresh
    <3>2. \A L : L \subseteq seen[r] => KnownUpTo(L, t, v)'
      BY <1>2, <3>1, KnownStays
    <3> QED BY <2>2, <3>2
  <2> QED BY <2>1, <2>2 DEF Fresh
<1> QED BY <1>1, <1>2 DEF Fresh

(* What is watched: nobody has to respect more than what was known as it   *)
(* took its lock, and a walk does not see more than it saw at first.       *)
LEMMA WatchTyped ==
    ASSUME CacheInv, HistoryOK, Watch,
           PendingJobs \subseteq PendingJobs' \/ UNCHANGED pc
    PROVE  /\ HistoryOK'
           /\ known' \subseteq known \cup Acknowledged \cup Walked
           /\ \A r \in Reconciler : mu = r => seen'[r] \subseteq seen[r]
           /\ \A e \in Enqueuer :
                must'[e] \subseteq (IF Critical(e) THEN must[e] ELSE known)
<1>1. /\ known' \subseteq known \cup Acknowledged \cup Walked
      /\ known' \subseteq PendingJobs'
      /\ known \cap PendingJobs' \subseteq known'
  BY DEF Watch
<1>2. ASSUME NEW r \in Reconciler
      PROVE  /\ seen'[r] \subseteq PendingJobs'
             /\ mu = r => seen'[r] \subseteq seen[r]
  <2>1. pc'[r] = pc[r] /\ mu # r => pc'[r] \notin {"walk", "mark", "try"}
    BY DEF CacheInv, WalkHoldsMu, WalkPC
  <2>2. seen'[r] = IF pc'[r] \notin {"walk", "mark", "try"} THEN {}
                   ELSE IF mu # r THEN PendingJobs
                   ELSE seen[r] \cap PendingJobs'
    BY DEF Watch
  <2>3. UNCHANGED pc => pc'[r] = pc[r]
    OBVIOUS
  <2> QED BY <2>1, <2>2, <2>3
<1>3. ASSUME NEW e \in Enqueuer
      PROVE  /\ must'[e] \subseteq known'
             /\ must'[e] \subseteq (IF Critical(e) THEN must[e] ELSE known)
  <2>1. must'[e] = IF ~Critical(e)' THEN {}
                   ELSE IF ~Critical(e) THEN known
                   ELSE must[e] \cap PendingJobs'
    BY DEF Watch
  <2>2. UNCHANGED pc => Critical(e)' = Critical(e)
    BY DEF Critical
  <2>3. must[e] \subseteq known /\ known \subseteq PendingJobs
    BY DEF HistoryOK
  <2> QED BY <1>1, <2>1, <2>2, <2>3
<1>4. /\ seen' = [r \in Reconciler |-> seen'[r]]
      /\ must' = [e \in Enqueuer |-> must'[e]]
  BY DEF Watch
<1>5. HistoryOK'
  BY <1>1, <1>2, <1>3, <1>4 DEF HistoryOK
<1> QED BY <1>1, <1>2, <1>3, <1>5

-----------------------------------------------------------------------------
(* An enqueue that inserts nothing keeps what is known.                    *)
LEMMA EnqueueKeepsKnown ==
    ASSUME CacheInv, KnownInv, Watch, NEW e \in Enqueuer, EnqueueOnly(e)
    PROVE  KnownInv'
<1> USE DEF CriticalPC, EnqueuePC
<1>0. /\ EnqueueActs(e) /\ UNCHANGED jobs /\ JobsTyped /\ HistoryOK
      /\ CacheInv'
  BY EnqueueInv DEF EnqueueOnly, EnqueueActs, KnownInv
<1>1. /\ NothingArrives /\ JobsTyped'
      /\ PendingJobs' = PendingJobs /\ Acknowledged = {}
  BY <1>0 DEF NothingArrives, SameJob, JobsTyped, Db!Pending, PendingJobs, Acknowledged
<1>2. /\ mu' = mu
      /\ \A r \in Reconciler : pc'[r] = pc[r]
      /\ \A t : Unhandled(t)' <=> Unhandled(t)
  <2>1. /\ UNCHANGED << mu, todo >>
        /\ \A r \in Reconciler : pc'[r] = pc[r] /\ key'[r] = key[r]
    BY <1>0, EnqueueSpares, Sentinels DEF EnqueueActs, Proc
  <2> QED BY <2>1 DEF Unhandled
<1>3. Walked = {}
  BY <1>2 DEF Walked
<1>4. /\ HistoryOK' /\ known' \subseteq known
      /\ \A r \in Reconciler : mu = r => seen'[r] \subseteq seen[r]
      /\ \A f \in Enqueuer :
            must'[f] \subseteq (IF Critical(f) THEN must[f] ELSE known)
  BY <1>0, <1>1, <1>3, WatchTyped
<1>5. ASSUME NEW t, NEW v, Fresh(t, v), tenants'[t] = tenants[t],
             entry[tenants[t]].stale => entry'[tenants[t]].stale
      PROVE  Fresh(t, v)'
  BY <1>1, <1>2, <1>4, <1>5, FreshStays
<1>6. \A f \in Enqueuer : Critical(f) =>
        /\ key[f] \in Timeline /\ ref[f] \in Ref /\ tenants[key[f]] = ref[f]
        /\ must[f] \subseteq known
  BY <1>0, EntryIsOwn DEF HistoryOK
(* The others hold what they held, and it is as good as it was.            *)
<1>7. ASSUME NEW f \in Enqueuer \ {e}, Critical(f) \/ Critical(f)'
      PROVE  /\ Critical(f) /\ pc'[f] = pc[f] /\ key'[f] = key[f]
             /\ ref'[f] = ref[f] /\ val'[f] = val[f]
             /\ entry'[ref[f]].vtime = entry[ref[f]].vtime
             /\ must'[f] \subseteq must[f]
             /\ \A v : Fresh(key[f], v) => Fresh(key[f], v)'
  <2>1. /\ Critical(f) /\ Critical(f)' /\ pc'[f] = pc[f] /\ key'[f] = key[f]
        /\ ref'[f] = ref[f] /\ val'[f] = val[f]
        /\ entry'[ref[f]].vtime = entry[ref[f]].vtime
        /\ entry'[ref[f]].stale = entry[ref[f]].stale
    BY <1>0, <1>7, OthersKeep
  <2>2. PICK t : t = key[f]
    OBVIOUS
  <2>3. tenants[t] = ref[f] /\ tenants'[t] = ref[f]
    BY <1>0, <1>6, <2>1, <2>2 DEF CacheInv, Locks, HoldsItsEntry
  <2>4. \A v : Fresh(t, v) => Fresh(t, v)'
    BY <1>5, <2>1, <2>3
  <2> QED BY <1>4, <2>1, <2>2, <2>4
<1>8. PastSeed' /\ StampAhead'
  BY <1>0, EnqueueKeepsReserves DEF KnownInv
<1>9. EdgeCovers'
  <2>1. ASSUME NEW f \in Enqueuer, pc'[f] = "set", f # e
        PROVE  KnownUpTo(must[f], key[f], val[f])' /\ Fresh(key[f], val[f])'
    <3>1. pc[f] = "set" /\ key'[f] = key[f] /\ val'[f] = val[f]
          /\ must'[f] \subseteq must[f] /\ \A v : Fresh(key[f], v) => Fresh(key[f], v)'
      BY <1>7, <2>1 DEF Critical
    <3>2. PICK t, v : t = key[f] /\ v = val[f]
      OBVIOUS
    <3>3. KnownUpTo(must[f], t, v) /\ Fresh(t, v)
      BY <3>1, <3>2 DEF KnownInv, EdgeCovers
    <3>4. \A L : L \subseteq must[f] => KnownUpTo(L, t, v)'
      BY <1>1, <3>3, KnownStays
    <3>5. Fresh(t, v)'
      BY <3>1, <3>2, <3>3
    <3> QED BY <3>1, <3>2, <3>4, <3>5
  <2>2. ASSUME pc'[e] = "set"
        PROVE  KnownUpTo(must[e], key[e], val[e])' /\ Fresh(key[e], val[e])'
    <3>1. UNCHANGED << tenants, entry, key >> /\ val'[e] = Db!Edge(key[e])
      BY <1>0, <2>2, EnqueueCarries DEF EdgeRead, EnqueueOnly
    <3>2. PICK t, v : t = key[e] /\ v = Db!Edge(key[e])
      OBVIOUS
    <3>3. UpTo(t, v)
      BY <1>0, <3>2, EdgeIsNewest
    <3>4. Fresh(t, v)'
      BY <1>5, <3>1, <3>3, NewestIsFresh
    <3>5. \A K, L : L \subseteq K => KnownUpTo(L, t, v)'
      BY <1>1, <3>3, NewestIsFresh, KnownStays
    <3> QED BY <3>1, <3>2, <3>4, <3>5
  <2> QED BY <2>1, <2>2 DEF EdgeCovers
<1>10. ClockCovers'
  <2>1. ASSUME NEW f \in Enqueuer, pc'[f] \in {"stamp", "insert"}, f # e
        PROVE  KnownUpTo(must[f], key[f], entry[ref[f]].vtime)'
    <3>1. pc'[f] = pc[f] /\ key'[f] = key[f] /\ ref'[f] = ref[f]
          /\ entry'[ref[f]].vtime = entry[ref[f]].vtime
          /\ must'[f] \subseteq must[f]
      BY <1>7, <2>1 DEF Critical
    <3>2. PICK t, v : t = key[f] /\ v = entry[ref[f]].vtime
      OBVIOUS
    <3>3. KnownUpTo(must[f], t, v)
      BY <2>1, <3>1, <3>2 DEF KnownInv, ClockCovers
    <3>4. \A L : L \subseteq must[f] => KnownUpTo(L, t, v)'
      BY <1>1, <3>3, KnownStays
    <3> QED BY <3>1, <3>2, <3>4
  <2>2. ASSUME pc'[e] = "stamp", Swap(e)
        PROVE  KnownUpTo(must[e], key[e], entry[ref[e]].vtime)'
    <3>1. /\ pc[e] = "swap" /\ Critical(e) /\ ref' = ref /\ key' = key
          /\ entry'[ref[e]].vtime = entry[ref[e]].vtime
          /\ entry[ref[e]].seeded /\ ~entry[ref[e]].stale
      BY <2>2, SwapEffect DEF Swap
    <3>2. PICK t, v : t = key[e] /\ v = entry[ref[e]].vtime
      OBVIOUS
    <3>3. \A f \in Enqueuer : ~(pc[f] = "commit" /\ key[f] = t)
      BY <3>1, <3>2, InvImpliesOneWriter DEF OneWriter, Critical
    <3>4. Fresh(t, v) /\ tenants[t] = ref[e]
      BY <1>6, <3>1, <3>2, <3>3, Sentinels DEF KnownInv, ClocksFresh
    <3>5. KnownUpTo(known, t, v)
      BY <3>1, <3>4 DEF Fresh
    <3>6. must'[e] \subseteq known
      BY <1>4, <1>6, <3>1
    <3>7. \A L : L \subseteq known => KnownUpTo(L, t, v)'
      BY <1>1, <3>5, KnownStays
    <3> QED BY <3>1, <3>2, <3>6, <3>7
  <2>3. ASSUME SeedSet(e)
        PROVE  KnownUpTo(must[e], key[e], entry[ref[e]].vtime)'
    <3>1. /\ pc[e] = "set" /\ Critical(e) /\ ref' = ref /\ key' = key
          /\ entry'[ref[e]].vtime >= val[e] /\ ref[e] \in Ref
      BY <2>3, SeedSetEffect DEF SeedSet
    <3>2. PICK t, v, w : t = key[e] /\ v = val[e] /\ w = entry'[ref[e]].vtime
      OBVIOUS
    <3>3. v \in Int /\ w \in Int
      <4>1. w \in 0 .. MaxInt
        BY <1>0, <3>1, <3>2 DEF CacheInv, DataOK, Entry
      <4> QED BY <3>2, <4>1, EntryClocks, Sentinels DEF Proc
    <3>4. KnownUpTo(must[e], t, v)
      BY <3>1, <3>2 DEF KnownInv, EdgeCovers
    <3>5. KnownUpTo(must[e], t, w)
      BY <1>0, <3>1, <3>2, <3>3, <3>4, FreshGrows
    <3>6. must'[e] \subseteq must[e]
      BY <1>4, <3>1
    <3>7. \A L : L \subseteq must[e] => KnownUpTo(L, t, w)'
      BY <1>1, <3>5, KnownStays
    <3> QED BY <3>1, <3>2, <3>6, <3>7
  <2>4. ASSUME pc'[e] = "insert"
        PROVE  KnownUpTo(must[e], key[e], entry[ref[e]].vtime)'
    <3>1. pc[e] = "stamp" /\ Critical(e) /\ UNCHANGED << entry, key, ref >>
      BY <1>0, <2>4, EnqueueCarries DEF Stamp, Critical
    <3>2. PICK t, v : t = key[e] /\ v = entry[ref[e]].vtime
      OBVIOUS
    <3>3. KnownUpTo(must[e], t, v)
      BY <3>1, <3>2 DEF KnownInv, ClockCovers
    <3>4. must'[e] \subseteq must[e]
      BY <1>4, <3>1
    <3>5. \A L : L \subseteq must[e] => KnownUpTo(L, t, v)'
      BY <1>1, <3>3, KnownStays
    <3> QED BY <3>1, <3>2, <3>4, <3>5
  <2> QED BY <1>0, <2>1, <2>2, <2>3, <2>4, EnqueueCarries DEF ClockCovers
<1>11. StampCovers'
  <2>1. ASSUME NEW f \in Enqueuer, pc'[f] = "commit"
        PROVE  Fresh(key[f], val[f])'
    <3>1. f # e
      BY <1>0, <2>1, EnqueueCarries DEF EnqueueOnly
    <3>2. pc[f] = "commit" /\ key'[f] = key[f] /\ val'[f] = val[f]
          /\ \A v : Fresh(key[f], v) => Fresh(key[f], v)'
      BY <1>7, <2>1, <3>1 DEF Critical
    <3>3. PICK t, v : t = key[f] /\ v = val[f]
      OBVIOUS
    <3>4. Fresh(t, v)'
      BY <3>2, <3>3 DEF KnownInv, StampCovers
    <3> QED BY <3>2, <3>3, <3>4
  <2> QED BY <2>1 DEF StampCovers
<1>12. ClocksFresh'
  <2>1. ASSUME NEW t \in Timeline, tenants'[t] # NoRef, entry'[tenants'[t]].seeded,
               ~\E f \in Enqueuer : pc'[f] = "commit" /\ key'[f] = t
        PROVE  Fresh(t, entry[tenants[t]].vtime)'
    <3>1. PICK v, w : v = entry[tenants[t]].vtime /\ w = entry'[tenants[t]].vtime
      OBVIOUS
    <3>2. /\ tenants'[t] = tenants[t] /\ tenants[t] \in Ref
          /\ entry[tenants[t]].stale => entry'[tenants[t]].stale
          /\ tenants[t] # NoRef
      BY <1>0, <2>1, ClockMoves, Sentinels
    <3>3. ASSUME NEW f \in Enqueuer, pc[f] = "commit", key[f] = t
          PROVE  f = e
      BY <1>7, <2>1, <3>3 DEF Critical
    <3>4. CASE entry[tenants[t]].seeded /\ w = v /\ (pc[e] = "commit" => key[e] # t)
      <4>1. Fresh(t, v)
        BY <3>1, <3>2, <3>3, <3>4 DEF KnownInv, ClocksFresh
      <4> QED BY <1>5, <3>1, <3>2, <3>4, <4>1
    <3>5. CASE pc[e] = "set" /\ key[e] = t /\ w >= val[e]
      <4>1. Fresh(t, val[e])
        BY <3>5 DEF KnownInv, EdgeCovers
      <4>2. val[e] \in Int /\ w \in Int
        <5>1. w \in 0 .. MaxInt
          BY <1>0, <3>1, <3>2 DEF CacheInv, DataOK, Entry
        <5> QED BY <5>1, EntryClocks, Sentinels DEF Proc
      <4>3. Fresh(t, w)
        BY <1>0, <3>5, <4>1, <4>2, FreshGrows
      <4> QED BY <1>5, <3>1, <3>2, <4>3
    <3>6. CASE pc[e] = "commit" /\ key[e] = t /\ w = val[e]
      <4>1. Fresh(t, w)
        BY <3>6 DEF KnownInv, StampCovers
      <4> QED BY <1>5, <3>1, <3>2, <4>1
    <3> QED BY <1>0, <2>1, <3>1, <3>4, <3>5, <3>6, ClockMoves
  <2> QED BY <2>1 DEF ClocksFresh
<1> QED BY <1>1, <1>4, <1>8, <1>9, <1>10, <1>11, <1>12 DEF KnownInv

(* One job more makes no difference to what was known without it, and the  *)
(* others' clocks hold it as soon as they are no earlier than its stamp.   *)
LEMMA InsertJoins ==
    ASSUME JobsTyped, NEW j \in JobId, NEW t \in Timeline, NEW v \in 0 .. MaxInt,
           NEW d \in Duration, Db!InsertOne(j, t[1], t[2], v, d)
    PROVE  /\ JobsTyped' /\ jobs[j] = Absent
           /\ PendingJobs' = PendingJobs \cup {j} /\ Acknowledged = {j}
           /\ \A K, L, u, w :
                K \subseteq PendingJobs /\ L \subseteq K /\ KnownUpTo(K, u, w)
                    => KnownUpTo(L, u, w)'
           /\ \A K, L, u, w :
                K \subseteq PendingJobs /\ L \subseteq K \cup {j}
                /\ KnownUpTo(K, u, w) /\ (u = t => v <= w)
                    => KnownUpTo(L, u, w)'
<1>1. /\ JobsTyped' /\ jobs[j] = Absent /\ jobs'[j] # Absent
      /\ jobs'[j].vstamp = v
      /\ << jobs'[j].tenant, jobs'[j].partition >> = t
      /\ \A i \in JobId \ {j} : jobs'[i] = jobs[i]
  BY InsertAppends
<1>2. jobs'[j].liveness = "pending"
  BY DEF Db!InsertOne, Db!Put, Db!NewJob, JobsTyped
<1>3. Acknowledged = {j}
  BY <1>1 DEF Acknowledged
<1>4. PendingJobs' = PendingJobs \cup {j} /\ j \notin PendingJobs
  BY <1>1, <1>2 DEF PendingJobs, Db!Pending
<1>5. ASSUME NEW i \in JobId \ {j}, NEW u, i \in Db!TimelineJobs(u)'
      PROVE  i \in Db!TimelineJobs(u) /\ jobs'[i] = jobs[i]
  BY <1>1, <1>5 DEF Db!TimelineJobs, Db!Pending
<1>6. ASSUME NEW u, j \in Db!TimelineJobs(u)'
      PROVE  u = t
  BY <1>1, <1>6 DEF Db!TimelineJobs
<1>7. \A u : Db!TimelineJobs(u)' \subseteq JobId
  BY DEF Db!TimelineJobs
<1>8. ASSUME NEW K, NEW L, NEW u, NEW w,
             K \subseteq PendingJobs, L \subseteq K \cup {j}, KnownUpTo(K, u, w),
             j \in L /\ u = t => v <= w
      PROVE  KnownUpTo(L, u, w)'
  <2>1. ASSUME NEW i \in L \cap Db!TimelineJobs(u)'
        PROVE  jobs'[i].vstamp <= w
    <3>1. CASE i = j
      BY <1>1, <1>6, <1>8, <2>1, <3>1
    <3>2. CASE i # j
      BY <1>5, <1>7, <1>8, <2>1, <3>2 DEF KnownUpTo
    <3> QED BY <3>1, <3>2
  <2> QED BY <2>1 DEF KnownUpTo
<1>9. ASSUME NEW K, NEW L, NEW u, NEW w,
             K \subseteq PendingJobs, L \subseteq K, KnownUpTo(K, u, w)
      PROVE  KnownUpTo(L, u, w)'
  <2>1. j \notin L /\ L \subseteq K \cup {j}
    BY <1>4, <1>9
  <2> QED BY <1>8, <1>9, <2>1
<1>10. ASSUME NEW K, NEW L, NEW u, NEW w,
              K \subseteq PendingJobs, L \subseteq K \cup {j},
              KnownUpTo(K, u, w), u = t => v <= w
       PROVE  KnownUpTo(L, u, w)'
  BY <1>8, <1>10
<1> QED BY <1>1, <1>3, <1>4, <1>9, <1>10

(* A stored insert: its stamp exceeds what the reserve has to respect, and *)
(* is the clock to be.                                                     *)
LEMMA InsertKeepsKnown ==
    ASSUME CacheInv, KnownInv, Watch, NEW e \in Enqueuer,
           NEW j \in JobId, NEW d \in Duration, StoredInsert(e, j, d)
    PROVE  /\ KnownInv'
           /\ \A i \in must[e] \cap Db!TimelineJobs(key[e]) : jobs[i].vstamp < val[e]
<1> USE DEF CriticalPC, EnqueuePC
<1>0. /\ Inserted(e, TRUE) /\ EnqueueActs(e) /\ JobsTyped /\ HistoryOK
      /\ UNCHANGED << tenants, entry, mu, key, ref, val, todo >>
      /\ pc[e] = "insert" /\ pc'[e] = "commit" /\ Critical(e)
      /\ \A x \in Proc \ {e} : pc'[x] = pc[x]
      /\ \A r \in Reconciler : r \in Proc /\ r # e
      /\ \A f \in Enqueuer : f \in Proc
  BY Sentinels DEF StoredInsert, Inserted, EnqueueActs, EnqueueAnswered, KnownInv, Goto,
                   CacheInv, PcOK, Proc, Critical
<1>1. PICK t \in Timeline, v \in 0 .. MaxInt, c \in 0 .. MaxInt :
        t = key[e] /\ v = val[e] /\ c = entry[ref[e]].vtime /\ ref[e] \in Ref
  BY <1>0, EntryIsOwn, EntryClocks
<1>2. /\ JobsTyped' /\ jobs[j] = Absent
      /\ PendingJobs' = PendingJobs \cup {j} /\ Acknowledged = {j}
      /\ \A K, L, u, w :
            K \subseteq PendingJobs /\ L \subseteq K /\ KnownUpTo(K, u, w)
                => KnownUpTo(L, u, w)'
      /\ \A K, L, u, w :
            K \subseteq PendingJobs /\ L \subseteq K \cup {j}
            /\ KnownUpTo(K, u, w) /\ (u = t => v <= w)
                => KnownUpTo(L, u, w)'
  <2>1. Db!InsertOne(j, t[1], t[2], v, d)
    BY <1>1 DEF StoredInsert
  <2> QED BY <1>0, <2>1, InsertJoins
<1>3. Walked = {}
  BY <1>0 DEF Walked
<1>4. /\ HistoryOK' /\ known' \subseteq known \cup {j}
      /\ \A r \in Reconciler : mu = r => seen'[r] \subseteq seen[r]
      /\ \A f \in Enqueuer : Critical(f) => must'[f] \subseteq must[f]
  BY <1>0, <1>2, <1>3, WatchTyped
<1>5. /\ known \subseteq PendingJobs
      /\ \A r \in Reconciler : seen[r] \subseteq PendingJobs
      /\ \A f \in Enqueuer : must[f] \subseteq PendingJobs
  BY <1>0 DEF HistoryOK
<1>6. \A u : Unhandled(u)' <=> Unhandled(u)
  BY <1>0 DEF Unhandled
<1>7. ASSUME NEW u, NEW w, Fresh(u, w), u = t => v <= w
      PROVE  Fresh(u, w)'
  <2>1. CASE entry[tenants[u]].stale
    BY <1>0, <2>1 DEF Fresh
  <2>2. CASE ~entry[tenants[u]].stale
    <3>1. KnownUpTo(known, u, w)'
      <4>1. \A L : L \subseteq known \cup {j} => KnownUpTo(L, u, w)'
        BY <1>2, <1>5, <1>7, <2>2 DEF Fresh
      <4> QED BY <1>4, <4>1
    <3>2. ASSUME NEW r \in Reconciler, mu' = r, ~Unhandled(u)'
          PROVE  KnownUpTo(seen[r], u, w)'
      <4>1. KnownUpTo(seen[r], u, w) /\ seen'[r] \subseteq seen[r]
        BY <1>0, <1>4, <1>6, <1>7, <2>2, <3>2 DEF Fresh
      <4>2. \A L : L \subseteq seen[r] => KnownUpTo(L, u, w)'
        BY <1>2, <1>5, <4>1
      <4> QED BY <4>1, <4>2
    <3> QED BY <3>1, <3>2 DEF Fresh
  <2> QED BY <2>1, <2>2
(* Nobody else is at work on this timeline.                                *)
<1>8. \A f \in Enqueuer \ {e} : Critical(f) =>
        key[f] # t /\ pc'[f] = pc[f] /\ must'[f] \subseteq must[f]
  BY <1>0, <1>1, <1>4, InvImpliesOneWriter DEF OneWriter
<1>9. ASSUME NEW f \in Enqueuer \ {e}, Critical(f)' \/ Critical(f)
      PROVE  Critical(f) /\ pc'[f] = pc[f]
  BY <1>0, <1>9 DEF Critical
<1>10. c < v
  BY <1>0, <1>1 DEF KnownInv, StampAhead
<1>11. Fresh(t, v)
  <2>1. tenants[t] = ref[e] /\ tenants[t] # NoRef
    BY <1>0, <1>1, EntryIsOwn, Sentinels
  <2>2. entry[ref[e]].seeded
    BY <1>0 DEF KnownInv, PastSeed, StampedPC
  <2>3. \A f \in Enqueuer : ~(pc[f] = "commit" /\ key[f] = t)
    BY <1>0, <1>8 DEF Critical
  <2>4. Fresh(t, c)
    BY <1>1, <2>1, <2>2, <2>3 DEF KnownInv, ClocksFresh
  <2> QED BY <1>0, <1>10, <2>4, FreshGrows
<1>12. PastSeed' /\ StampAhead'
  BY <1>0, EnqueueKeepsReserves DEF KnownInv
<1>13. EdgeCovers'
  <2>1. ASSUME NEW f \in Enqueuer, pc'[f] = "set"
        PROVE  KnownUpTo(must[f], key[f], val[f])' /\ Fresh(key[f], val[f])'
    <3>1. /\ f # e /\ pc[f] = "set" /\ key[f] # t
          /\ must'[f] \subseteq must[f]
      BY <1>0, <1>8, <1>9, <2>1 DEF Critical
    <3>2. PICK u, w : u = key[f] /\ w = val[f]
      OBVIOUS
    <3>3. KnownUpTo(must[f], u, w) /\ Fresh(u, w)
      BY <3>1, <3>2 DEF KnownInv, EdgeCovers
    <3>4. \A L : L \subseteq must[f] => KnownUpTo(L, u, w)'
      BY <1>2, <1>5, <3>3
    <3>5. Fresh(u, w)'
      BY <1>7, <3>1, <3>2, <3>3
    <3> QED BY <1>0, <3>1, <3>2, <3>4, <3>5
  <2> QED BY <2>1 DEF EdgeCovers
<1>14. ClockCovers'
  <2>1. ASSUME NEW f \in Enqueuer, pc'[f] \in {"stamp", "insert"}
        PROVE  KnownUpTo(must[f], key[f], entry[ref[f]].vtime)'
    <3>1. /\ f # e /\ pc[f] \in {"stamp", "insert"}
          /\ must'[f] \subseteq must[f]
      BY <1>0, <1>8, <1>9, <2>1 DEF Critical
    <3>2. PICK u, w : u = key[f] /\ w = entry[ref[f]].vtime
      OBVIOUS
    <3>3. KnownUpTo(must[f], u, w)
      BY <3>1, <3>2 DEF KnownInv, ClockCovers
    <3>4. \A L : L \subseteq must[f] => KnownUpTo(L, u, w)'
      BY <1>2, <1>5, <3>3
    <3> QED BY <1>0, <3>1, <3>2, <3>4
  <2> QED BY <2>1 DEF ClockCovers
<1>15. StampCovers'
  <2>1. Fresh(t, v)'
    BY <1>7, <1>11
  <2>2. ASSUME NEW f \in Enqueuer, pc'[f] = "commit", f # e
        PROVE  Fresh(key[f], val[f])'
    <3>1. pc[f] = "commit" /\ key[f] # t
      BY <1>0, <1>8, <1>9, <2>2 DEF Critical
    <3>2. PICK u, w : u = key[f] /\ w = val[f]
      OBVIOUS
    <3>3. Fresh(u, w)'
      BY <1>7, <3>1, <3>2 DEF KnownInv, StampCovers
    <3> QED BY <1>0, <3>2, <3>3
  <2> QED BY <1>0, <1>1, <2>1, <2>2 DEF StampCovers
<1>16. ClocksFresh'
  <2>1. ASSUME NEW u \in Timeline, tenants[u] # NoRef, entry[tenants[u]].seeded, u # t,
               ~\E f \in Enqueuer : pc'[f] = "commit" /\ key[f] = u
        PROVE  Fresh(u, entry[tenants[u]].vtime)'
    <3>1. PICK w : w = entry[tenants[u]].vtime
      OBVIOUS
    <3>2. \A f \in Enqueuer : ~(pc[f] = "commit" /\ key[f] = u)
      BY <1>0, <1>9, <2>1 DEF Critical
    <3>3. Fresh(u, w)
      BY <2>1, <3>1, <3>2 DEF KnownInv, ClocksFresh
    <3>4. Fresh(u, w)'
      BY <1>7, <2>1, <3>3
    <3> QED BY <1>0, <3>1, <3>4
  <2> QED BY <1>0, <1>1, <2>1 DEF ClocksFresh
<1>17. \A i \in must[e] \cap Db!TimelineJobs(key[e]) : jobs[i].vstamp < val[e]
  <2>1. \A i \in Db!TimelineJobs(key[e]) : jobs[i].vstamp \in Int
    BY <1>0, StampsTyped
  <2> QED BY <1>0, <1>1, <1>10, <2>1 DEF KnownInv, ClockCovers, KnownUpTo
<1> QED BY <1>2, <1>4, <1>12, <1>13, <1>14, <1>15, <1>16, <1>17 DEF KnownInv

(* A reconcile's steps cost no clock what it is good for: a walk that      *)
(* begins has every entry before it, one that goes on leaves its marks,    *)
(* and one that ends has nothing left and makes known what it saw.         *)
LEMMA ReconcileKeepsFresh ==
    ASSUME CacheInv, JobsTyped, HistoryOK, Watch,
           NEW r \in Reconciler, ReconcileActs(r), UNCHANGED jobs,
           NEW t \in Timeline, tenants'[t] # NoRef, NEW v, Fresh(t, v)
    PROVE  Fresh(t, v)'
<1> USE DEF ReconcileActs, WalkPC
<1>1. /\ NothingArrives /\ PendingJobs' = PendingJobs /\ Acknowledged = {}
  BY DEF NothingArrives, SameJob, JobsTyped, Db!Pending, PendingJobs, Acknowledged
<1>2. /\ known' \subseteq known \cup Walked
      /\ \A q \in Reconciler : mu = q => seen'[q] \subseteq seen[q]
  BY <1>1, WatchTyped
<1>3. /\ tenants'[t] = tenants[t] /\ tenants[t] # NoRef
      /\ entry[tenants[t]].stale => entry'[tenants[t]].stale
  BY ReconcileClocks
<1>4. /\ r \in Proc /\ Free \notin Reconciler
      /\ \A q \in Reconciler : q \in Proc /\ (mu = q <=> pc[q] \in WalkPC)
      /\ \A q \in Reconciler \ {r} : pc'[q] = pc[q]
      /\ pc \in [Proc -> EnqueuePC \cup ReconcilePC]
      /\ todo \in [Reconciler -> SUBSET (Timeline \cup Partition)]
  BY Sentinels, ReconcileSpares DEF Proc, CacheInv, WalkHoldsMu, PcOK, DataOK
<1>5. CASE WalkBegin(r)
  <2>1. /\ pc[r] = "refresh" /\ mu' = r /\ todo'[r] = Cached
    BY <1>4, <1>5 DEF WalkBegin
  <2>2. Walked = {}
    BY <1>4, <2>1 DEF Walked
  <2>3. Unhandled(t)'
    BY <1>3, <2>1 DEF Unhandled, Cached
  <2>4. CASE ~entry[tenants[t]].stale
    <3>1. \A L : L \subseteq known => KnownUpTo(L, t, v)'
      BY <1>1, <2>4, KnownStays DEF Fresh
    <3>2. KnownUpTo(known, t, v)'
      BY <1>2, <2>2, <3>1
    <3> QED BY <2>3, <3>2 DEF Fresh
  <2> QED BY <1>3, <2>4 DEF Fresh
<1>6. CASE WalkEnd(r)
  <2>1. /\ pc[r] = "walk" /\ mu = r /\ mu' = Free /\ todo[r] = {}
    BY <1>4, <1>6 DEF WalkEnd
  <2>2. ~Unhandled(t)
    BY <2>1 DEF Unhandled
  <2>3. Walked \subseteq seen[r]
    BY <1>4, <2>1 DEF Walked
  <2>4. CASE ~entry[tenants[t]].stale
    <3>1. KnownUpTo(known \cup seen[r], t, v)
      BY <2>1, <2>2, <2>4 DEF Fresh, KnownUpTo
    <3>2. \A L : L \subseteq known \cup seen[r] => KnownUpTo(L, t, v)'
      BY <1>1, <3>1, KnownStays
    <3>3. KnownUpTo(known, t, v)'
      BY <1>2, <2>3, <3>2
    <3> QED BY <1>4, <2>1, <3>3 DEF Fresh
  <2> QED BY <1>3, <2>4 DEF Fresh
<1>7. CASE ~WalkBegin(r) /\ ~WalkEnd(r)
  <2>1. /\ pc[r] = "walk" => pc'[r] # "idle"
        /\ mu' = mu
    BY <1>4, <1>7 DEF Reconcile, ReconcileStep, ReconcileAnswered, Refresh, Store, WalkStep,
                      WalkSwap, WalkMark, WalkBusy, WalkEvict, FrontierFound, FrontierNone,
                      RefreshFails, Goto, AfterRefresh
  <2>2. Walked = {}
    BY <1>4, <2>1 DEF Walked
  <2>3. Unhandled(t) => Unhandled(t)' \/ entry'[tenants[t]].stale
    BY <1>3, <1>7, WalkAccounts, EvictEffect
  <2> QED BY <1>1, <1>2, <1>3, <2>1, <2>2, <2>3, FreshStays
<1> QED BY <1>5, <1>6, <1>7

LEMMA ReconcileKeepsKnown ==
    ASSUME CacheInv, KnownInv, Watch,
           NEW r \in Reconciler, ReconcileActs(r), UNCHANGED jobs
    PROVE  KnownInv'
<1> USE DEF CriticalPC, EnqueuePC
<1>1. /\ NothingArrives /\ JobsTyped' /\ PendingJobs' = PendingJobs
  BY DEF KnownInv, NothingArrives, SameJob, JobsTyped, Db!Pending, PendingJobs
<1>2. /\ HistoryOK'
      /\ \A f \in Enqueuer : Critical(f) => must'[f] \subseteq must[f]
  BY <1>1, WatchTyped DEF KnownInv
<1>3. /\ ref' = ref
      /\ \A f \in Enqueuer : pc'[f] = pc[f] /\ key'[f] = key[f] /\ val'[f] = val[f]
  BY ReconcileClocks
<1>4. ASSUME NEW t \in Timeline, tenants'[t] # NoRef, NEW v, Fresh(t, v)
      PROVE  Fresh(t, v)'
  BY <1>4, ReconcileKeepsFresh DEF KnownInv
<1>5. ASSUME NEW f \in Enqueuer, Critical(f)
      PROVE  /\ entry'[ref[f]].vtime = entry[ref[f]].vtime
             /\ key[f] \in Timeline /\ tenants'[key[f]] # NoRef
  BY <1>5, EntryIsOwn, ReconcileClocks, Sentinels
<1>6. PastSeed' /\ StampAhead'
  BY ReconcileKeepsReserves DEF KnownInv
<1>7. EdgeCovers'
  <2>1. ASSUME NEW f \in Enqueuer, pc'[f] = "set"
        PROVE  KnownUpTo(must[f], key[f], val[f])' /\ Fresh(key[f], val[f])'
    <3>1. pc[f] = "set" /\ Critical(f) /\ must'[f] \subseteq must[f]
      BY <1>2, <1>3, <2>1 DEF Critical
    <3>2. PICK t, v : t = key[f] /\ v = val[f]
      OBVIOUS
    <3>3. KnownUpTo(must[f], t, v) /\ Fresh(t, v)
      BY <3>1, <3>2 DEF KnownInv, EdgeCovers
    <3>4. \A L : L \subseteq must[f] => KnownUpTo(L, t, v)'
      BY <1>1, <3>3, KnownStays
    <3>5. Fresh(t, v)'
      BY <1>4, <1>5, <3>1, <3>2, <3>3
    <3> QED BY <1>3, <3>1, <3>2, <3>4, <3>5
  <2> QED BY <2>1 DEF EdgeCovers
<1>8. ClockCovers'
  <2>1. ASSUME NEW f \in Enqueuer, pc'[f] \in {"stamp", "insert"}
        PROVE  KnownUpTo(must[f], key[f], entry[ref[f]].vtime)'
    <3>1. /\ pc[f] \in {"stamp", "insert"} /\ Critical(f)
          /\ must'[f] \subseteq must[f]
      BY <1>2, <1>3, <2>1 DEF Critical
    <3>2. PICK t, v : t = key[f] /\ v = entry[ref[f]].vtime
      OBVIOUS
    <3>3. KnownUpTo(must[f], t, v)
      BY <3>1, <3>2 DEF KnownInv, ClockCovers
    <3>4. \A L : L \subseteq must[f] => KnownUpTo(L, t, v)'
      BY <1>1, <3>3, KnownStays
    <3> QED BY <1>3, <1>5, <3>1, <3>2, <3>4
  <2> QED BY <2>1 DEF ClockCovers
<1>9. StampCovers'
  <2>1. ASSUME NEW f \in Enqueuer, pc'[f] = "commit"
        PROVE  Fresh(key[f], val[f])'
    <3>1. pc[f] = "commit" /\ Critical(f)
      BY <1>3, <2>1 DEF Critical
    <3>2. PICK t, v : t = key[f] /\ v = val[f]
      OBVIOUS
    <3>3. Fresh(t, v)'
      BY <1>4, <1>5, <3>1, <3>2 DEF KnownInv, StampCovers
    <3> QED BY <1>3, <3>2, <3>3
  <2> QED BY <2>1 DEF StampCovers
<1>10. ClocksFresh'
  <2>1. ASSUME NEW t \in Timeline, tenants'[t] # NoRef, entry'[tenants'[t]].seeded,
               ~\E f \in Enqueuer : pc'[f] = "commit" /\ key'[f] = t
        PROVE  Fresh(t, entry[tenants[t]].vtime)'
    <3>1. PICK v : v = entry[tenants[t]].vtime
      OBVIOUS
    <3>2. /\ tenants'[t] = tenants[t] /\ entry[tenants[t]].seeded
          /\ entry'[tenants[t]].vtime = v
      BY <2>1, <3>1, ReconcileClocks
    <3>3. Fresh(t, v)
      BY <1>3, <2>1, <3>1, <3>2 DEF KnownInv, ClocksFresh
    <3> QED BY <1>4, <2>1, <3>2, <3>3
  <2> QED BY <2>1 DEF ClocksFresh
<1> QED BY <1>1, <1>2, <1>6, <1>7, <1>8, <1>9, <1>10 DEF KnownInv

(* Nor does what happens outside the cache.                                *)
LEMMA StillKnown ==
    ASSUME CacheInv, KnownInv, UNCHANGED cacheVars, JobsTyped', HistoryOK',
           known' \subseteq known,
           \A r \in Reconciler : mu = r => seen'[r] \subseteq seen[r],
           \A f \in Enqueuer : Critical(f) => must'[f] \subseteq must[f],
           \A K, L, t, v : K \subseteq PendingJobs /\ L \subseteq K /\ KnownUpTo(K, t, v)
                => KnownUpTo(L, t, v)'
    PROVE  KnownInv'
<1> USE DEF CriticalPC, EnqueuePC
<1>0. UNCHANGED << tenants, entry, mu, lwm, pc, key, ref, val, todo >>
  BY DEF cacheVars
<1>1. /\ known \subseteq PendingJobs
      /\ \A r \in Reconciler : seen[r] \subseteq PendingJobs
      /\ \A f \in Enqueuer : must[f] \subseteq PendingJobs
  BY DEF KnownInv, HistoryOK
<1>2. ASSUME NEW t, NEW v, Fresh(t, v)
      PROVE  Fresh(t, v)'
  <2>1. CASE entry[tenants[t]].stale
    BY <1>0, <2>1 DEF Fresh
  <2>2. CASE ~entry[tenants[t]].stale
    <3>1. KnownUpTo(known, t, v)'
      <4>1. \A L : L \subseteq known => KnownUpTo(L, t, v)'
        BY <1>1, <1>2, <2>2 DEF Fresh
      <4> QED BY <4>1
    <3>2. ASSUME NEW r \in Reconciler, mu' = r, ~Unhandled(t)'
          PROVE  KnownUpTo(seen[r], t, v)'
      <4>1. KnownUpTo(seen[r], t, v) /\ seen'[r] \subseteq seen[r]
        BY <1>0, <1>2, <2>2, <3>2 DEF Fresh, Unhandled
      <4>2. \A L : L \subseteq seen[r] => KnownUpTo(L, t, v)'
        BY <1>1, <4>1
      <4> QED BY <4>1, <4>2
    <3> QED BY <3>1, <3>2 DEF Fresh
  <2> QED BY <2>1, <2>2
<1>3. \A f \in Enqueuer : \A t, v :
        Critical(f) /\ KnownUpTo(must[f], t, v) => KnownUpTo(must[f], t, v)'
  <2>1. SUFFICES ASSUME NEW f \in Enqueuer, NEW t, NEW v, Critical(f), KnownUpTo(must[f], t, v)
                 PROVE  KnownUpTo(must[f], t, v)'
    OBVIOUS
  <2>2. \A L : L \subseteq must[f] => KnownUpTo(L, t, v)'
    BY <1>1, <2>1
  <2>3. must'[f] \subseteq must[f]
    BY <2>1
  <2> QED BY <2>2, <2>3
<1>4. PastSeed' /\ StampAhead'
  BY <1>0 DEF KnownInv, PastSeed, StampAhead
<1>5. EdgeCovers'
  <2>1. ASSUME NEW f \in Enqueuer, pc'[f] = "set"
        PROVE  KnownUpTo(must[f], key[f], val[f])' /\ Fresh(key[f], val[f])'
    <3>1. PICK t, v : t = key[f] /\ v = val[f]
      OBVIOUS
    <3>2. Critical(f) /\ KnownUpTo(must[f], t, v) /\ Fresh(t, v)
      BY <1>0, <2>1, <3>1 DEF KnownInv, EdgeCovers, Critical
    <3> QED BY <1>0, <1>2, <1>3, <3>1, <3>2
  <2> QED BY <2>1 DEF EdgeCovers
<1>6. ClockCovers'
  <2>1. ASSUME NEW f \in Enqueuer, pc'[f] \in {"stamp", "insert"}
        PROVE  KnownUpTo(must[f], key[f], entry[ref[f]].vtime)'
    <3>1. PICK t, v : t = key[f] /\ v = entry[ref[f]].vtime
      OBVIOUS
    <3>2. Critical(f) /\ KnownUpTo(must[f], t, v)
      BY <1>0, <2>1, <3>1 DEF KnownInv, ClockCovers, Critical
    <3> QED BY <1>0, <1>3, <3>1, <3>2
  <2> QED BY <2>1 DEF ClockCovers
<1>7. StampCovers'
  BY <1>0, <1>2 DEF KnownInv, StampCovers
<1>8. ClocksFresh'
  BY <1>0, <1>2 DEF KnownInv, ClocksFresh
<1> QED BY <1>4, <1>5, <1>6, <1>7, <1>8 DEF KnownInv

LEMMA StoreKeepsKnown ==
    ASSUME CacheInv, KnownInv, Watch, UNCHANGED cacheVars, NothingArrives
    PROVE  KnownInv'
<1>1. UNCHANGED pc
  BY DEF cacheVars
<1>2. Acknowledged = {} /\ Walked = {}
  BY <1>1 DEF Acknowledged, Walked, NothingArrives
<1>3. /\ HistoryOK' /\ known' \subseteq known
      /\ \A r \in Reconciler : mu = r => seen'[r] \subseteq seen[r]
      /\ \A f \in Enqueuer : Critical(f) => must'[f] \subseteq must[f]
  BY <1>1, <1>2, WatchTyped DEF KnownInv
<1>4. JobsTyped'
  BY DEF NothingArrives
<1>5. \A K, L, t, v : K \subseteq PendingJobs /\ L \subseteq K /\ KnownUpTo(K, t, v)
        => KnownUpTo(L, t, v)'
  BY KnownStays
<1> QED BY <1>3, <1>4, <1>5, StillKnown

LEMMA ForeignKeepsKnown ==
    ASSUME CacheInv, KnownInv, NEW j \in JobId, NEW t \in Timeline, NEW v \in 0 .. MaxInt,
           NEW d \in Duration, ForeignInsert(j, t, v, d), UNCHANGED << known, seen, must >>
    PROVE  KnownInv'
<1>1. /\ JobsTyped' /\ PendingJobs' = PendingJobs \cup {j}
      /\ \A K, L, u, w : K \subseteq PendingJobs /\ L \subseteq K /\ KnownUpTo(K, u, w)
            => KnownUpTo(L, u, w)'
  BY InsertJoins DEF ForeignInsert, KnownInv
<1>2. HistoryOK'
  BY <1>1 DEF KnownInv, HistoryOK
<1>3. UNCHANGED cacheVars
  BY DEF ForeignInsert
<1> QED BY <1>1, <1>2, <1>3, StillKnown

LEMMA StutterKeepsKnown ==
    ASSUME CacheInv, KnownInv, UNCHANGED foreignVars
    PROVE  KnownInv'
<1>1. UNCHANGED << cacheVars, jobs, known, seen, must >>
  BY DEF foreignVars, vars, cacheVars
<1>2. NothingArrives /\ JobsTyped' /\ PendingJobs' = PendingJobs
  BY <1>1 DEF KnownInv, NothingArrives, SameJob, JobsTyped, Db!Pending, PendingJobs
<1>3. HistoryOK'
  BY <1>1, <1>2 DEF KnownInv, HistoryOK
<1>4. \A K, L, t, v : K \subseteq PendingJobs /\ L \subseteq K /\ KnownUpTo(K, t, v)
        => KnownUpTo(L, t, v)'
  BY <1>2, KnownStays
<1> QED BY <1>1, <1>2, <1>3, <1>4, StillKnown

(* A restart knows all there is and has nothing in hand.                   *)
LEMMA RestartKeepsKnown ==
    ASSUME KnownInv, CacheRestart, UNCHANGED jobs,
           known' = PendingJobs, seen' = NoneSeen, must' = NoneMust
    PROVE  KnownInv'
<1>1. JobsTyped' /\ PendingJobs' = PendingJobs
  BY DEF KnownInv, JobsTyped, PendingJobs, Db!Pending
<1>2. HistoryOK'
  BY <1>1 DEF HistoryOK, NoneSeen, NoneMust
<1>3. /\ \A e \in Enqueuer : pc'[e] = "idle"
      /\ \A t \in Timeline : tenants'[t] = NoRef
  BY DEF CacheRestart, Proc
<1> QED BY <1>1, <1>2, <1>3
        DEF KnownInv, PastSeed, StampAhead, EdgeCovers, ClockCovers, StampCovers,
            ClocksFresh, StampedPC

-----------------------------------------------------------------------------

LEMMA StepKeepsKnown ==
    ASSUME CacheInv, KnownInv, Step, Watch
    PROVE  CacheInv' /\ KnownInv'
<1>0. JobsTyped
  BY DEF KnownInv
<1>1. ASSUME NEW e \in Enqueuer, EnqueueOnly(e)
      PROVE  CacheInv' /\ KnownInv'
  BY <1>1, EnqueueInv, EnqueueKeepsKnown DEF EnqueueOnly, EnqueueActs
<1>2. ASSUME NEW e \in Enqueuer, NEW j \in JobId, NEW d \in Duration, StoredInsert(e, j, d)
      PROVE  CacheInv' /\ KnownInv'
  <2>1. EnqueueAnswered(e)
    BY <1>2 DEF StoredInsert, EnqueueAnswered
  <2> QED BY <1>2, <2>1, EnqueueInv, InsertKeepsKnown
<1>3. ASSUME NEW r \in Reconciler, ReconcileActs(r), UNCHANGED jobs
      PROVE  CacheInv' /\ KnownInv'
  BY <1>3, ReconcileInv, ReconcileKeepsKnown DEF ReconcileActs
<1>4. CASE UNCHANGED << cacheVars, jobs >>
  <2>1. NothingArrives
    BY <1>0, <1>4 DEF NothingArrives, SameJob, JobsTyped, Db!Pending
  <2> QED BY <1>4, <2>1, StutterCacheInv, StoreKeepsKnown
<1>5. CASE UNCHANGED cacheVars /\ NothingArrives
  BY <1>5, StutterCacheInv, StoreKeepsKnown
<1> QED BY <1>0, <1>1, <1>2, <1>3, <1>4, <1>5, StepCases

LEMMA InitKnownInv == ForeignInit => CacheInv /\ KnownInv
<1> SUFFICES ASSUME ForeignInit PROVE CacheInv /\ KnownInv
  OBVIOUS
<1>1. CacheInv
  BY InitCacheInv DEF ForeignInit, Init
<1>2. KnownInv
  BY DEF ForeignInit, Init, CacheInit, Db!StoreInit, KnownInv, JobsTyped, PastSeed,
         StampAhead, HistoryOK, EdgeCovers, ClockCovers, StampCovers, ClocksFresh,
         NoneSeen, NoneMust, StampedPC, Proc
<1> QED BY <1>1, <1>2

LEMMA NextKnownInv ==
    CacheInv /\ KnownInv /\ [ForeignNext]_foreignVars => (CacheInv /\ KnownInv)'
<1> SUFFICES ASSUME CacheInv, KnownInv, [ForeignNext]_foreignVars
             PROVE  CacheInv' /\ KnownInv'
  OBVIOUS
<1>1. CASE Step /\ Watch
  BY <1>1, StepKeepsKnown
<1>2. CASE Restart /\ known' = PendingJobs /\ seen' = NoneSeen /\ must' = NoneMust
  BY <1>2, RestartCacheInv, RestartKeepsKnown DEF Restart
<1>3. ASSUME NEW j \in JobId, NEW t \in Timeline, NEW v \in 0 .. MaxInt,
             NEW d \in Duration, ForeignInsert(j, t, v, d), UNCHANGED << known, seen, must >>
      PROVE  CacheInv' /\ KnownInv'
  <2>1. UNCHANGED cacheVars
    BY <1>3 DEF ForeignInsert
  <2> QED BY <1>3, <2>1, StutterCacheInv, ForeignKeepsKnown
<1>4. CASE UNCHANGED foreignVars
  <2>1. UNCHANGED cacheVars
    BY <1>4 DEF foreignVars, vars, cacheVars
  <2> QED BY <1>4, <2>1, StutterCacheInv, StutterKeepsKnown
<1> QED BY <1>1, <1>2, <1>3, <1>4 DEF ForeignNext

LEMMA KnownInvariance == ForeignSpec => [](CacheInv /\ KnownInv)
BY InitKnownInv, NextKnownInv, PTL DEF ForeignSpec

(* Other writers of the collection do not make two of this process write   *)
(* one timeline.                                                           *)
THEOREM ForeignHasOneWriter == ForeignSpec => []OneWriter
<1>1. CacheInv => OneWriter
  BY InvImpliesOneWriter
<1> QED BY <1>1, KnownInvariance, PTL

(* Only a stored insert takes an enqueue from its insert to its commit.    *)
LEMMA StepKeepsKnownOrder ==
    ASSUME CacheInv, KnownInv, [ForeignNext]_foreignVars,
           NEW e \in Enqueuer, pc[e] = "insert", pc'[e] = "commit",
           NEW i \in must[e] \cap Db!TimelineJobs(key[e])
    PROVE  jobs[i].vstamp < val[e]
<1>0. JobsTyped /\ e \in Proc
  BY DEF KnownInv, Proc
<1>1. Step /\ Watch
  <2>1. pc' # pc
    OBVIOUS
  <2>2. ~Restart
    BY <1>0 DEF Restart, CacheRestart
  <2> QED BY <2>1, <2>2 DEF ForeignNext, ForeignInsert, cacheVars, foreignVars, vars
<1>2. ASSUME NEW f \in Enqueuer, EnqueueActs(f)
      PROVE  f = e
  BY <1>0, <1>2, EnqueueSpares DEF EnqueueActs
<1>3. ~EnqueueOnly(e)
  BY EnqueueCarries DEF EnqueueOnly
<1>4. ASSUME NEW r \in Reconciler, ReconcileActs(r)
      PROVE  FALSE
  BY <1>4, ReconcileClocks
<1>5. ASSUME NEW f \in Enqueuer, NEW j \in JobId, NEW d \in Duration, StoredInsert(f, j, d)
      PROVE  f = e /\ jobs[i].vstamp < val[e]
  <2>1. f = e
    BY <1>2, <1>5 DEF StoredInsert, EnqueueActs, EnqueueAnswered
  <2> QED BY <1>1, <1>5, <2>1, InsertKeepsKnown
<1> QED BY <1>0, <1>1, <1>2, <1>3, <1>4, <1>5, StepCases DEF EnqueueOnly, cacheVars

(* Whatever arrives unannounced, and whenever, an enqueue stamps after     *)
(* every pending job that was acknowledged here or was stored before the   *)
(* last reconcile or restart (queue.go:358-366, vtimecache.go:17-21).      *)
THEOREM KnownJobsPrecede == ForeignSpec => KnownOrder
<1>1. CacheInv /\ KnownInv /\ [ForeignNext]_foreignVars =>
        [\A e \in Enqueuer : pc[e] = "insert" /\ pc'[e] = "commit" =>
            \A i \in must[e] \cap Db!TimelineJobs(key[e]) :
                jobs[i].vstamp < val[e]]_foreignVars
  BY StepKeepsKnownOrder
<1> QED BY <1>1, KnownInvariance, PTL DEF ForeignSpec, KnownOrder
=============================================================================
