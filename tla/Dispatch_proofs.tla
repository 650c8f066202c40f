-------------------------- MODULE Dispatch_proofs --------------------------
(***************************************************************************)
(* Tenants on any number of nodes, with any homes, costs and weights: what *)
(* a reconcile has read bounds every later stamp from below, and two       *)
(* tenants that wait are served in proportion to their weights.            *)
(***************************************************************************)
EXTENDS Placement, FairShare, VTime_proofs

-----------------------------------------------------------------------------
(* The collection, by the facts of JobStore_proofs.                        *)

Store == INSTANCE JobStore_proofs WITH VStamp <- 0 .. MaxInt

LEMMA StoreAssumptions == Store!StoreAssumption /\ Store!AbsentAssumption
BY CollectionAssumption, VTimeAssumption
DEF Store!StoreAssumption, Store!AbsentAssumption, Store!Job, Db!Job

LEMMA SameType == /\ Store!StoreTypeOK <=> Db!StoreTypeOK
                  /\ Store!StoreTypeOK' <=> Db!StoreTypeOK'
BY DEF Store!StoreTypeOK, Db!StoreTypeOK, Store!Job, Db!Job

LEMMA SameWrites ==
    /\ \A d : Db!DurationMillis(d) = Store!DurationMillis(d)
    /\ \A job, d : /\ Db!Extended(job, d) = Store!Extended(job, d)
                   /\ Db!ReleasedJob(job, d) = Store!ReleasedJob(job, d)
                   /\ \A c : Db!Claimed(job, c, d) = Store!Claimed(job, c, d)
    /\ \A job, r : Db!ResolvedJob(job, r) = Store!ResolvedJob(job, r)
<1>1. \A d : Db!DurationMillis(d) = Store!DurationMillis(d)
  BY DEF Db!DurationMillis, Store!DurationMillis
<1>2. \A job, d : Db!Extended(job, d) = Store!Extended(job, d)
  BY <1>1 DEF Db!Extended, Store!Extended
<1>3. \A job, d : Db!ReleasedJob(job, d) = Store!ReleasedJob(job, d)
  BY <1>1 DEF Db!ReleasedJob, Store!ReleasedJob
<1>4. \A job, d, c : Db!Claimed(job, c, d) = Store!Claimed(job, c, d)
  BY <1>1 DEF Db!Claimed, Store!Claimed
<1>5. \A job, r : Db!ResolvedJob(job, r) = Store!ResolvedJob(job, r)
  BY DEF Db!ResolvedJob, Store!ResolvedJob
<1> QED BY <1>1, <1>2, <1>3, <1>4, <1>5

(* No record appears.                                                      *)
NothingNew == \A j \in JobId : jobs[j] = Absent => jobs'[j] = Absent

LEMMA WriteKeeps ==
    ASSUME Db!StoreTypeOK, NEW j \in JobId, Db!Pending(j), NEW job, Db!Put(j, job),
           \/ \E d \in Duration : \/ job = Db!Extended(jobs[j], d)
                                  \/ job = Db!ReleasedJob(jobs[j], d)
                                  \/ \E c \in ClaimId : job = Db!Claimed(jobs[j], c, d)
           \/ \E r \in Resolution : job = Db!ResolvedJob(jobs[j], r)
    PROVE  Db!StoreTypeOK' /\ NothingNew
<1>1. Store!StoreTypeOK /\ Store!Pending(j) /\ Store!Put(j, job)
  BY SameType DEF Db!Pending, Store!Pending, Db!Put, Store!Put
<1>2. \/ \E d \in Duration : \/ job = Store!Extended(jobs[j], d)
                             \/ job = Store!ReleasedJob(jobs[j], d)
                             \/ \E c \in ClaimId : job = Store!Claimed(jobs[j], c, d)
      \/ \E r \in Resolution : job = Store!ResolvedJob(jobs[j], r)
  BY SameWrites
<1>3. Store!StoreTypeOK'
  BY <1>1, <1>2, Store!WriteTyped, StoreAssumptions
<1>4. NothingNew
  BY DEF NothingNew, Db!Put, Db!Pending
<1> QED BY <1>3, <1>4, SameType

LEMMA StoreStepKeeps ==
    ASSUME Db!StoreTypeOK, Db!StoreStep
    PROVE  Db!StoreTypeOK' /\ NothingNew
<1>1. ASSUME NEW j \in JobId, NEW d \in Duration, Db!Heartbeat(j, d) \/ Db!Release(j, d)
      PROVE  Db!StoreTypeOK' /\ NothingNew
  BY <1>1, WriteKeeps DEF Db!Heartbeat, Db!Release, Db!Held
<1>2. ASSUME NEW j \in JobId, NEW d \in Duration, NEW p \in Partition, NEW c \in ClaimId,
             Db!Claim(j, p, c, d)
      PROVE  Db!StoreTypeOK' /\ NothingNew
  BY <1>2, WriteKeeps DEF Db!Claim, Db!IsFirst, Db!ClaimFilter
<1>3. ASSUME NEW j \in JobId, NEW r \in Resolution, Db!Complete(j, r)
      PROVE  Db!StoreTypeOK' /\ NothingNew
  BY <1>3, WriteKeeps DEF Db!Complete, Db!Held
<1>4. ASSUME NEW j \in JobId, Db!Cancel(j)
      PROVE  Db!StoreTypeOK' /\ NothingNew
  BY <1>4, WriteKeeps, CollectionAssumption DEF Db!Cancel, Db!CancelFilter
<1>5. ASSUME NEW j \in JobId, Db!Expire(j)
      PROVE  Db!StoreTypeOK' /\ NothingNew
  <2>1. Store!StoreTypeOK /\ Store!Expire(j)
    BY <1>5, SameType
    DEF Db!Expire, Store!Expire, Db!Expirable, Store!Expirable, Db!Resolved,
        Store!Resolved, Db!Put, Store!Put
  <2>2. Store!StoreTypeOK'
    BY <2>1, Store!ExpireTyped, StoreAssumptions
  <2>3. NothingNew
    BY <1>5 DEF Db!Expire, Db!Put, NothingNew
  <2> QED BY <2>2, <2>3, SameType
<1>6. CASE Db!TickJobs
  <2>1. Store!StoreTypeOK /\ Store!TickJobs
    BY <1>6, SameType DEF Db!TickJobs, Store!TickJobs, Db!Pending, Store!Pending
  <2>2. Store!StoreTypeOK'
    BY <2>1, Store!TickTyped, StoreAssumptions
  <2>3. NothingNew
    BY <1>6 DEF Db!TickJobs, Db!Pending, NothingNew
  <2> QED BY <2>2, <2>3, SameType
<1> QED BY <1>1, <1>2, <1>3, <1>4, <1>5, <1>6 DEF Db!StoreStep

LEMMA InsertKeeps ==
    ASSUME Db!StoreTypeOK, NEW j \in JobId, NEW t \in Tenant, NEW p \in Partition,
           NEW v \in 0 .. MaxInt, NEW d \in Nat, Db!InsertOne(j, t, p, v, d)
    PROVE  /\ Db!StoreTypeOK'
           /\ jobs[j] = Absent /\ jobs'[j] # Absent
           /\ jobs'[j].tenant = t /\ jobs'[j].partition = p /\ jobs'[j].vstamp = v
           /\ jobs'[j].liveness = "pending" /\ jobs'[j].claim_id = NoClaim
           /\ jobs'[j].visible_in = Db!DurationMillis(d)
           /\ \A i \in JobId \ {j} : jobs'[i] = jobs[i]
<1> DEFINE job == Store!NewJob(t, p, v, d)
<1>1. /\ job \in Store!Job /\ job.liveness = "pending"
      /\ job.resolution = NoResolution /\ job.claim_id = NoClaim /\ job # Absent
  BY Store!NewJobType, StoreAssumptions DEF Store!AbsentAssumption
<1>2. Store!StoreTypeOK /\ Store!Put(j, job) /\ jobs[j] = Absent
  BY SameType, SameWrites DEF Db!InsertOne, Db!NewJob, Store!NewJob, Db!Put, Store!Put
<1>3. /\ job.tenant = t /\ job.partition = p /\ job.vstamp = v
      /\ job.visible_in = Db!DurationMillis(d)
  BY SameWrites DEF Store!NewJob
<1> HIDE DEF job
<1>4. /\ Store!StoreTypeOK' /\ jobs'[j] = job
      /\ \A i \in JobId \ {j} : jobs'[i] = jobs[i]
  BY <1>1, <1>2, Store!PutTyped, StoreAssumptions
<1> QED BY <1>1, <1>2, <1>3, <1>4, SameType

-----------------------------------------------------------------------------
(* What is read of the collection is a stamp.                              *)

LEMMA StampsTyped ==
    ASSUME Db!StoreTypeOK, NEW J, J \subseteq {j \in JobId : jobs[j] # Absent}
    PROVE  Db!Stamps(J) \subseteq 0 .. MaxInt
<1>1. \A j \in J : jobs[j] \in Db!Job
  BY DEF Db!StoreTypeOK
<1> QED BY <1>1 DEF Db!Stamps, Db!Job

LEMMA EdgeTyped ==
    ASSUME Db!StoreTypeOK, NEW t
    PROVE  Db!Edge(t) \in 0 .. MaxInt
<1> DEFINE J == Db!TimelineJobs(t)
           S == Db!Stamps(J)
<1>1. S \subseteq 0 .. MaxInt
  BY StampsTyped DEF Db!TimelineJobs, Db!Pending
<1>2. CASE J = {}
  BY <1>2, VTimeAssumption DEF Db!Edge
<1>3. CASE J # {}
  <2>1. S # {} /\ Db!Edge(t) = Max(S)
    BY <1>3 DEF Db!Stamps, Db!Edge, Db!Max, Max
  <2> QED BY <1>1, <2>1, ExtremesExist
<1> QED BY <1>2, <1>3

(* A frontier is no stamp or one.                                          *)
LEMMA FrontierTyped ==
    ASSUME Db!StoreTypeOK, NEW p
    PROVE  /\ Db!Frontier(p) # {} => Max(Db!Frontier(p)) \in 0 .. MaxInt
           /\ FrontierOrZero(p) \in 0 .. MaxInt
<1> DEFINE F == Db!Fenced(p)
           G == Db!PendingIn(p)
<1>1. Db!Stamps(F) \subseteq 0 .. MaxInt /\ Db!Stamps(G) \subseteq 0 .. MaxInt
  BY StampsTyped DEF Db!Fenced, Db!PendingIn, Db!Pending
<1>2. /\ F # {} => Max(Db!Stamps(F)) \in 0 .. MaxInt
      /\ G # {} => Min(Db!Stamps(G)) \in 0 .. MaxInt
  <2>1. /\ F # {} => Db!Stamps(F) # {}
        /\ G # {} => Db!Stamps(G) # {}
    BY DEF Db!Stamps
  <2> QED BY <1>1, <2>1, ExtremesExist
<1>3. Db!Frontier(p) \subseteq 0 .. MaxInt
  BY <1>2 DEF Db!Frontier, Db!Max, Db!Min, Max, Min
<1>4. Db!Frontier(p) # {} => Max(Db!Frontier(p)) \in 0 .. MaxInt
  BY <1>3, ExtremesExist
<1> QED BY <1>4, VTimeAssumption DEF FrontierOrZero

-----------------------------------------------------------------------------
(* Type correctness.                                                       *)

Stored == 0 .. MaxInt \cup {NoLWM}

LEMMA Timelines ==
    ASSUME NEW t \in Timeline
    PROVE  /\ t[1] \in Tenant /\ t[2] \in Partition /\ t = << t[1], t[2] >>
           /\ Home[t[1]] \in Node
BY DispatchAssumption DEF Timeline

(* A refresh keeps what it does not read.                                  *)
LEMMA RefreshReads ==
    ASSUME DispatchTypeOK, NEW n \in Node, NEW P
    PROVE  /\ Refreshed(n, P) \in [Partition -> Stored]
           /\ \A p \in Partition :
                /\ p \notin P \/ Db!Frontier(p) = {} => Refreshed(n, P)[p] = lwm[n][p]
                /\ p \in P /\ Db!Frontier(p) # {}
                     => Refreshed(n, P)[p] = FrontierOrZero(p)
<1>1. \A p \in Partition : lwm[n][p] \in Stored
  BY DEF DispatchTypeOK, Stored
<1>2. \A p \in Partition : Db!Frontier(p) # {} => Max(Db!Frontier(p)) \in Stored
  BY FrontierTyped DEF DispatchTypeOK, Stored
<1> QED BY <1>1, <1>2 DEF Refreshed, FrontierOrZero

LEMMA ReserveReads ==
    ASSUME DispatchTypeOK, NEW t \in Timeline
    PROVE  /\ LwmAtReserve(t) \in [Node -> [Partition -> Stored]]
           /\ \A n \in Node, p \in Partition :
                << n, p >> # << Home[t[1]], t[2] >> => LwmAtReserve(t)[n][p] = lwm[n][p]
<1> DEFINE h == Home[t[1]]
           fresh == Refreshed(h, {t[2]})
<1>1. h \in Node /\ lwm \in [Node -> [Partition -> Stored]]
  BY Timelines DEF DispatchTypeOK, Stored
<1>2. /\ fresh \in [Partition -> Stored]
      /\ \A p \in Partition : p # t[2] => fresh[p] = lwm[h][p]
  BY <1>1, RefreshReads
<1>3. LwmAtReserve(t) \in {lwm, [lwm EXCEPT ![h] = fresh]}
  BY DEF LwmAtReserve
<1> HIDE DEF h, fresh
<1>4. \A n \in Node, p \in Partition :
        << n, p >> # << h, t[2] >> => LwmAtReserve(t)[n][p] = lwm[n][p]
  BY <1>1, <1>2, <1>3
<1> QED BY <1>1, <1>2, <1>3, <1>4 DEF h

LEMMA BaseTyped ==
    ASSUME DispatchTypeOK, NEW t \in Timeline
    PROVE  /\ ClockOf(t) \in Clock
           /\ LwmFor(LwmAtReserve(t), Home[t[1]], t[2]) \in 0 .. MaxInt
           /\ Base(t) \in 0 .. MaxInt
           /\ ~Warm(t) => LwmFor(LwmAtReserve(t), Home[t[1]], t[2]) <= Base(t)
<1>1. ClockOf(t) \in Clock
  BY VTimeAssumption DEF DispatchTypeOK, ClockOf, NewClock, Clock
<1>2. LwmFor(LwmAtReserve(t), Home[t[1]], t[2]) \in 0 .. MaxInt
  BY ReserveReads, Timelines, VTimeAssumption DEF LwmFor, Stored
<1>3. Db!Edge(t) \in 0 .. MaxInt
  BY EdgeTyped DEF DispatchTypeOK
<1>4. Seed(t) \in 0 .. MaxInt /\ LwmFor(LwmAtReserve(t), Home[t[1]], t[2]) <= Seed(t)
  <2> DEFINE floor == LwmFor(LwmAtReserve(t), Home[t[1]], t[2])
  <2>1. Seed(t) = Larger(Db!Edge(t), floor)
    BY DEF Seed
  <2> HIDE DEF floor
  <2>2. floor \in 0 .. MaxInt
    BY <1>2 DEF floor
  <2>3. Seed(t) \in 0 .. MaxInt /\ floor <= Seed(t)
    BY <1>3, <2>1, <2>2, VTimeAssumption DEF Larger
  <2> QED BY <2>3 DEF floor
<1> QED BY <1>1, <1>2, <1>4 DEF Base, Clock

LEMMA NextStampAdvances ==
    ASSUME DispatchTypeOK, NEW t \in Timeline, NEW cost \in Cost, NEW weight \in Weight,
           StampFits(Base(t), cost, weight)
    PROVE  /\ NextStamp(t, cost, weight) \in 0 .. MaxInt
           /\ Base(t) < NextStamp(t, cost, weight)
<1>1. /\ cost \in 1 .. MaxInt /\ weight \in 1 .. MaxInt
      /\ cost <= MaxCost /\ MaxInt \in Nat
  BY DispatchAssumption, VTimeAssumption DEF StampFits
<1>2. Base(t) \in 0 .. MaxInt
  BY BaseTyped
<1>3. /\ NextStamp(t, cost, weight) = Base(t) + Stride(cost, weight)
      /\ NextStamp(t, cost, weight) \in 0 .. MaxInt
      /\ Stride(cost, weight) \in 1 .. MaxInt
  BY <1>1, <1>2, StampExact DEF NextStamp
<1> QED BY <1>1, <1>2, <1>3

LEMMA ReserveTyped ==
    ASSUME DispatchTypeOK, NEW t \in Timeline, NEW clock \in Clock,
           clocks' = [clocks EXCEPT ![t] = clock],
           lwm' \in {lwm, LwmAtReserve(t)}, Db!StoreTypeOK'
    PROVE  DispatchTypeOK'
<1>1. lwm' \in [Node -> [Partition -> Stored]]
  BY ReserveReads DEF DispatchTypeOK, Stored
<1>2. clocks' \in [Timeline -> Clock \cup {NoClock}]
  BY DEF DispatchTypeOK
<1> QED BY <1>1, <1>2 DEF DispatchTypeOK, Stored

LEMMA LeaveTyped ==
    ASSUME DispatchTypeOK, NEW t \in Timeline, NEW v \in 0 .. MaxInt, Leave(t, v),
           Db!StoreTypeOK'
    PROVE  DispatchTypeOK'
<1> DEFINE clock == [vtime |-> v, seeded |-> TRUE, everSeeded |-> TRUE,
                     touched |-> TRUE, stale |-> FALSE]
<1>1. clock \in Clock
  BY DEF Clock
<1>2. clocks' = [clocks EXCEPT ![t] = clock] /\ lwm' = LwmAtReserve(t)
  BY DEF Leave
<1> HIDE DEF clock
<1> QED BY <1>1, <1>2, ReserveTyped

LEMMA ReconcileTyped ==
    ASSUME DispatchTypeOK, NEW n \in Node, NEW failed, Reconcile(n, failed)
    PROVE  DispatchTypeOK'
<1>1. \A t \in Timeline : Walked(clocks[t]) \in Clock \cup {NoClock}
  <2>1. ASSUME NEW clock \in Clock
        PROVE  Walked(clock) \in Clock \cup {NoClock}
    BY DEF Walked, Clock
  <2>2. Walked(NoClock) = NoClock
    BY DEF Walked
  <2> QED BY <2>1, <2>2 DEF DispatchTypeOK
<1>2. clocks' \in [Timeline -> Clock \cup {NoClock}]
  BY <1>1 DEF Reconcile, DispatchTypeOK
<1> DEFINE fresh == Refreshed(n, CachedOn(n, clocks) \ failed)
           kept == [p \in Partition |-> IF p \in CachedOn(n, clocks') THEN fresh[p] ELSE NoLWM]
<1>3. fresh \in [Partition -> Stored]
  BY RefreshReads
<1>4. lwm' = [lwm EXCEPT ![n] = kept] /\ UNCHANGED jobs
  BY DEF Reconcile
<1> HIDE DEF fresh
<1>5. kept \in [Partition -> Stored]
  BY <1>3 DEF Stored
<1> HIDE DEF kept
<1>6. lwm' \in [Node -> [Partition -> Stored]]
  BY <1>4, <1>5 DEF DispatchTypeOK, Stored
<1> QED BY <1>2, <1>4, <1>6 DEF DispatchTypeOK, Stored, Db!StoreTypeOK

LEMMA EnqueueTyped ==
    ASSUME DispatchTypeOK, NEW t \in Timeline, NEW j \in JobId, NEW d \in Nat,
           NEW cost \in Cost, NEW weight \in Weight, Enqueue(j, t, cost, weight, d)
    PROVE  DispatchTypeOK'
<1>1. NextStamp(t, cost, weight) \in 0 .. MaxInt
  BY NextStampAdvances DEF Enqueue
<1>2. Db!StoreTypeOK'
  BY <1>1, Timelines, InsertKeeps DEF Enqueue, DispatchTypeOK
<1> QED BY <1>1, <1>2, LeaveTyped DEF Enqueue

LEMMA NextTyped == DispatchTypeOK /\ [Next]_vars => DispatchTypeOK'
<1> SUFFICES ASSUME DispatchTypeOK, [Next]_vars
             PROVE  DispatchTypeOK'
  OBVIOUS
<1>0. UNCHANGED jobs => Db!StoreTypeOK'
  BY DEF DispatchTypeOK, Db!StoreTypeOK
<1>1. ASSUME NEW t \in Timeline, NEW j \in JobId, NEW cost \in Cost, NEW weight \in Weight,
             NEW d \in Duration, Enqueue(j, t, cost, weight, d)
      PROVE  DispatchTypeOK'
  BY <1>1, EnqueueTyped, CollectionAssumption
<1>2. ASSUME NEW t \in Timeline, EnqueueFails(t)
      PROVE  DispatchTypeOK'
  BY <1>0, <1>2, BaseTyped, LeaveTyped DEF EnqueueFails
<1>3. ASSUME NEW t \in Timeline, SeedFails(t)
      PROVE  DispatchTypeOK'
  <2>1. [ClockOf(t) EXCEPT !.touched = TRUE, !.stale = FALSE, !.seeded = FALSE] \in Clock
    BY BaseTyped DEF Clock
  <2> QED BY <1>0, <1>3, <2>1, ReserveTyped DEF SeedFails
<1>4. ASSUME NEW n \in Node, NEW failed, Reconcile(n, failed)
      PROVE  DispatchTypeOK'
  BY <1>4, ReconcileTyped
<1>5. ASSUME NEW n \in Node, Restart(n)
      PROVE  DispatchTypeOK'
  <2>1. NothingStored \in [Partition -> 0 .. MaxInt \cup {NoLWM}]
    BY DEF NothingStored
  <2> QED BY <1>0, <1>5, <2>1 DEF Restart, DispatchTypeOK
<1>6. CASE StoreStep
  BY <1>6, StoreStepKeeps DEF StoreStep, DispatchTypeOK
<1>7. CASE UNCHANGED vars
  BY <1>0, <1>7 DEF vars, DispatchTypeOK
<1> QED BY <1>1, <1>2, <1>3, <1>4, <1>5, <1>6, <1>7 DEF Next

LEMMA InitTyped == Init => DispatchTypeOK
BY DEF Init, Db!StoreInit, NothingStored, DispatchTypeOK, Db!StoreTypeOK

(* Clocks, stored frontiers and records stay well typed: no stamp ever     *)
(* leaves the range of an int64.                                           *)
THEOREM DispatchTypeCorrect == Spec => []DispatchTypeOK
BY InitTyped, NextTyped, PTL DEF Spec

-----------------------------------------------------------------------------
(* Joining at the point of service.  Every place a clock can start from is *)
(* at or above the lowest frontier since the node last read it: a frontier *)
(* a warm or returning tenant would use, and the clock of a warm one.      *)

LowIsLow ==
    /\ low \in [Node -> [Partition -> 0 .. MaxInt]]
    /\ \A n \in Node, p \in Partition : low[n][p] <= FrontierOrZero(p)

FrontiersRead ==
    \A t \in Timeline : clocks[t] # NoClock /\ clocks[t].everSeeded =>
        low[Home[t[1]]][t[2]] <= LwmFor(lwm, Home[t[1]], t[2])

ClocksRead ==
    \A t \in Timeline : clocks[t] # NoClock /\ clocks[t].seeded /\ ~clocks[t].stale =>
        low[Home[t[1]]][t[2]] <= clocks[t].vtime

PlacementInv == LowIsLow /\ FrontiersRead /\ ClocksRead

LEMMA LwmTyped ==
    ASSUME NEW stored \in [Node -> [Partition -> Stored]],
           NEW n \in Node, NEW p \in Partition
    PROVE  LwmFor(stored, n, p) \in 0 .. MaxInt
BY VTimeAssumption DEF LwmFor, Stored

(* A reserve looks up the frontier unless it was read for its entry.       *)
LEMMA ReserveIsAbove ==
    ASSUME DispatchTypeOK, PlacementInv, NEW t \in Timeline
    PROVE  /\ low[Home[t[1]]][t[2]] <= LwmFor(LwmAtReserve(t), Home[t[1]], t[2])
           /\ low[Home[t[1]]][t[2]] <= Base(t)
<1> DEFINE n == Home[t[1]]
           p == t[2]
<1>1. /\ n \in Node /\ p \in Partition /\ low[n][p] \in 0 .. MaxInt
      /\ FrontierOrZero(p) \in 0 .. MaxInt /\ low[n][p] <= FrontierOrZero(p)
      /\ MaxInt \in Nat
  BY Timelines, FrontierTyped, VTimeAssumption DEF PlacementInv, LowIsLow, DispatchTypeOK
<1>2. low[n][p] <= LwmFor(LwmAtReserve(t), n, p)
  <2>1. CASE ClockOf(t).everSeeded
    <3>1. clocks[t] # NoClock /\ clocks[t].everSeeded
      BY <2>1 DEF ClockOf, NewClock
    <3> QED BY <2>1, <3>1 DEF PlacementInv, FrontiersRead, LwmAtReserve
  <2>2. CASE ~ClockOf(t).everSeeded
    <3>1. LwmAtReserve(t)[n] = Refreshed(n, {p})
      BY <1>1, <2>2 DEF LwmAtReserve, DispatchTypeOK
    <3>2. CASE Db!Frontier(p) = {}
      <4>1. low[n][p] = 0
        BY <1>1, <3>2 DEF FrontierOrZero
      <4>2. LwmFor(LwmAtReserve(t), n, p) \in 0 .. MaxInt
        BY <1>1, ReserveReads, LwmTyped
      <4> QED BY <4>1, <4>2
    <3>3. CASE Db!Frontier(p) # {}
      <4>1. LwmAtReserve(t)[n][p] = FrontierOrZero(p)
        BY <1>1, <3>1, <3>3, RefreshReads
      <4> QED BY <1>1, <4>1, DispatchAssumption DEF LwmFor
    <3> QED BY <3>2, <3>3
  <2> QED BY <2>1, <2>2
<1>3. low[n][p] <= Base(t)
  <2>1. CASE Warm(t)
    <3>1. clocks[t] # NoClock /\ clocks[t].seeded /\ ~clocks[t].stale
      BY <2>1 DEF Warm, ClockOf, NewClock
    <3> QED BY <2>1, <3>1 DEF PlacementInv, ClocksRead, Base, ClockOf
  <2>2. CASE ~Warm(t)
    <3>1. LwmFor(LwmAtReserve(t), n, p) <= Base(t)
      BY <2>2, BaseTyped
    <3>2. LwmFor(LwmAtReserve(t), n, p) \in 0 .. MaxInt /\ Base(t) \in 0 .. MaxInt
      BY BaseTyped
    <3> QED BY <1>1, <1>2, <3>1, <3>2
  <2> QED BY <2>1, <2>2
<1> QED BY <1>2, <1>3

LEMMA FrontierBounded ==
    Db!StoreTypeOK => \A p \in Partition : FrontierOrZero(p) \in 0 .. MaxInt
BY FrontierTyped

(* The history never rises but where it begins anew.                       *)
LEMMA WatchLowers ==
    ASSUME LowIsLow, DispatchTypeOK, DispatchTypeOK', NEW n \in Node, NEW P, Watch(n, P),
           P = {} \/ UNCHANGED jobs
    PROVE  /\ LowIsLow'
           /\ \A m \in Node, p \in Partition :
                /\ m # n \/ p \notin P => low'[m][p] <= low[m][p]
                /\ m = n /\ p \in P => low'[m][p] = FrontierOrZero(p)
<1>1. \A p \in Partition : /\ FrontierOrZero(p) \in 0 .. MaxInt
                           /\ FrontierOrZero(p)' \in 0 .. MaxInt
  <2>1. (Db!StoreTypeOK => \A p \in Partition : FrontierOrZero(p) \in 0 .. MaxInt)'
    BY FrontierBounded, PTL
  <2> QED BY <2>1, FrontierBounded DEF DispatchTypeOK
<1>2. UNCHANGED jobs => \A p \in Partition : FrontierOrZero(p)' = FrontierOrZero(p)
  BY DEF FrontierOrZero, Db!Frontier, Db!Fenced, Db!PendingIn, Db!Pending, Db!Stamps
<1>3. ASSUME NEW m \in Node, NEW p \in Partition
      PROVE  /\ low'[m][p] \in 0 .. MaxInt
             /\ low'[m][p] <= FrontierOrZero(p)'
             /\ m # n \/ p \notin P => low'[m][p] <= low[m][p]
             /\ m = n /\ p \in P => low'[m][p] = FrontierOrZero(p)
  <2>1. /\ FrontierOrZero(p) \in 0 .. MaxInt /\ FrontierOrZero(p)' \in 0 .. MaxInt
        /\ low[m][p] \in 0 .. MaxInt /\ MaxInt \in Nat
    BY <1>1, VTimeAssumption DEF LowIsLow
  <2>2. CASE m = n /\ p \in P
    <3>1. low'[m][p] = FrontierOrZero(p)
      BY <2>2 DEF Watch
    <3> QED BY <1>2, <2>1, <2>2, <3>1
  <2>3. CASE ~(m = n /\ p \in P)
    <3>1. low'[m][p] = Lower(low[m][p], FrontierOrZero(p)')
      BY <2>3 DEF Watch
    <3> QED BY <2>1, <2>3, <3>1 DEF Lower
  <2> QED BY <2>2, <2>3
<1>4. low' \in [Node -> [Partition -> 0 .. MaxInt]]
  <2>1. low' = [m \in Node |-> [p \in Partition |-> low'[m][p]]]
    BY DEF Watch
  <2> QED BY <1>3, <2>1
<1> QED BY <1>3, <1>4 DEF LowIsLow

(* A reserve that writes one clock, no lower than it started from.         *)
LEMMA ReserveKeepsPlacement ==
    ASSUME DispatchTypeOK, DispatchTypeOK', PlacementInv, NEW t \in Timeline,
           NEW n \in Node, Watch(n, {}), NEW clock \in Clock,
           clocks' = [clocks EXCEPT ![t] = clock],
           lwm' \in {lwm, LwmAtReserve(t)},
           clock.seeded => lwm' = LwmAtReserve(t) /\ Base(t) <= clock.vtime,
           clock.everSeeded => lwm' = LwmAtReserve(t) \/ ClockOf(t).everSeeded
    PROVE  PlacementInv'
<1>1. /\ LowIsLow'
      /\ \A m \in Node, p \in Partition : low'[m][p] <= low[m][p]
      /\ \A m \in Node, p \in Partition : low[m][p] \in 0 .. MaxInt /\ low'[m][p] \in 0 .. MaxInt
      /\ MaxInt \in Nat
  BY WatchLowers, VTimeAssumption DEF PlacementInv, LowIsLow
<1>2. /\ low[Home[t[1]]][t[2]] <= LwmFor(LwmAtReserve(t), Home[t[1]], t[2])
      /\ low[Home[t[1]]][t[2]] <= Base(t)
      /\ Base(t) \in 0 .. MaxInt
  BY ReserveIsAbove, BaseTyped
<1>3. \A u \in Timeline \ {t} : clocks'[u] = clocks[u]
  OBVIOUS
<1>4. clocks'[t] = clock
  BY DEF DispatchTypeOK
<1>5. ASSUME NEW u \in Timeline, clocks'[u] # NoClock, clocks'[u].everSeeded
      PROVE  low'[Home[u[1]]][u[2]] <= LwmFor(lwm', Home[u[1]], u[2])
  <2> DEFINE m == Home[u[1]]
             p == u[2]
  <2>1. m \in Node /\ p \in Partition
    BY Timelines
  <2>2. low[m][p] <= LwmFor(lwm', m, p)
    <3>1. CASE << m, p >> = << Home[t[1]], t[2] >> /\ lwm' = LwmAtReserve(t)
      BY <1>2, <3>1
    <3>2. CASE << m, p >> # << Home[t[1]], t[2] >> \/ lwm' # LwmAtReserve(t)
      <4>1. LwmFor(lwm', m, p) = LwmFor(lwm, m, p)
        BY <2>1, <3>2, ReserveReads DEF LwmFor
      <4>2. clocks[u] # NoClock /\ clocks[u].everSeeded
        <5>1. CASE u = t
          <6>1. ClockOf(t).everSeeded
            BY <1>4, <1>5, <3>2, <5>1
          <6> QED BY <5>1, <6>1 DEF ClockOf, NewClock
        <5>2. CASE u # t
          BY <1>3, <1>5, <5>2
        <5> QED BY <5>1, <5>2
      <4> QED BY <4>1, <4>2 DEF PlacementInv, FrontiersRead
    <3> QED BY <3>1, <3>2
  <2>3. lwm' \in [Node -> [Partition -> Stored]]
    BY DEF DispatchTypeOK, Stored
  <2>4. LwmFor(lwm', m, p) \in 0 .. MaxInt
    BY <2>1, <2>3, LwmTyped
  <2> HIDE DEF m, p
  <2>5. low'[m][p] <= LwmFor(lwm', m, p)
    BY <1>1, <2>1, <2>2, <2>4
  <2> QED BY <2>5 DEF m, p
<1>6. ASSUME NEW u \in Timeline, clocks'[u] # NoClock, clocks'[u].seeded, ~clocks'[u].stale
      PROVE  low'[Home[u[1]]][u[2]] <= clocks'[u].vtime
  <2> DEFINE x == low'[Home[u[1]]][u[2]]
             y == low[Home[u[1]]][u[2]]
  <2>1. x \in Nat /\ y \in Nat /\ x <= y
    BY <1>1, Timelines
  <2>2. clocks'[u].vtime \in Nat /\ y <= clocks'[u].vtime
    <3>1. CASE u = t
      <4>1. clock.vtime \in Nat /\ Base(t) \in Nat /\ Base(t) <= clock.vtime
        BY <1>1, <1>2, <1>4, <1>6, <3>1 DEF Clock
      <4> QED BY <1>2, <1>4, <2>1, <3>1, <4>1
    <3>2. CASE u # t
      <4>1. clocks'[u] = clocks[u] /\ clocks[u] \in Clock
        BY <1>3, <1>6, <3>2 DEF DispatchTypeOK
      <4>2. clocks[u].vtime \in Nat
        BY <1>1, <4>1 DEF Clock
      <4> QED BY <1>6, <4>1, <4>2 DEF PlacementInv, ClocksRead
    <3> QED BY <3>1, <3>2
  <2> HIDE DEF x, y
  <2>3. x <= clocks'[u].vtime
    BY <2>1, <2>2
  <2> QED BY <2>3 DEF x
<1> QED BY <1>1, <1>5, <1>6 DEF PlacementInv, FrontiersRead, ClocksRead

LEMMA LeaveKeepsPlacement ==
    ASSUME DispatchTypeOK, DispatchTypeOK', PlacementInv, NEW t \in Timeline,
           NEW n \in Node, Watch(n, {}), NEW v \in 0 .. MaxInt, Base(t) <= v, Leave(t, v)
    PROVE  PlacementInv'
<1> DEFINE clock == [vtime |-> v, seeded |-> TRUE, everSeeded |-> TRUE,
                     touched |-> TRUE, stale |-> FALSE]
<1>1. clock \in Clock /\ clock.vtime = v
  BY DEF Clock
<1>2. clocks' = [clocks EXCEPT ![t] = clock] /\ lwm' = LwmAtReserve(t)
  BY DEF Leave
<1> HIDE DEF clock
<1> QED BY <1>1, <1>2, ReserveKeepsPlacement

(* A walk marks what it keeps.  A partition it does not refresh keeps its  *)
(* frontier, and its history goes on.                                      *)
LEMMA ReconcileKeepsPlacement ==
    ASSUME DispatchTypeOK, DispatchTypeOK', PlacementInv, NEW n \in Node, NEW failed,
           Reconcile(n, failed), Watch(n, Partition \ failed)
    PROVE  PlacementInv'
<1>0. UNCHANGED jobs
  BY DEF Reconcile
<1>1. /\ LowIsLow'
      /\ \A m \in Node, p \in Partition :
            /\ low[m][p] \in 0 .. MaxInt /\ low'[m][p] \in 0 .. MaxInt
            /\ m # n \/ p \in failed => low'[m][p] <= low[m][p]
            /\ m = n /\ p \notin failed => low'[m][p] = FrontierOrZero(p)
      /\ MaxInt \in Nat
  BY <1>0, WatchLowers, VTimeAssumption DEF PlacementInv, LowIsLow
<1>2. ASSUME NEW u \in Timeline, clocks'[u] # NoClock
      PROVE  /\ clocks[u] # NoClock
             /\ clocks'[u].everSeeded = clocks[u].everSeeded
             /\ Home[u[1]] = n => clocks'[u].stale
             /\ Home[u[1]] # n => clocks'[u] = clocks[u]
  <2>1. clocks[u] \in Clock \cup {NoClock}
    BY DEF DispatchTypeOK
  <2>2. clocks'[u] = IF Home[u[1]] = n THEN Walked(clocks[u]) ELSE clocks[u]
    BY DEF Reconcile
  <2>3. CASE Home[u[1]] = n
    <3>1. clocks[u] \in Clock /\ clocks[u] # NoClock
          /\ clocks'[u] = [clocks[u] EXCEPT !.touched = FALSE, !.stale = TRUE]
      BY <1>2, <2>1, <2>2, <2>3 DEF Walked
    <3> QED BY <2>3, <3>1 DEF Clock
  <2>4. CASE Home[u[1]] # n
    BY <1>2, <2>2, <2>4
  <2> QED BY <2>3, <2>4
<1> DEFINE fresh == Refreshed(n, CachedOn(n, clocks) \ failed)
<1>3. /\ \A m \in Node \ {n} : lwm'[m] = lwm[m]
      /\ \A p \in CachedOn(n, clocks') \cap Partition : lwm'[n][p] = fresh[p]
  BY DEF Reconcile, DispatchTypeOK
<1>4. \A p \in Partition :
        /\ p \in failed \/ Db!Frontier(p) = {} => fresh[p] = lwm[n][p]
        /\ p \in CachedOn(n, clocks) \ failed /\ Db!Frontier(p) # {}
             => fresh[p] = FrontierOrZero(p)
  BY RefreshReads
<1> HIDE DEF fresh
<1>5. ASSUME NEW u \in Timeline, clocks'[u] # NoClock, clocks'[u].everSeeded
      PROVE  low'[Home[u[1]]][u[2]] <= LwmFor(lwm', Home[u[1]], u[2])
  <2> DEFINE m == Home[u[1]]
             p == u[2]
             x == LwmFor(lwm', m, p)
  <2>1. m \in Node /\ p \in Partition
    BY Timelines
  <2>2. /\ lwm \in [Node -> [Partition -> Stored]]
        /\ lwm' \in [Node -> [Partition -> Stored]]
    BY DEF DispatchTypeOK, Stored
  <2>3. x \in 0 .. MaxInt
    BY <2>1, <2>2, LwmTyped
  <2>4. low[m][p] <= LwmFor(lwm, m, p)
    BY <1>2, <1>5 DEF PlacementInv, FrontiersRead
  <2>5. m = n => p \in CachedOn(n, clocks) /\ p \in CachedOn(n, clocks')
    BY <1>2, <1>5 DEF CachedOn
  <2>6. CASE m # n \/ p \in failed
    <3>1. x = LwmFor(lwm, m, p)
      BY <1>3, <1>4, <2>1, <2>5, <2>6 DEF LwmFor
    <3>2. low'[m][p] <= low[m][p] /\ low[m][p] \in Nat /\ low'[m][p] \in Nat
      BY <1>1, <2>1, <2>6
    <3> HIDE DEF m, p, x
    <3>3. low'[m][p] <= x
      BY <1>1, <2>3, <2>4, <3>1, <3>2
    <3> QED BY <3>3 DEF m, p, x
  <2>7. CASE m = n /\ p \notin failed
    <3>1. low'[m][p] = FrontierOrZero(p)
      BY <1>1, <2>1, <2>7
    <3>2. CASE Db!Frontier(p) = {}
      BY <2>3, <3>1, <3>2, <1>1 DEF FrontierOrZero
    <3>3. CASE Db!Frontier(p) # {}
      <4>1. lwm'[m][p] = FrontierOrZero(p)
        BY <1>3, <1>4, <2>1, <2>5, <2>7, <3>3
      <4>2. FrontierOrZero(p) \in 0 .. MaxInt
        BY <2>1, FrontierBounded DEF DispatchTypeOK
      <4>3. x = FrontierOrZero(p)
        BY <4>1, <4>2, DispatchAssumption DEF LwmFor
      <4> QED BY <1>1, <3>1, <4>2, <4>3
    <3> QED BY <3>2, <3>3
  <2> QED BY <2>6, <2>7
<1>6. ASSUME NEW u \in Timeline, clocks'[u] # NoClock, clocks'[u].seeded, ~clocks'[u].stale
      PROVE  low'[Home[u[1]]][u[2]] <= clocks'[u].vtime
  <2> DEFINE x == low'[Home[u[1]]][u[2]]
             y == low[Home[u[1]]][u[2]]
  <2>1. Home[u[1]] # n /\ clocks'[u] = clocks[u] /\ clocks[u] # NoClock
    BY <1>2, <1>6
  <2>2. x \in Nat /\ y \in Nat /\ x <= y
    BY <1>1, <2>1, Timelines
  <2>3. clocks[u].vtime \in Nat
    BY <1>1, <2>1 DEF DispatchTypeOK, Clock
  <2>4. y <= clocks[u].vtime
    BY <1>6, <2>1 DEF PlacementInv, ClocksRead
  <2> HIDE DEF x, y
  <2>5. x <= clocks'[u].vtime
    BY <2>1, <2>2, <2>3, <2>4
  <2> QED BY <2>5 DEF x
<1> QED BY <1>1, <1>5, <1>6 DEF PlacementInv, FrontiersRead, ClocksRead

LEMMA RestartKeepsPlacement ==
    ASSUME DispatchTypeOK, DispatchTypeOK', PlacementInv, NEW n \in Node,
           Restart(n), Watch(n, Partition)
    PROVE  PlacementInv'
<1>1. /\ LowIsLow'
      /\ \A m \in Node \ {n}, p \in Partition : low'[m][p] <= low[m][p]
      /\ \A m \in Node, p \in Partition : low[m][p] \in 0 .. MaxInt /\ low'[m][p] \in 0 .. MaxInt
      /\ MaxInt \in Nat
  BY WatchLowers, VTimeAssumption DEF PlacementInv, LowIsLow, Restart
<1>2. ASSUME NEW u \in Timeline, clocks'[u] # NoClock
      PROVE  /\ Home[u[1]] # n /\ clocks'[u] = clocks[u] /\ clocks[u] \in Clock
             /\ lwm'[Home[u[1]]] = lwm[Home[u[1]]]
             /\ low'[Home[u[1]]][u[2]] <= low[Home[u[1]]][u[2]]
  BY <1>1, <1>2, Timelines DEF Restart, DispatchTypeOK
<1>3. ASSUME NEW u \in Timeline, clocks'[u] # NoClock
      PROVE  /\ low'[Home[u[1]]][u[2]] \in Nat /\ low[Home[u[1]]][u[2]] \in Nat
             /\ LwmFor(lwm, Home[u[1]], u[2]) \in Nat
             /\ LwmFor(lwm', Home[u[1]], u[2]) = LwmFor(lwm, Home[u[1]], u[2])
             /\ clocks[u].vtime \in Nat
  <2>1. lwm \in [Node -> [Partition -> Stored]]
    BY DEF DispatchTypeOK, Stored
  <2>2. LwmFor(lwm, Home[u[1]], u[2]) \in 0 .. MaxInt
    BY <2>1, Timelines, LwmTyped
  <2>3. LwmFor(lwm', Home[u[1]], u[2]) = LwmFor(lwm, Home[u[1]], u[2])
    BY <1>2, <1>3 DEF LwmFor
  <2> QED BY <1>1, <1>2, <1>3, <2>2, <2>3, Timelines DEF Clock
<1>4. ASSUME NEW u \in Timeline, clocks'[u] # NoClock, clocks'[u].everSeeded
      PROVE  low'[Home[u[1]]][u[2]] <= LwmFor(lwm', Home[u[1]], u[2])
  <2>1. low[Home[u[1]]][u[2]] <= LwmFor(lwm, Home[u[1]], u[2])
    BY <1>2, <1>4 DEF PlacementInv, FrontiersRead
  <2> QED BY <1>2, <1>3, <1>4, <2>1
<1>5. ASSUME NEW u \in Timeline, clocks'[u] # NoClock, clocks'[u].seeded, ~clocks'[u].stale
      PROVE  low'[Home[u[1]]][u[2]] <= clocks'[u].vtime
  <2>1. low[Home[u[1]]][u[2]] <= clocks[u].vtime
    BY <1>2, <1>5 DEF PlacementInv, ClocksRead
  <2> QED BY <1>2, <1>3, <1>5, <2>1
<1> QED BY <1>1, <1>4, <1>5 DEF PlacementInv, FrontiersRead, ClocksRead

(* Where clocks and stored frontiers stay, so do the bounds.               *)
LEMMA OthersKeepPlacement ==
    ASSUME DispatchTypeOK, DispatchTypeOK', PlacementInv, UNCHANGED << clocks, lwm >>,
           LowIsLow', \A m \in Node, p \in Partition : low'[m][p] <= low[m][p]
    PROVE  PlacementInv'
<1>1. ASSUME NEW u \in Timeline
      PROVE  /\ low'[Home[u[1]]][u[2]] \in 0 .. MaxInt
             /\ low[Home[u[1]]][u[2]] \in 0 .. MaxInt
             /\ low'[Home[u[1]]][u[2]] <= low[Home[u[1]]][u[2]]
             /\ LwmFor(lwm, Home[u[1]], u[2]) \in 0 .. MaxInt
             /\ LwmFor(lwm', Home[u[1]], u[2]) = LwmFor(lwm, Home[u[1]], u[2])
             /\ MaxInt \in Nat
             /\ clocks[u] # NoClock => clocks[u].vtime \in 0 .. MaxInt
  <2>1. lwm \in [Node -> [Partition -> Stored]]
    BY DEF DispatchTypeOK, Stored
  <2>2. LwmFor(lwm, Home[u[1]], u[2]) \in 0 .. MaxInt
    BY <2>1, Timelines, LwmTyped
  <2>3. clocks[u] \in Clock \cup {NoClock}
    BY DEF DispatchTypeOK
  <2> QED BY <2>2, <2>3, Timelines, VTimeAssumption DEF PlacementInv, LowIsLow, LwmFor, Clock
<1>2. FrontiersRead'
  <2> SUFFICES ASSUME NEW u \in Timeline, clocks[u] # NoClock, clocks[u].everSeeded
               PROVE  low'[Home[u[1]]][u[2]] <= LwmFor(lwm', Home[u[1]], u[2])
    BY DEF FrontiersRead
  <2>1. low[Home[u[1]]][u[2]] <= LwmFor(lwm, Home[u[1]], u[2])
    BY DEF PlacementInv, FrontiersRead
  <2> QED BY <1>1, <2>1
<1>3. ClocksRead'
  <2> SUFFICES ASSUME NEW u \in Timeline, clocks[u] # NoClock, clocks[u].seeded,
                      ~clocks[u].stale
               PROVE  low'[Home[u[1]]][u[2]] <= clocks[u].vtime
    BY DEF ClocksRead
  <2>1. low[Home[u[1]]][u[2]] <= clocks[u].vtime
    BY DEF PlacementInv, ClocksRead
  <2> QED BY <1>1, <2>1
<1> QED BY <1>2, <1>3 DEF PlacementInv

LEMMA NextPlacementInv ==
    DispatchTypeOK /\ PlacementInv /\ [PlacementNext]_<< vars, low >>
        => (DispatchTypeOK /\ PlacementInv)'
<1> SUFFICES ASSUME DispatchTypeOK, PlacementInv, [PlacementNext]_<< vars, low >>
             PROVE  DispatchTypeOK' /\ PlacementInv'
  OBVIOUS
<1>0. DispatchTypeOK'
  BY NextTyped DEF PlacementNext, Next
<1>1. ASSUME NEW n \in Node, NEW failed, Reconcile(n, failed), Watch(n, Partition \ failed)
      PROVE  PlacementInv'
  BY <1>0, <1>1, ReconcileKeepsPlacement
<1>2. ASSUME NEW n \in Node, Restart(n), Watch(n, Partition)
      PROVE  PlacementInv'
  BY <1>0, <1>2, RestartKeepsPlacement
<1>3. ASSUME NEW n \in Node, Watch(n, {}), NEW t \in Timeline, NEW j \in JobId,
             NEW cost \in Cost, NEW weight \in Weight, NEW d \in Duration,
             Enqueue(j, t, cost, weight, d)
      PROVE  PlacementInv'
  <2> DEFINE v == NextStamp(t, cost, weight)
  <2>1. v \in 0 .. MaxInt /\ Base(t) <= v
    <3>1. v \in 0 .. MaxInt /\ Base(t) < v /\ Base(t) \in 0 .. MaxInt
      BY <1>3, NextStampAdvances, BaseTyped DEF Enqueue
    <3> QED BY <3>1, VTimeAssumption
  <2> QED BY <1>0, <1>3, <2>1, LeaveKeepsPlacement DEF Enqueue
<1>4. ASSUME NEW n \in Node, Watch(n, {}), NEW t \in Timeline, EnqueueFails(t)
      PROVE  PlacementInv'
  <2>1. Base(t) \in 0 .. MaxInt /\ Base(t) <= Base(t)
    BY BaseTyped, VTimeAssumption
  <2> QED BY <1>0, <1>4, <2>1, LeaveKeepsPlacement DEF EnqueueFails
<1>5. ASSUME NEW n \in Node, Watch(n, {}), NEW t \in Timeline, SeedFails(t)
      PROVE  PlacementInv'
  <2> DEFINE clock == [ClockOf(t) EXCEPT !.touched = TRUE, !.stale = FALSE, !.seeded = FALSE]
  <2>1. /\ clock \in Clock /\ ~clock.seeded
        /\ clock.everSeeded = ClockOf(t).everSeeded
    BY BaseTyped DEF Clock
  <2>2. clocks' = [clocks EXCEPT ![t] = clock] /\ lwm' \in {lwm, LwmAtReserve(t)}
    BY <1>5 DEF SeedFails
  <2> HIDE DEF clock
  <2> QED BY <1>0, <1>5, <2>1, <2>2, ReserveKeepsPlacement
<1>6. ASSUME NEW n \in Node, Watch(n, {}), StoreStep
      PROVE  PlacementInv'
  <2>1. LowIsLow' /\ \A m \in Node, p \in Partition : low'[m][p] <= low[m][p]
    BY <1>0, <1>6, WatchLowers DEF PlacementInv
  <2> QED BY <1>0, <1>6, <2>1, OthersKeepPlacement DEF StoreStep
<1>7. CASE UNCHANGED << vars, low >>
  <2>1. UNCHANGED << jobs, clocks, lwm, low >>
    BY <1>7 DEF vars
  <2>2. \A p \in Partition : FrontierOrZero(p)' = FrontierOrZero(p)
    BY <2>1 DEF FrontierOrZero, Db!Frontier, Db!Fenced, Db!PendingIn, Db!Pending, Db!Stamps
  <2>3. LowIsLow'
    BY <2>1, <2>2 DEF PlacementInv, LowIsLow
  <2>4. \A m \in Node, p \in Partition : low'[m][p] <= low[m][p]
    BY <2>1, VTimeAssumption DEF PlacementInv, LowIsLow
  <2> QED BY <1>0, <2>1, <2>3, <2>4, OthersKeepPlacement
<1> QED BY <1>0, <1>1, <1>2, <1>3, <1>4, <1>5, <1>6, <1>7 DEF PlacementNext

LEMMA InitPlacementInv == PlacementInit => DispatchTypeOK /\ PlacementInv
<1> SUFFICES ASSUME PlacementInit PROVE DispatchTypeOK /\ PlacementInv
  OBVIOUS
<1>1. DispatchTypeOK
  BY InitTyped DEF PlacementInit
<1>2. \A p \in Partition : FrontierOrZero(p) \in 0 .. MaxInt
  BY <1>1, FrontierBounded DEF DispatchTypeOK
<1>3. LowIsLow
  BY <1>2, VTimeAssumption DEF PlacementInit, LowIsLow
<1>4. FrontiersRead /\ ClocksRead
  BY DEF PlacementInit, Init, FrontiersRead, ClocksRead
<1> QED BY <1>1, <1>3, <1>4 DEF PlacementInv

LEMMA PlacementInvariance == PlacementSpec => [](DispatchTypeOK /\ PlacementInv)
BY InitPlacementInv, NextPlacementInv, PTL DEF PlacementSpec

(* Only an enqueue adds a job.                                             *)
LEMMA StepJoinsAtService ==
    ASSUME DispatchTypeOK, PlacementInv, [PlacementNext]_<< vars, low >>,
           NEW j \in JobId, jobs[j] = Absent, jobs'[j] # Absent
    PROVE  jobs'[j].vstamp > low[Home[jobs'[j].tenant]][jobs'[j].partition]
<1>1. PICK t \in Timeline, i \in JobId, cost \in Cost, weight \in Weight, d \in Duration :
        Enqueue(i, t, cost, weight, d)
  <2>1. ~UNCHANGED jobs
    OBVIOUS
  <2>2. ~StoreStep
    BY StoreStepKeeps DEF StoreStep, NothingNew, DispatchTypeOK
  <2> QED BY <2>1, <2>2
          DEF PlacementNext, Reconcile, Restart, EnqueueFails, SeedFails, vars
<1> DEFINE v == NextStamp(t, cost, weight)
<1>2. /\ v \in 0 .. MaxInt /\ Base(t) < v
      /\ Base(t) \in 0 .. MaxInt /\ low[Home[t[1]]][t[2]] <= Base(t)
      /\ low[Home[t[1]]][t[2]] \in 0 .. MaxInt /\ MaxInt \in Nat
  BY <1>1, NextStampAdvances, BaseTyped, ReserveIsAbove, Timelines, VTimeAssumption
  DEF Enqueue, PlacementInv, LowIsLow
<1>3. /\ jobs'[i].tenant = t[1] /\ jobs'[i].partition = t[2]
      /\ jobs'[i].vstamp = v
      /\ \A k \in JobId \ {i} : jobs'[k] = jobs[k]
  BY <1>1, <1>2, InsertKeeps, Timelines, CollectionAssumption DEF Enqueue, DispatchTypeOK
<1>4. i = j
  BY <1>3
<1> QED BY <1>2, <1>3, <1>4

(* However many tenants and nodes share a partition, a job is stamped      *)
(* beyond the lowest frontier since its node last read it                  *)
(* (vtimecache.go:60-64, queue.go:348-371).                                *)
THEOREM TenantsJoinAtService == PlacementSpec => JoinsAtService
<1>1. DispatchTypeOK /\ PlacementInv /\ [PlacementNext]_<< vars, low >> =>
        [\A j \in JobId : jobs[j] = Absent /\ jobs'[j] # Absent =>
            jobs'[j].vstamp > low[Home[jobs'[j].tenant]][jobs'[j].partition]]_vars
  BY StepJoinsAtService
<1> QED BY <1>1, PlacementInvariance, PTL DEF PlacementSpec, JoinsAtService

-----------------------------------------------------------------------------
(* Shares.  Where jobs are only inserted, claimed and completed, the       *)
(* frontier never recedes, and beyond it the waiting jobs of a tenant are  *)
(* back to back: each begins where the one before it ends.  A tenant in    *)
(* line has therefore been served exactly as far as its line has moved,    *)
(* and heads are served in order.                                          *)

Of(j, u) ==
    jobs[j] # Absent /\ jobs[j].tenant = u[1] /\ jobs[j].partition = u[2]

(* A claim is for good, and hides its job for good.                        *)
ClaimedOnce ==
    \A j \in JobId : jobs[j] # Absent =>
        IF jobs[j].claim_id = NoClaim
        THEN jobs[j].liveness = "pending" /\ jobs[j].visible_in = 0
        ELSE jobs[j].liveness = "pending" => jobs[j].visible_in > 0

(* A clock stands at the stamp of its timeline's latest job.               *)
ClocksLast ==
    \A u \in Timeline : clocks[u] # NoClock =>
        /\ clocks[u].seeded /\ clocks[u].everSeeded
        /\ \E j \in JobId : Of(j, u) /\ jobs[j].vstamp = clocks[u].vtime
        /\ \A j \in JobId :
             Of(j, u) /\ jobs[j].liveness = "pending" => jobs[j].vstamp <= clocks[u].vtime

(* A stored frontier is behind the one in the collection.                  *)
StoredBehind ==
    \A n \in Node, p \in Partition : lwm[n][p] # NoLWM =>
        Db!Frontier(p) # {} /\ lwm[n][p] <= FrontierOrZero(p)

StampsDiffer ==
    \A u \in Timeline : \A i, j \in JobId :
        /\ Of(i, u) /\ jobs[i].liveness = "pending"
        /\ Of(j, u) /\ jobs[j].liveness = "pending"
        /\ jobs[i].vstamp = jobs[j].vstamp
        => i = j

(* A job in the collection is worth something.                             *)
WorthTyped ==
    /\ worth \in [JobId -> Nat]
    /\ \A j \in JobId : jobs[j] # Absent => worth[j] > 0

(* Beyond the frontier a tenant's waiting jobs are back to back.  Before   *)
(* it there may be a gap, where a re-seed was floored.                     *)
BackToBack ==
    \A t \in Tenant, p \in Partition : \A i, j \in Waiting(t, p) :
        FrontierOrZero(p) <= jobs[i].vstamp /\ jobs[i].vstamp < jobs[j].vstamp =>
            /\ jobs[i].vstamp <= StartOf(j)
            /\ \E k \in Waiting(t, p) : StartOf(k) = jobs[i].vstamp

SpacingInv ==
    ClaimedOnce /\ ClocksLast /\ StoredBehind /\ StampsDiffer /\ WorthTyped /\ BackToBack

(* What a tenant has received more than another is what its line stands    *)
(* ahead of the other's, but for the lead.  Where that is anything, its    *)
(* line begins within the other's head.                                    *)
WindowsBound ==
    \A s \in Pair, p \in Partition :
        /\ window[s][p] \in [open : BOOLEAN, lead : Nat, ahead : Int]
        /\ window[s][p].open =>
            /\ InLine(s[1], p) /\ InLine(s[2], p)
            /\ window[s][p].ahead + Start(s[2], p) <= window[s][p].lead + Start(s[1], p)
            /\ window[s][p].ahead <= 0 \/ Start(s[1], p) <= jobs[Head(s[2], p)].vstamp

LEMMA RecordsTyped ==
    DispatchTypeOK => \A j \in JobId : jobs[j] # Absent =>
        /\ jobs[j].vstamp \in 0 .. MaxInt /\ jobs[j].vstamp \in Nat
        /\ jobs[j].tenant \in Tenant /\ jobs[j].partition \in Partition
        /\ jobs[j].visible_in \in Nat
        /\ jobs[j].liveness \in {"pending", "resolved"}
<1> SUFFICES ASSUME DispatchTypeOK, NEW j \in JobId, jobs[j] # Absent
             PROVE  /\ jobs[j].vstamp \in 0 .. MaxInt /\ jobs[j].vstamp \in Nat
                    /\ jobs[j].tenant \in Tenant /\ jobs[j].partition \in Partition
                    /\ jobs[j].visible_in \in Nat
                    /\ jobs[j].liveness \in {"pending", "resolved"}
  OBVIOUS
<1>1. jobs[j] \in Db!Job
  BY DEF DispatchTypeOK, Db!StoreTypeOK
<1> QED BY <1>1, VTimeAssumption DEF Db!Job

LEMMA WorthIs == \A cost \in Cost, weight \in Weight : Worth(cost, weight) \in Nat \ {0}
<1> SUFFICES ASSUME NEW cost \in Cost, NEW weight \in Weight
             PROVE  Worth(cost, weight) \in Nat \ {0}
  OBVIOUS
<1>1. cost \in Nat /\ weight \in Nat \ {0} /\ Scale \in Nat
  BY DispatchAssumption, VTimeAssumption
<1>2. cost * Scale \in Nat
  BY <1>1
<1>3. (cost * Scale) \div weight \in Nat
  BY <1>1, <1>2, DivisionBounds
<1> QED BY <1>3 DEF Worth, Larger

LEMMA WaitingIs ==
    ClaimedOnce => \A u \in Timeline :
        Waiting(u[1], u[2]) = {i \in JobId : Of(i, u) /\ jobs[i].claim_id = NoClaim}
BY Timelines DEF ClaimedOnce, Waiting, Of, Db!TimelineJobs, Db!Pending

LEMMA EdgeIs ==
    ASSUME DispatchTypeOK, NEW u \in Timeline
    PROVE  /\ Db!Edge(u) \in 0 .. MaxInt
           /\ \A j \in JobId :
                Of(j, u) /\ jobs[j].liveness = "pending" => jobs[j].vstamp <= Db!Edge(u)
           /\ \A i \in JobId : Of(i, u) /\ jobs[i].liveness = "pending" =>
                \E j \in JobId : /\ Of(j, u) /\ jobs[j].liveness = "pending"
                                 /\ jobs[j].vstamp = Db!Edge(u)
<1> DEFINE J == Db!TimelineJobs(u)
           S == Db!Stamps(J)
<1>1. \A j \in JobId : j \in J <=> Of(j, u) /\ jobs[j].liveness = "pending"
  BY Timelines DEF Of, Db!TimelineJobs, Db!Pending
<1>2. S \subseteq 0 .. MaxInt /\ J \subseteq JobId
  BY StampsTyped DEF Db!TimelineJobs, Db!Pending, DispatchTypeOK
<1>3. Db!Edge(u) \in 0 .. MaxInt
  BY EdgeTyped DEF DispatchTypeOK
<1>4. ASSUME NEW i \in J
      PROVE  jobs[i].vstamp <= Db!Edge(u) /\ \E j \in J : jobs[j].vstamp = Db!Edge(u)
  <2>1. S # {} /\ jobs[i].vstamp \in S /\ Db!Edge(u) = Max(S)
    BY DEF Db!Stamps, Db!Edge, Db!Max, Max
  <2>2. Db!Edge(u) \in S /\ jobs[i].vstamp <= Db!Edge(u)
    BY <1>2, <2>1, ExtremesExist
  <2> QED BY <2>2 DEF Db!Stamps
<1> HIDE DEF J, S
<1> QED BY <1>1, <1>2, <1>3, <1>4

(* The highest stamp served, or the first to be served.                    *)
FrontierStands(p) ==
    /\ FrontierOrZero(p) \in 0 .. MaxInt
    /\ \A j \in JobId : jobs[j] # Absent /\ jobs[j].partition = p => Db!Frontier(p) # {}
    /\ Db!Frontier(p) # {} =>
         /\ Db!Frontier(p) = {FrontierOrZero(p)}
         /\ \E j \in JobId : /\ jobs[j] # Absent /\ jobs[j].partition = p
                             /\ jobs[j].vstamp = FrontierOrZero(p)
    /\ \A j \in JobId :
         jobs[j] # Absent /\ jobs[j].partition = p /\ jobs[j].claim_id # NoClaim =>
            /\ jobs[j].vstamp <= FrontierOrZero(p)
            /\ \E i \in JobId : /\ jobs[i] # Absent /\ jobs[i].partition = p
                                /\ jobs[i].claim_id # NoClaim
                                /\ jobs[i].vstamp = FrontierOrZero(p)
    /\ (\A j \in JobId : jobs[j] # Absent /\ jobs[j].partition = p
                           => jobs[j].claim_id = NoClaim)
         => \A j \in JobId : jobs[j] # Absent /\ jobs[j].partition = p
                               => FrontierOrZero(p) <= jobs[j].vstamp

FrontiersStand == \A p \in Partition : FrontierStands(p)

LEMMA FrontierIs == DispatchTypeOK /\ ClaimedOnce => FrontiersStand
<1> SUFFICES ASSUME DispatchTypeOK, ClaimedOnce, NEW p \in Partition
             PROVE  FrontierStands(p)
  BY DEF FrontiersStand
<1> USE DEF FrontierStands
<1> DEFINE F == Db!Fenced(p)
           G == Db!PendingIn(p)
           f == FrontierOrZero(p)
<1>1. f \in 0 .. MaxInt
  BY FrontierTyped DEF DispatchTypeOK
<1>2. /\ \A j \in JobId : j \in F <=> /\ jobs[j] # Absent /\ jobs[j].partition = p
                                      /\ jobs[j].claim_id # NoClaim
      /\ \A j \in JobId : j \in G <=> /\ jobs[j] # Absent /\ jobs[j].partition = p
                                      /\ jobs[j].liveness = "pending"
      /\ F \subseteq JobId /\ G \subseteq JobId
  BY DEF Db!Fenced, Db!PendingIn, Db!Pending
<1>3. Db!Stamps(F) \subseteq 0 .. MaxInt /\ Db!Stamps(G) \subseteq 0 .. MaxInt
  BY StampsTyped DEF Db!Fenced, Db!PendingIn, Db!Pending, DispatchTypeOK
<1>4. \A x \in 0 .. MaxInt : Max({x}) = x
  BY ExtremesExist
<1>5. CASE F # {}
  <2> DEFINE x == Max(Db!Stamps(F))
  <2>1. Db!Stamps(F) # {}
    BY <1>5 DEF Db!Stamps
  <2>2. x \in Db!Stamps(F) /\ \A y \in Db!Stamps(F) : y <= x
    BY <1>3, <2>1, ExtremesExist
  <2>3. Db!Frontier(p) = {x}
    BY <1>5 DEF Db!Frontier, Db!Max, Max
  <2> HIDE DEF x
  <2>4. f = x
    BY <1>3, <1>4, <2>2, <2>3 DEF FrontierOrZero
  <2> HIDE DEF F, G, f
  <2>5. \A j \in F : jobs[j].vstamp <= f
    BY <2>2, <2>4 DEF Db!Stamps
  <2>6. PICK i \in F : jobs[i].vstamp = f
    BY <2>2, <2>4 DEF Db!Stamps
  <2>7. Db!Frontier(p) = {f} /\ Db!Frontier(p) # {}
    BY <2>3, <2>4
  <2>8. i \in JobId /\ jobs[i] # Absent /\ jobs[i].partition = p
        /\ jobs[i].claim_id # NoClaim /\ jobs[i].vstamp = f
    BY <1>2, <2>6
  <2>9. \A j \in JobId :
          jobs[j] # Absent /\ jobs[j].partition = p /\ jobs[j].claim_id # NoClaim =>
            jobs[j].vstamp <= f
    BY <1>2, <2>5
  <2> QED BY <1>1, <2>7, <2>8, <2>9 DEF f
<1>6. CASE F = {} /\ G # {}
  <2> DEFINE x == Min(Db!Stamps(G))
  <2>1. Db!Stamps(G) # {}
    BY <1>6 DEF Db!Stamps
  <2>2. x \in Db!Stamps(G) /\ \A y \in Db!Stamps(G) : x <= y
    BY <1>3, <2>1, ExtremesExist
  <2>3. Db!Frontier(p) = {x}
    BY <1>6 DEF Db!Frontier, Db!Min, Min
  <2> HIDE DEF x
  <2>4. f = x
    BY <1>3, <1>4, <2>2, <2>3 DEF FrontierOrZero
  <2> HIDE DEF F, G, f
  <2>5. \A j \in G : f <= jobs[j].vstamp
    BY <2>2, <2>4 DEF Db!Stamps
  <2>6. PICK i \in G : jobs[i].vstamp = f
    BY <2>2, <2>4 DEF Db!Stamps
  <2>7. Db!Frontier(p) = {f} /\ Db!Frontier(p) # {}
    BY <2>3, <2>4
  <2>8. i \in JobId /\ jobs[i] # Absent /\ jobs[i].partition = p /\ jobs[i].vstamp = f
    BY <1>2, <2>6
  <2>9. \A j \in JobId : jobs[j] # Absent /\ jobs[j].partition = p =>
          jobs[j].claim_id = NoClaim /\ f <= jobs[j].vstamp
    BY <1>2, <1>6, <2>5 DEF ClaimedOnce
  <2> QED BY <1>1, <2>7, <2>8, <2>9 DEF f
<1>7. CASE F = {} /\ G = {}
  <2>1. \A j \in JobId : ~(jobs[j] # Absent /\ jobs[j].partition = p)
    BY <1>2, <1>7 DEF ClaimedOnce
  <2>2. Db!Frontier(p) = {}
    BY <1>7 DEF Db!Frontier
  <2> HIDE DEF F, G
  <2> QED BY <1>1, <2>1, <2>2
<1> QED BY <1>5, <1>6, <1>7

(* What one step does to the jobs: it inserts one, serves the first of a   *)
(* partition, or resolves a claimed one.                                   *)
Inserts(j, u) ==
    /\ jobs[j] = Absent
    /\ jobs'[j] # Absent /\ jobs'[j].tenant = u[1] /\ jobs'[j].partition = u[2]
    /\ worth'[j] \in Nat \ {0} /\ jobs'[j].vstamp = Base(u) + worth'[j]
    /\ jobs'[j].liveness = "pending" /\ jobs'[j].claim_id = NoClaim
    /\ jobs'[j].visible_in = 0
    /\ worth' \in [JobId -> Nat]
    /\ \A i \in JobId \ {j} : jobs'[i] = jobs[i] /\ worth'[i] = worth[i]

Placed(j) ==
    /\ jobs[j] # Absent /\ jobs'[j] # Absent
    /\ jobs'[j].tenant = jobs[j].tenant /\ jobs'[j].partition = jobs[j].partition
    /\ jobs'[j].vstamp = jobs[j].vstamp

Serves(j) ==
    /\ Placed(j) /\ jobs[j].claim_id = NoClaim
    /\ jobs'[j].claim_id # NoClaim /\ jobs'[j].visible_in > 0
    /\ jobs[j].liveness = "pending" /\ UNCHANGED worth
    /\ \A i \in JobId \ {j} : jobs'[i] = jobs[i]
    /\ \A i \in JobId :
         /\ jobs[i] # Absent /\ jobs[i].partition = jobs[j].partition
         /\ jobs[i].claim_id = NoClaim
         => jobs[j].vstamp <= jobs[i].vstamp

Finishes(j) ==
    /\ Placed(j) /\ jobs[j].claim_id # NoClaim
    /\ jobs'[j].claim_id = jobs[j].claim_id /\ jobs'[j].liveness = "resolved"
    /\ UNCHANGED worth
    /\ \A i \in JobId \ {j} : jobs'[i] = jobs[i]

LEMMA EnqueueInserts ==
    ASSUME DispatchTypeOK, worth \in [JobId -> Nat], NEW u \in Timeline, NEW j \in JobId,
           NEW cost \in Cost, NEW weight \in Weight, ShareEnqueue(j, u, cost, weight)
    PROVE  Inserts(j, u)
<1> DEFINE v == NextStamp(u, cost, weight)
<1>1. /\ v \in 0 .. MaxInt /\ Db!InsertOne(j, u[1], u[2], v, 0)
      /\ u[1] \in Tenant /\ u[2] \in Partition /\ Db!StoreTypeOK
  BY NextStampAdvances, Timelines DEF ShareEnqueue, Enqueue, DispatchTypeOK
<1>2. Db!DurationMillis(0) = 0
  <2>1. NsPerMs \in Nat \ {0}
    BY CollectionAssumption
  <2>2. 0 \div NsPerMs = 0 /\ 0 % NsPerMs = 0
    BY <2>1
  <2> QED BY <2>2 DEF Db!DurationMillis
<1>3. v = Base(u) + Worth(cost, weight)
  <2>1. /\ cost \in 1 .. MaxInt /\ weight \in 1 .. MaxInt
        /\ StampFits(Base(u), cost, weight) /\ cost <= MaxCost /\ Base(u) \in 0 .. MaxInt
    BY DispatchAssumption, BaseTyped DEF ShareEnqueue, Enqueue, StampFits
  <2>2. v = Base(u) + Stride(cost, weight)
    BY <2>1, StampExact DEF NextStamp
  <2>3. Stride(cost, weight) = Worth(cost, weight)
    BY <2>1, StampExact DEF Worth
  <2> QED BY <2>2, <2>3
<1>4. /\ Worth(cost, weight) \in Nat \ {0}
      /\ worth' = [worth EXCEPT ![j] = Worth(cost, weight)]
  BY WorthIs DEF ShareEnqueue
<1>5. /\ worth'[j] = Worth(cost, weight) /\ worth' \in [JobId -> Nat]
      /\ \A i \in JobId \ {j} : worth'[i] = worth[i]
  BY <1>4
<1> HIDE DEF v
<1>6. /\ jobs[j] = Absent /\ jobs'[j] # Absent
      /\ jobs'[j].tenant = u[1] /\ jobs'[j].partition = u[2] /\ jobs'[j].vstamp = v
      /\ jobs'[j].liveness = "pending" /\ jobs'[j].claim_id = NoClaim
      /\ jobs'[j].visible_in = 0
      /\ \A i \in JobId \ {j} : jobs'[i] = jobs[i]
  BY <1>1, <1>2, InsertKeeps
<1> QED BY <1>3, <1>4, <1>5, <1>6 DEF Inserts

LEMMA ClaimServes ==
    ASSUME DispatchTypeOK, ClaimedOnce, NEW j \in JobId, NEW p \in Partition,
           NEW c \in ClaimId, NEW d \in Duration, Db!Claim(j, p, c, d), UNCHANGED worth
    PROVE  Serves(j)
<1>1. /\ d \in Nat \ {0} /\ Db!IsFirst(j, p) /\ jobs[j] # Absent /\ jobs[j].partition = p
      /\ jobs[j].liveness = "pending" /\ jobs[j].visible_in = 0
      /\ jobs' = [jobs EXCEPT ![j] = Db!Claimed(jobs[j], c, d)]
  BY CollectionAssumption DEF Db!Claim, Db!IsFirst, Db!ClaimFilter, Db!Pending, Db!Put
<1>2. Db!DurationMillis(d) \in Nat \ {0}
  <2>1. /\ Store!DurationMillis(d) \in Nat /\ d <= Store!DurationMillis(d) * NsPerMs
    BY <1>1, Store!MillisCover, StoreAssumptions
  <2>2. Store!DurationMillis(d) # 0
    BY <1>1, <2>1, CollectionAssumption
  <2> QED BY <2>1, <2>2, SameWrites
<1>3. jobs[j].claim_id = NoClaim /\ c # NoClaim
  BY <1>1, CollectionAssumption DEF ClaimedOnce
<1>4. jobs[j] \in Db!Job /\ jobs \in [JobId -> Db!Job \cup {Absent}]
  BY <1>1 DEF DispatchTypeOK, Db!StoreTypeOK
<1>5. /\ jobs'[j] = Db!Claimed(jobs[j], c, d) /\ \A i \in JobId \ {j} : jobs'[i] = jobs[i]
  BY <1>1, <1>4
<1>6. jobs'[j] # Absent
  <2>1. Store!StoreTypeOK /\ Store!Pending(j) /\ Store!Put(j, Store!Claimed(jobs[j], c, d))
    BY <1>1, SameType, SameWrites DEF DispatchTypeOK, Store!Pending, Store!Put
  <2> QED BY <1>1, <2>1, Store!WriteTyped, StoreAssumptions
<1>7. Placed(j) /\ jobs'[j].claim_id = c /\ jobs'[j].visible_in = Db!DurationMillis(d)
  BY <1>1, <1>4, <1>5, <1>6 DEF Placed, Db!Claimed, Db!Job
<1>8. ASSUME NEW i \in JobId, jobs[i] # Absent, jobs[i].partition = jobs[j].partition,
             jobs[i].claim_id = NoClaim
      PROVE  jobs[j].vstamp <= jobs[i].vstamp
  <2>1. Db!ClaimFilter(i, p)
    BY <1>1, <1>8 DEF ClaimedOnce, Db!ClaimFilter, Db!Pending
  <2>2. jobs[j].vstamp \in Nat /\ jobs[i].vstamp \in Nat
    BY <1>1, <1>8, RecordsTyped
  <2> QED BY <1>1, <2>1, <2>2 DEF Db!IsFirst, Db!Before
<1> QED BY <1>1, <1>2, <1>3, <1>5, <1>7, <1>8 DEF Serves

LEMMA CompleteFinishes ==
    ASSUME DispatchTypeOK, NEW j \in JobId, NEW r \in Resolution, Db!Complete(j, r),
           UNCHANGED worth
    PROVE  Finishes(j)
<1>1. /\ jobs[j] # Absent /\ jobs[j].claim_id # NoClaim /\ Db!Pending(j)
      /\ jobs' = [jobs EXCEPT ![j] = Db!ResolvedJob(jobs[j], r)]
  BY DEF Db!Complete, Db!Held, Db!Pending, Db!Put
<1>2. jobs[j] \in Db!Job /\ jobs \in [JobId -> Db!Job \cup {Absent}]
  BY <1>1 DEF DispatchTypeOK, Db!StoreTypeOK
<1>3. /\ jobs'[j] = Db!ResolvedJob(jobs[j], r)
      /\ \A i \in JobId \ {j} : jobs'[i] = jobs[i]
  BY <1>1, <1>2
<1>4. jobs'[j] # Absent
  <2>1. Store!StoreTypeOK /\ Store!Pending(j) /\ Store!Put(j, Store!ResolvedJob(jobs[j], r))
    BY <1>1, SameType, SameWrites
    DEF DispatchTypeOK, Store!Pending, Db!Pending, Store!Put
  <2> QED BY <1>1, <2>1, Store!WriteTyped, StoreAssumptions
<1> QED BY <1>1, <1>2, <1>3, <1>4 DEF Finishes, Placed, Db!ResolvedJob, Db!Job

-----------------------------------------------------------------------------
(* Where a reserve starts from.                                            *)

LEMMA StoredAtReserve ==
    ASSUME DispatchTypeOK, StoredBehind, NEW u \in Timeline,
           NEW n \in Node, NEW p \in Partition, LwmAtReserve(u)[n][p] # NoLWM
    PROVE  Db!Frontier(p) # {} /\ LwmAtReserve(u)[n][p] <= FrontierOrZero(p)
<1> DEFINE h == Home[u[1]]
<1>1. h \in Node /\ u[2] \in Partition
  BY Timelines
<1>2. CASE << n, p >> # << h, u[2] >> \/ ClockOf(u).everSeeded
  <2>1. LwmAtReserve(u)[n][p] = lwm[n][p]
    BY <1>1, <1>2, ReserveReads DEF LwmAtReserve
  <2> QED BY <2>1 DEF StoredBehind
<1>3. CASE n = h /\ p = u[2] /\ ~ClockOf(u).everSeeded
  <2>1. LwmAtReserve(u)[n] = Refreshed(n, {p})
    BY <1>1, <1>3 DEF LwmAtReserve, DispatchTypeOK
  <2>2. CASE Db!Frontier(p) = {}
    <3>1. LwmAtReserve(u)[n][p] = lwm[n][p]
      BY <2>1, <2>2, RefreshReads
    <3> QED BY <3>1 DEF StoredBehind
  <2>3. CASE Db!Frontier(p) # {}
    <3>1. LwmAtReserve(u)[n][p] = FrontierOrZero(p)
      BY <2>1, <2>3, RefreshReads
    <3>2. FrontierOrZero(p) \in 0 .. MaxInt
      BY FrontierTyped DEF DispatchTypeOK
    <3> QED BY <2>3, <3>1, <3>2, VTimeAssumption
  <2> QED BY <2>2, <2>3
<1> QED BY <1>2, <1>3

LEMMA BaseIsLast ==
    ASSUME DispatchTypeOK, SpacingInv, NEW u \in Timeline
    PROVE  /\ Base(u) \in 0 .. MaxInt
           /\ \A j \in JobId :
                Of(j, u) /\ jobs[j].liveness = "pending" => jobs[j].vstamp <= Base(u)
           /\ \A i \in JobId :
                /\ Of(i, u) /\ jobs[i].claim_id = NoClaim
                /\ FrontierOrZero(u[2]) <= jobs[i].vstamp
                => \E k \in JobId : /\ Of(k, u) /\ jobs[k].claim_id = NoClaim
                                    /\ jobs[k].vstamp = Base(u)
           /\ (\A j \in JobId : jobs[j] # Absent /\ jobs[j].partition = u[2]
                                  => jobs[j].claim_id = NoClaim)
                => FrontierOrZero(u[2]) <= Base(u)
<1> USE DEF SpacingInv
<1> DEFINE p == u[2]
           f == FrontierOrZero(p)
           floor == LwmFor(LwmAtReserve(u), Home[u[1]], p)
<1>1. /\ u[1] \in Tenant /\ p \in Partition /\ Home[u[1]] \in Node
      /\ Base(u) \in 0 .. MaxInt /\ f \in 0 .. MaxInt /\ floor \in 0 .. MaxInt
      /\ MaxInt \in Nat
  BY Timelines, BaseTyped, FrontierIs, VTimeAssumption DEF FrontierStands, FrontiersStand
<1>2. \A j \in JobId : Of(j, u) =>
        /\ jobs[j] # Absent /\ jobs[j].partition = p /\ jobs[j].vstamp \in 0 .. MaxInt
        /\ jobs[j].claim_id = NoClaim => jobs[j].liveness = "pending"
        /\ jobs[j].claim_id # NoClaim => jobs[j].vstamp <= f
  BY <1>1, RecordsTyped, FrontierIs DEF Of, ClaimedOnce, FrontierStands, FrontiersStand
<1>3. CASE Warm(u)
  <2>1. clocks[u] # NoClock /\ Base(u) = clocks[u].vtime
    BY <1>3 DEF Warm, Base, ClockOf, NewClock
  <2>2. PICK l \in JobId : Of(l, u) /\ jobs[l].vstamp = Base(u)
    BY <2>1 DEF ClocksLast
  <2>3. \A j \in JobId :
          Of(j, u) /\ jobs[j].liveness = "pending" => jobs[j].vstamp <= Base(u)
    BY <2>1 DEF ClocksLast
  <2>4. ASSUME NEW i \in JobId, Of(i, u), jobs[i].claim_id = NoClaim, f <= jobs[i].vstamp
        PROVE  \E k \in JobId : /\ Of(k, u) /\ jobs[k].claim_id = NoClaim
                                /\ jobs[k].vstamp = Base(u)
    <3>1. jobs[i].vstamp <= Base(u) /\ jobs[i].vstamp \in 0 .. MaxInt
      BY <1>2, <2>3, <2>4
    <3>2. CASE jobs[l].claim_id = NoClaim
      BY <2>2, <3>2
    <3>3. CASE jobs[l].claim_id # NoClaim
      <4>1. Base(u) <= f
        BY <1>2, <2>2, <3>3
      <4> HIDE DEF f
      <4>2. jobs[i].vstamp = Base(u)
        BY <1>1, <2>4, <3>1, <4>1
      <4> QED BY <2>4, <4>2
    <3> QED BY <3>2, <3>3
  <2>5. ASSUME \A j \in JobId : jobs[j] # Absent /\ jobs[j].partition = p
                                  => jobs[j].claim_id = NoClaim
        PROVE  f <= Base(u)
    BY <1>1, <1>2, <2>2, <2>5, FrontierIs DEF FrontierStands, FrontiersStand
  <2> QED BY <1>1, <2>3, <2>4, <2>5
<1>4. CASE ~Warm(u)
  <2>1. /\ Base(u) = Larger(Db!Edge(u), floor) /\ Db!Edge(u) \in 0 .. MaxInt
    BY <1>4, EdgeIs DEF Base, Seed
  <2>2. floor <= f
    <3>1. CASE LwmAtReserve(u)[Home[u[1]]][p] = NoLWM
      BY <1>1, <3>1 DEF LwmFor
    <3>2. CASE LwmAtReserve(u)[Home[u[1]]][p] # NoLWM
      BY <1>1, <3>2, StoredAtReserve DEF LwmFor
    <3> QED BY <3>1, <3>2
  <2>3. /\ Db!Edge(u) <= Base(u) /\ floor <= Base(u)
        /\ floor <= Db!Edge(u) => Base(u) = Db!Edge(u)
    <3> HIDE DEF floor
    <3> QED BY <1>1, <2>1 DEF Larger
  <2>4. \A j \in JobId :
          Of(j, u) /\ jobs[j].liveness = "pending" =>
            jobs[j].vstamp <= Db!Edge(u) /\ jobs[j].vstamp <= Base(u)
    <3> SUFFICES ASSUME NEW j \in JobId, Of(j, u), jobs[j].liveness = "pending"
                 PROVE  jobs[j].vstamp <= Db!Edge(u) /\ jobs[j].vstamp <= Base(u)
      OBVIOUS
    <3>1. jobs[j].vstamp <= Db!Edge(u) /\ jobs[j].vstamp \in 0 .. MaxInt
      BY <1>2, EdgeIs
    <3> QED BY <1>1, <2>1, <2>3, <3>1
  <2>5. ASSUME NEW i \in JobId, Of(i, u), jobs[i].claim_id = NoClaim, f <= jobs[i].vstamp
        PROVE  \E k \in JobId : /\ Of(k, u) /\ jobs[k].claim_id = NoClaim
                                /\ jobs[k].vstamp = Base(u)
    <3>1. jobs[i].liveness = "pending" /\ jobs[i].vstamp \in 0 .. MaxInt
      BY <1>2, <2>5
    <3>2. jobs[i].vstamp <= Db!Edge(u)
      BY <2>4, <2>5, <3>1
    <3>3. PICK m \in JobId : /\ Of(m, u) /\ jobs[m].liveness = "pending"
                             /\ jobs[m].vstamp = Db!Edge(u)
      BY <2>5, <3>1, EdgeIs
    <3>4. jobs[m].claim_id # NoClaim => Db!Edge(u) <= f
      BY <1>2, <3>3
    <3> HIDE DEF f, floor
    <3>5. Base(u) = Db!Edge(u)
      BY <1>1, <2>1, <2>2, <2>3, <2>5, <3>1, <3>2
    <3>6. CASE jobs[m].claim_id = NoClaim
      BY <3>3, <3>5, <3>6
    <3>7. CASE jobs[m].claim_id # NoClaim
      <4>1. jobs[i].vstamp = Base(u)
        BY <1>1, <2>5, <3>1, <3>2, <3>4, <3>5, <3>7
      <4> QED BY <2>5, <4>1
    <3> QED BY <3>6, <3>7
  <2>6. ASSUME \A j \in JobId : jobs[j] # Absent /\ jobs[j].partition = p
                                  => jobs[j].claim_id = NoClaim
        PROVE  f <= Base(u)
    <3>1. CASE Db!Frontier(p) = {}
      <4>1. f = 0
        BY <3>1 DEF FrontierOrZero
      <4> QED BY <1>1, <4>1
    <3>2. CASE Db!Frontier(p) # {} /\ clocks[u] = NoClock
      <4>1. ~ClockOf(u).everSeeded
        BY <3>2 DEF ClockOf, NewClock
      <4>2. LwmAtReserve(u)[Home[u[1]]] = Refreshed(Home[u[1]], {p})
        BY <1>1, <4>1 DEF LwmAtReserve, DispatchTypeOK
      <4>3. LwmAtReserve(u)[Home[u[1]]][p] = f
        BY <1>1, <3>2, <4>2, RefreshReads
      <4>4. floor = f
        BY <1>1, <4>3, DispatchAssumption DEF LwmFor
      <4> QED BY <2>3, <4>4
    <3>3. CASE clocks[u] # NoClock
      <4>1. PICK l \in JobId : Of(l, u)
        BY <3>3 DEF ClocksLast
      <4>2. jobs[l].liveness = "pending" /\ f <= jobs[l].vstamp
            /\ jobs[l].vstamp \in 0 .. MaxInt
        BY <1>1, <1>2, <2>6, <4>1, FrontierIs DEF FrontierStands, FrontiersStand
      <4>3. jobs[l].vstamp <= Base(u)
        BY <2>4, <4>1, <4>2
      <4> HIDE DEF f
      <4> QED BY <1>1, <4>2, <4>3
    <3> QED BY <3>1, <3>2, <3>3
  <2> QED BY <1>1, <2>4, <2>5, <2>6
<1> QED BY <1>3, <1>4

-----------------------------------------------------------------------------
(* The frontier never recedes.                                             *)

JobsKept ==
    \A i \in JobId : jobs[i] # Absent =>
        Placed(i) /\ (jobs[i].claim_id # NoClaim => jobs'[i].claim_id # NoClaim)

LEMMA StepKeepsJobs ==
    ASSUME ClaimedOnce, NEW j \in JobId,
           (\E u \in Timeline : Inserts(j, u)) \/ Serves(j) \/ Finishes(j)
    PROVE  ClaimedOnce' /\ JobsKept
<1>1. \A i \in JobId \ {j} : jobs'[i] = jobs[i]
  BY DEF Inserts, Serves, Finishes
<1>2. CASE \E u \in Timeline : Inserts(j, u)
  BY <1>1, <1>2 DEF ClaimedOnce, JobsKept, Placed, Inserts
<1>3. CASE Serves(j)
  BY <1>1, <1>3 DEF ClaimedOnce, JobsKept, Placed, Serves
<1>4. CASE Finishes(j)
  BY <1>1, <1>4 DEF ClaimedOnce, JobsKept, Placed, Finishes
<1> QED BY <1>2, <1>3, <1>4

LEMMA FrontierAdvances ==
    ASSUME DispatchTypeOK, DispatchTypeOK', SpacingInv, NEW j \in JobId,
           (\E u \in Timeline : Inserts(j, u)) \/ Serves(j) \/ Finishes(j)
    PROVE  \A p \in Partition :
             /\ FrontierOrZero(p) \in 0 .. MaxInt /\ FrontierOrZero(p)' \in 0 .. MaxInt
             /\ Db!Frontier(p) # {} =>
                  Db!Frontier(p)' # {} /\ FrontierOrZero(p) <= FrontierOrZero(p)'
<1>1. ClaimedOnce /\ ClaimedOnce' /\ JobsKept
  BY StepKeepsJobs DEF SpacingInv
<1> SUFFICES ASSUME NEW p \in Partition
             PROVE  /\ FrontierOrZero(p) \in 0 .. MaxInt /\ FrontierOrZero(p)' \in 0 .. MaxInt
                    /\ Db!Frontier(p) # {} =>
                         Db!Frontier(p)' # {} /\ FrontierOrZero(p) <= FrontierOrZero(p)'
  OBVIOUS
<1> DEFINE f == FrontierOrZero(p)
           g == FrontierOrZero(p)'
<1>2. /\ f \in 0 .. MaxInt
      /\ Db!Frontier(p) # {} =>
           \E i \in JobId : jobs[i] # Absent /\ jobs[i].partition = p /\ jobs[i].vstamp = f
      /\ \A i \in JobId :
           jobs[i] # Absent /\ jobs[i].partition = p /\ jobs[i].claim_id # NoClaim =>
             \E k \in JobId : /\ jobs[k] # Absent /\ jobs[k].partition = p
                              /\ jobs[k].claim_id # NoClaim /\ jobs[k].vstamp = f
      /\ (\A i \in JobId : jobs[i] # Absent /\ jobs[i].partition = p
                             => jobs[i].claim_id = NoClaim)
           => \A i \in JobId : jobs[i] # Absent /\ jobs[i].partition = p => f <= jobs[i].vstamp
  BY <1>1, FrontierIs DEF FrontierStands, FrontiersStand
<1>3. /\ g \in 0 .. MaxInt
      /\ \A i \in JobId : jobs'[i] # Absent /\ jobs'[i].partition = p => Db!Frontier(p)' # {}
      /\ Db!Frontier(p)' # {} =>
           \E i \in JobId : jobs'[i] # Absent /\ jobs'[i].partition = p /\ jobs'[i].vstamp = g
      /\ \A i \in JobId :
           jobs'[i] # Absent /\ jobs'[i].partition = p /\ jobs'[i].claim_id # NoClaim =>
             jobs'[i].vstamp <= g
  <2>1. (DispatchTypeOK /\ ClaimedOnce => FrontiersStand)'
    BY FrontierIs, PTL
  <2>2. FrontierStands(p)'
    BY <1>1, <2>1 DEF FrontiersStand
  <2> QED BY <2>2 DEF FrontierStands
<1>4. \A i \in JobId : jobs[i] # Absent =>
        /\ jobs'[i] # Absent /\ jobs'[i].partition = jobs[i].partition
        /\ jobs'[i].vstamp = jobs[i].vstamp
        /\ jobs[i].claim_id # NoClaim => jobs'[i].claim_id # NoClaim
  BY <1>1 DEF JobsKept, Placed
<1>5. ASSUME \A i \in JobId : jobs[i] # Absent /\ jobs[i].partition = p
                                => jobs[i].claim_id = NoClaim,
             NEW i \in JobId, jobs'[i] # Absent, jobs'[i].partition = p
      PROVE  f <= jobs'[i].vstamp
  <2>1. CASE jobs[i] # Absent
    BY <1>2, <1>4, <1>5, <2>1
  <2>2. CASE jobs[i] = Absent
    <3>1. i = j /\ \E u \in Timeline : Inserts(j, u)
      BY <1>5, <2>2 DEF Inserts, Serves, Finishes, Placed
    <3>2. PICK u \in Timeline : Inserts(j, u)
      BY <3>1
    <3>3. u[2] = p /\ jobs'[i].vstamp = Base(u) + worth'[i] /\ worth'[i] \in Nat
      BY <1>5, <3>1, <3>2 DEF Inserts
    <3>4. f <= Base(u) /\ Base(u) \in 0 .. MaxInt
      BY <1>5, <3>3, BaseIsLast
    <3>5. MaxInt \in Nat
      BY VTimeAssumption
    <3> HIDE DEF f
    <3> QED BY <1>2, <3>3, <3>4, <3>5
  <2> QED BY <2>1, <2>2
<1>6. ASSUME Db!Frontier(p) # {}
      PROVE  Db!Frontier(p)' # {} /\ f <= g
  <2>1. Db!Frontier(p)' # {}
    BY <1>2, <1>3, <1>4, <1>6
  <2>2. CASE \A i \in JobId : jobs[i] # Absent /\ jobs[i].partition = p
                                => jobs[i].claim_id = NoClaim
    <3>1. PICK i \in JobId : jobs'[i] # Absent /\ jobs'[i].partition = p /\ jobs'[i].vstamp = g
      BY <1>3, <2>1
    <3> QED BY <1>5, <2>1, <2>2, <3>1
  <2>3. CASE \E i \in JobId : jobs[i] # Absent /\ jobs[i].partition = p
                                /\ jobs[i].claim_id # NoClaim
    <3>1. PICK k \in JobId : /\ jobs[k] # Absent /\ jobs[k].partition = p
                             /\ jobs[k].claim_id # NoClaim /\ jobs[k].vstamp = f
      BY <1>2, <2>3
    <3> QED BY <1>3, <1>4, <2>1, <3>1
  <2> QED BY <2>2, <2>3
<1> QED BY <1>2, <1>3, <1>6

-----------------------------------------------------------------------------
(* Every step keeps the spacing.                                           *)

LEMMA MoveKeepsClocks ==
    ASSUME SpacingInv, NEW j \in JobId, Serves(j) \/ Finishes(j), UNCHANGED clocks
    PROVE  ClocksLast' /\ StampsDiffer'
<1>1. \A i \in JobId : /\ jobs[i] # Absent => Placed(i)
                       /\ jobs'[i] # Absent => jobs[i] # Absent
                       /\ jobs'[i] # Absent /\ jobs'[i].liveness = "pending"
                            => jobs[i].liveness = "pending"
  BY DEF Serves, Finishes, Placed
<1>2. \A i \in JobId, u \in Timeline :
        /\ Of(i, u)' <=> Of(i, u)
        /\ Of(i, u) => jobs'[i].vstamp = jobs[i].vstamp
        /\ Of(i, u) /\ jobs'[i].liveness = "pending" => jobs[i].liveness = "pending"
  BY <1>1 DEF Of, Placed
<1>3. ClocksLast'
  BY <1>2 DEF SpacingInv, ClocksLast
<1>4. StampsDiffer'
  BY <1>2 DEF SpacingInv, StampsDiffer
<1> QED BY <1>3, <1>4

LEMMA WaitingMoves ==
    ASSUME ClaimedOnce, ClaimedOnce', NEW t \in Tenant, NEW p \in Partition, NEW j \in JobId
    PROVE  /\ Serves(j) \/ Finishes(j) => Waiting(t, p)' = Waiting(t, p) \ {j}
           /\ Finishes(j) => j \notin Waiting(t, p)
           /\ \A u \in Timeline : Inserts(j, u) =>
                /\ j \notin Waiting(t, p)
                /\ Waiting(t, p)' =
                     IF u = << t, p >> THEN Waiting(t, p) \cup {j} ELSE Waiting(t, p)
<1> DEFINE W == {i \in JobId : Of(i, << t, p >>) /\ jobs[i].claim_id = NoClaim}
           V == {i \in JobId : Of(i, << t, p >>)' /\ jobs'[i].claim_id = NoClaim}
<1>1. Waiting(t, p) = W /\ Waiting(t, p)' = V
  <2>1. (ClaimedOnce => \A u \in Timeline :
           Waiting(u[1], u[2]) = {i \in JobId : Of(i, u) /\ jobs[i].claim_id = NoClaim})'
    BY WaitingIs, PTL
  <2>2. << t, p >> \in Timeline /\ << t, p >>[1] = t /\ << t, p >>[2] = p
    BY DEF Timeline
  <2> QED BY <2>1, <2>2, WaitingIs
<1>2. CASE Serves(j) \/ Finishes(j)
  <2>1. V = W \ {j}
    BY <1>2 DEF Of, Serves, Finishes, Placed
  <2>2. Finishes(j) => j \notin W
    BY DEF Finishes
  <2>3. \A u \in Timeline : ~Inserts(j, u)
    BY <1>2 DEF Inserts, Serves, Finishes, Placed
  <2> QED BY <1>1, <1>2, <2>1, <2>2, <2>3
<1>3. ASSUME NEW u \in Timeline, Inserts(j, u)
      PROVE  /\ j \notin W
             /\ V = IF u = << t, p >> THEN W \cup {j} ELSE W
  <2>1. j \notin W
    BY <1>3 DEF Inserts, Of
  <2>2. j \in V <=> u = << t, p >>
    BY <1>3, Timelines DEF Inserts, Of
  <2>3. \A i \in JobId \ {j} : i \in V <=> i \in W
    BY <1>3 DEF Inserts, Of
  <2> QED BY <2>1, <2>2, <2>3
<1>4. ~(Serves(j) \/ Finishes(j)) \/ \A u \in Timeline : ~Inserts(j, u)
  BY DEF Inserts, Serves, Finishes, Placed
<1> HIDE DEF W, V
<1> QED BY <1>1, <1>2, <1>3, <1>4

LEMMA WaitingTyped ==
    ASSUME DispatchTypeOK, ClaimedOnce, NEW t \in Tenant, NEW p \in Partition,
           NEW i \in Waiting(t, p)
    PROVE  /\ i \in JobId /\ Of(i, << t, p >>) /\ << t, p >> \in Timeline
           /\ jobs[i] # Absent /\ jobs[i].tenant = t /\ jobs[i].partition = p
           /\ jobs[i].claim_id = NoClaim /\ jobs[i].liveness = "pending"
           /\ jobs[i].vstamp \in 0 .. MaxInt /\ jobs[i].vstamp \in Nat
<1>1. << t, p >> \in Timeline
  BY DEF Timeline
<1>2. i \in JobId /\ Of(i, << t, p >>) /\ jobs[i].claim_id = NoClaim
  BY <1>1, WaitingIs
<1> QED BY <1>1, <1>2, RecordsTyped DEF Of, ClaimedOnce

(* The first of a partition is served: of its tenant's waiting jobs, each  *)
(* is beyond it.                                                           *)
LEMMA ServedIsFirst ==
    ASSUME DispatchTypeOK, SpacingInv, NEW j \in JobId, Serves(j),
           NEW t \in Tenant, NEW i \in Waiting(t, jobs[j].partition), i # j
    PROVE  /\ jobs[j].vstamp <= jobs[i].vstamp
           /\ t = jobs[j].tenant => jobs[j].vstamp < jobs[i].vstamp
<1>1. jobs[j] # Absent /\ jobs[j].liveness = "pending"
  BY DEF Serves, Placed
<1>2. jobs[j].partition \in Partition /\ jobs[j].vstamp \in Nat
  BY <1>1, RecordsTyped
<1>3. /\ i \in JobId /\ jobs[i] # Absent /\ jobs[i].partition = jobs[j].partition
      /\ jobs[i].claim_id = NoClaim /\ jobs[i].liveness = "pending" /\ jobs[i].vstamp \in Nat
      /\ Of(i, << t, jobs[j].partition >>) /\ << t, jobs[j].partition >> \in Timeline
  BY <1>2, WaitingTyped DEF SpacingInv
<1>4. jobs[j].vstamp <= jobs[i].vstamp
  BY <1>3 DEF Serves
<1>5. ASSUME t = jobs[j].tenant
      PROVE  jobs[j].vstamp # jobs[i].vstamp
  <2>1. Of(j, << t, jobs[j].partition >>)
    BY <1>1, <1>5 DEF Of
  <2> QED BY <1>1, <1>3, <2>1 DEF SpacingInv, StampsDiffer
<1> QED BY <1>2, <1>3, <1>4, <1>5

LEMMA MoveKeepsSpacing ==
    ASSUME DispatchTypeOK, DispatchTypeOK', SpacingInv, NEW j \in JobId,
           Serves(j) \/ Finishes(j)
    PROVE  BackToBack'
<1>1. ClaimedOnce /\ ClaimedOnce' /\ WorthTyped /\ BackToBack
  BY StepKeepsJobs DEF SpacingInv
<1> SUFFICES ASSUME NEW t \in Tenant, NEW p \in Partition,
                    NEW x \in Waiting(t, p)', NEW y \in Waiting(t, p)',
                    FrontierOrZero(p)' <= jobs'[x].vstamp, jobs'[x].vstamp < jobs'[y].vstamp
             PROVE  /\ jobs'[x].vstamp <= StartOf(y)'
                    /\ \E k \in Waiting(t, p)' : StartOf(k)' = jobs'[x].vstamp
  BY DEF BackToBack
<1>2. Waiting(t, p)' = Waiting(t, p) \ {j}
  BY <1>1, WaitingMoves
<1>3. \A i \in Waiting(t, p) : /\ i \in JobId /\ jobs[i] # Absent /\ jobs[i].partition = p
                               /\ jobs[i].vstamp \in Nat /\ worth[i] \in Nat \ {0}
                               /\ i # j => jobs'[i] = jobs[i] /\ StartOf(i)' = StartOf(i)
  <2> SUFFICES ASSUME NEW i \in Waiting(t, p)
               PROVE  /\ i \in JobId /\ jobs[i] # Absent /\ jobs[i].partition = p
                      /\ jobs[i].vstamp \in Nat /\ worth[i] \in Nat \ {0}
                      /\ i # j => jobs'[i] = jobs[i] /\ StartOf(i)' = StartOf(i)
    OBVIOUS
  <2>0. /\ i \in JobId /\ Of(i, << t, p >>) /\ jobs[i].vstamp \in Nat
    BY <1>1, WaitingTyped
  <2>1. jobs[i] # Absent /\ jobs[i].partition = p
    BY <2>0 DEF Of
  <2>2. UNCHANGED worth /\ \A k \in JobId \ {j} : jobs'[k] = jobs[k]
    BY DEF Serves, Finishes
  <2>3. worth[i] \in Nat \ {0}
    BY <1>1, <2>0, <2>1 DEF WorthTyped
  <2> QED BY <2>0, <2>1, <2>2, <2>3 DEF StartOf
<1>4. /\ x \in Waiting(t, p) /\ y \in Waiting(t, p) /\ x # j /\ y # j
      /\ jobs'[x] = jobs[x] /\ jobs'[y] = jobs[y] /\ StartOf(y)' = StartOf(y)
  BY <1>2, <1>3
<1>5. FrontierOrZero(p) <= jobs[x].vstamp
  <2>1. /\ FrontierOrZero(p) \in 0 .. MaxInt /\ FrontierOrZero(p)' \in 0 .. MaxInt
        /\ Db!Frontier(p) # {} => FrontierOrZero(p) <= FrontierOrZero(p)'
    BY FrontierAdvances
  <2>2. Db!Frontier(p) # {}
    BY <1>1, <1>3, <1>4, FrontierIs DEF FrontierStands, FrontiersStand
  <2> QED BY <1>3, <1>4, <2>1, <2>2, VTimeAssumption
<1>6. /\ jobs[x].vstamp <= StartOf(y)
      /\ \E k \in Waiting(t, p) : StartOf(k) = jobs[x].vstamp
  BY <1>1, <1>4, <1>5 DEF BackToBack
<1>7. PICK k \in Waiting(t, p) : StartOf(k) = jobs[x].vstamp
  BY <1>6
<1>8. k # j
  <2>1. CASE Serves(j)
    <3>1. SUFFICES ASSUME k = j PROVE FALSE
      OBVIOUS
    <3>2. /\ jobs[j].partition = p /\ jobs[j].vstamp - worth[j] = jobs[x].vstamp
          /\ jobs[j].vstamp \in Nat /\ worth[j] \in Nat \ {0} /\ jobs[x].vstamp \in Nat
      BY <1>3, <1>4, <1>7, <3>1 DEF StartOf
    <3>3. jobs[j].vstamp <= jobs[x].vstamp
      BY <1>4, <2>1, <3>2, ServedIsFirst
    <3> QED BY <3>2, <3>3
  <2>2. CASE Finishes(j)
    BY <1>1, <2>2, WaitingMoves
  <2> QED BY <2>1, <2>2
<1>9. k \in Waiting(t, p)' /\ StartOf(k)' = StartOf(k)
  BY <1>2, <1>3, <1>7, <1>8
<1> QED BY <1>4, <1>6, <1>7, <1>9

LEMMA InsertKeepsSpacing ==
    ASSUME DispatchTypeOK, DispatchTypeOK', SpacingInv, NEW u \in Timeline,
           NEW j \in JobId, Inserts(j, u)
    PROVE  BackToBack' /\ StampsDiffer'
<1>1. ClaimedOnce /\ ClaimedOnce' /\ BackToBack /\ StampsDiffer
  BY StepKeepsJobs DEF SpacingInv
<1>2. /\ Base(u) \in Nat
      /\ \A i \in JobId :
           Of(i, u) /\ jobs[i].liveness = "pending" => jobs[i].vstamp <= Base(u)
      /\ \A i \in JobId :
           /\ Of(i, u) /\ jobs[i].claim_id = NoClaim
           /\ FrontierOrZero(u[2]) <= jobs[i].vstamp
           => \E k \in JobId : /\ Of(k, u) /\ jobs[k].claim_id = NoClaim
                               /\ jobs[k].vstamp = Base(u)
  BY BaseIsLast, VTimeAssumption
<1>3. /\ u[1] \in Tenant /\ u[2] \in Partition /\ u = << u[1], u[2] >>
      /\ worth'[j] \in Nat \ {0}
  BY Timelines DEF Inserts
<1>4. /\ jobs'[j].vstamp = Base(u) + worth'[j]
      /\ \A i \in JobId \ {j} : jobs'[i] = jobs[i] /\ worth'[i] = worth[i]
  BY DEF Inserts
<1>5. ASSUME NEW i \in JobId, jobs[i] # Absent
      PROVE  /\ i # j /\ jobs'[i] = jobs[i] /\ jobs[i].vstamp \in Nat
             /\ StartOf(i)' = StartOf(i)
  BY <1>4, <1>5, RecordsTyped DEF Inserts, StartOf
<1>0. StartOf(j)' = Base(u)
  BY <1>2, <1>3, <1>4 DEF StartOf
<1>6. StampsDiffer'
  <2> SUFFICES ASSUME NEW w \in Timeline, NEW x \in JobId, NEW y \in JobId,
                      Of(x, w)', jobs'[x].liveness = "pending",
                      Of(y, w)', jobs'[y].liveness = "pending",
                      jobs'[x].vstamp = jobs'[y].vstamp
               PROVE  x = y
    BY DEF StampsDiffer
  <2>1. ASSUME NEW i \in JobId, i # j, Of(i, w)', jobs'[i].liveness = "pending"
        PROVE  /\ Of(i, w) /\ jobs[i].liveness = "pending" /\ jobs'[i] = jobs[i]
               /\ w = u => jobs[i].vstamp \in Nat /\ jobs[i].vstamp < jobs'[j].vstamp
    <3>1. Of(i, w) /\ jobs[i].liveness = "pending" /\ jobs'[i] = jobs[i]
      BY <1>4, <2>1 DEF Of
    <3>2. jobs[i].vstamp \in Nat
      BY <1>5, <3>1 DEF Of
    <3>3. w = u => jobs[i].vstamp <= Base(u)
      BY <1>2, <3>1
    <3> QED BY <1>2, <1>3, <1>4, <3>1, <3>2, <3>3
  <2>2. Of(j, w)' => w = u
    <3>1. Of(j, w)' => w[1] = u[1] /\ w[2] = u[2]
      BY DEF Of, Inserts
    <3>2. w = << w[1], w[2] >> /\ u = << u[1], u[2] >>
      BY Timelines
    <3> QED BY <3>1, <3>2
  <2>3. CASE x # j /\ y # j
    <3>1. Of(x, w) /\ jobs[x].liveness = "pending" /\ jobs'[x] = jobs[x]
      BY <2>1, <2>3
    <3>2. Of(y, w) /\ jobs[y].liveness = "pending" /\ jobs'[y] = jobs[y]
      BY <2>1, <2>3
    <3> QED BY <1>1, <3>1, <3>2 DEF StampsDiffer
  <2>4. CASE x = j /\ y # j
    <3>1. jobs[y].vstamp \in Nat /\ jobs[y].vstamp < jobs'[j].vstamp /\ jobs'[y] = jobs[y]
      BY <2>1, <2>2, <2>4
    <3> QED BY <1>2, <1>3, <1>4, <2>4, <3>1
  <2>5. CASE x # j /\ y = j
    <3>1. jobs[x].vstamp \in Nat /\ jobs[x].vstamp < jobs'[j].vstamp /\ jobs'[x] = jobs[x]
      BY <2>1, <2>2, <2>5
    <3> QED BY <1>2, <1>3, <1>4, <2>5, <3>1
  <2> QED BY <2>3, <2>4, <2>5
<1>7. BackToBack'
  <2> SUFFICES ASSUME NEW t \in Tenant, NEW p \in Partition,
                      NEW x \in Waiting(t, p)', NEW y \in Waiting(t, p)',
                      FrontierOrZero(p)' <= jobs'[x].vstamp,
                      jobs'[x].vstamp < jobs'[y].vstamp
               PROVE  /\ jobs'[x].vstamp <= StartOf(y)'
                      /\ \E k \in Waiting(t, p)' : StartOf(k)' = jobs'[x].vstamp
    BY DEF BackToBack
  <2> DEFINE W == Waiting(t, p)
  <2>1. /\ j \notin W
        /\ Waiting(t, p)' = IF u = << t, p >> THEN W \cup {j} ELSE W
    BY <1>1, WaitingMoves
  <2>2. \A i \in W : /\ i \in JobId /\ Of(i, << t, p >>) /\ jobs[i] # Absent
                     /\ jobs[i].partition = p /\ jobs[i].liveness = "pending"
                     /\ jobs[i].claim_id = NoClaim /\ jobs[i].vstamp \in Nat
                     /\ jobs'[i] = jobs[i] /\ StartOf(i)' = StartOf(i)
    BY <1>1, <1>5, WaitingTyped
  <2>3. ASSUME NEW i \in W, FrontierOrZero(p)' <= jobs[i].vstamp
        PROVE  FrontierOrZero(p) <= jobs[i].vstamp
    <3>1. /\ FrontierOrZero(p) \in 0 .. MaxInt /\ FrontierOrZero(p)' \in 0 .. MaxInt
          /\ Db!Frontier(p) # {} => FrontierOrZero(p) <= FrontierOrZero(p)'
      BY FrontierAdvances
    <3>2. Db!Frontier(p) # {}
      BY <1>1, <2>2, FrontierIs DEF FrontierStands, FrontiersStand
    <3> HIDE DEF W
    <3> QED BY <2>2, <2>3, <3>1, <3>2, VTimeAssumption
  <2>4. CASE x \in W /\ y \in W
    <3>1. jobs'[x] = jobs[x] /\ jobs'[y] = jobs[y] /\ StartOf(y)' = StartOf(y)
      BY <2>2, <2>4
    <3>2. /\ jobs[x].vstamp <= StartOf(y)
          /\ \E k \in W : StartOf(k) = jobs[x].vstamp
      BY <1>1, <2>3, <2>4, <3>1 DEF BackToBack
    <3> QED BY <2>1, <2>2, <3>1, <3>2
  <2>5. CASE x \in W /\ y = j
    <3>1. u = << t, p >> /\ u[1] = t /\ u[2] = p /\ j \in Waiting(t, p)'
      BY <2>1, <2>5
    <3>2. /\ Of(x, u) /\ jobs[x].liveness = "pending" /\ jobs[x].claim_id = NoClaim
          /\ jobs'[x] = jobs[x] /\ jobs[x].vstamp \in Nat /\ x \in JobId
          /\ FrontierOrZero(p) <= jobs[x].vstamp
      BY <2>2, <2>3, <2>5, <3>1
    <3>3. jobs[x].vstamp <= Base(u)
      BY <1>2, <3>2
    <3>4. PICK k \in JobId : /\ Of(k, u) /\ jobs[k].claim_id = NoClaim
                             /\ jobs[k].vstamp = Base(u)
      BY <1>2, <3>1, <3>2
    <3>5. k \in W /\ k \in Waiting(t, p)'
      <4>1. k \in W
        BY <1>1, <3>1, <3>4, WaitingIs
      <4> QED BY <2>1, <4>1
    <3>6. CASE jobs[x].vstamp = Base(u)
      BY <1>0, <1>2, <2>5, <3>1, <3>2, <3>6
    <3>7. CASE jobs[x].vstamp < Base(u)
      <4>1. \E m \in W : StartOf(m) = jobs[x].vstamp
        BY <1>1, <2>5, <3>2, <3>4, <3>5, <3>7 DEF BackToBack
      <4>2. \E m \in Waiting(t, p)' : StartOf(m)' = jobs'[x].vstamp
        BY <2>1, <2>2, <3>2, <4>1
      <4> QED BY <1>0, <2>5, <3>2, <3>3, <4>2
    <3> QED BY <1>2, <3>2, <3>3, <3>6, <3>7
  <2>6. CASE x = j /\ y \in W
    <3>1. u = << t, p >>
      BY <2>1, <2>6
    <3>2. jobs[y].vstamp <= Base(u) /\ jobs[y].vstamp \in Nat /\ jobs'[y] = jobs[y]
      BY <1>2, <2>2, <2>6, <3>1
    <3> QED BY <1>2, <1>3, <1>4, <2>6, <3>2
  <2>7. CASE x = j /\ y = j
    BY <1>2, <1>3, <1>4, <2>7
  <2> QED BY <2>1, <2>4, <2>5, <2>6, <2>7
<1> QED BY <1>6, <1>7

LEMMA MoveKeepsSpacingInv ==
    ASSUME DispatchTypeOK, DispatchTypeOK', SpacingInv, NEW j \in JobId,
           Serves(j) \/ Finishes(j), UNCHANGED << clocks, lwm >>
    PROVE  SpacingInv'
<1>1. ClaimedOnce'
  BY StepKeepsJobs DEF SpacingInv
<1>2. ClocksLast' /\ StampsDiffer' /\ BackToBack'
  BY MoveKeepsClocks, MoveKeepsSpacing
<1>3. WorthTyped'
  BY DEF SpacingInv, WorthTyped, Serves, Finishes, Placed
<1>4. StoredBehind'
  <2> SUFFICES ASSUME NEW n \in Node, NEW p \in Partition, lwm'[n][p] # NoLWM
               PROVE  Db!Frontier(p)' # {} /\ lwm'[n][p] <= FrontierOrZero(p)'
    BY DEF StoredBehind
  <2>1. /\ Db!Frontier(p) # {} /\ lwm'[n][p] <= FrontierOrZero(p)
        /\ lwm'[n][p] \in 0 .. MaxInt
    BY DEF SpacingInv, StoredBehind, DispatchTypeOK
  <2>2. /\ Db!Frontier(p)' # {} /\ FrontierOrZero(p) <= FrontierOrZero(p)'
        /\ FrontierOrZero(p) \in 0 .. MaxInt /\ FrontierOrZero(p)' \in 0 .. MaxInt
    BY <2>1, FrontierAdvances
  <2> QED BY <2>1, <2>2, VTimeAssumption
<1> QED BY <1>1, <1>2, <1>3, <1>4 DEF SpacingInv

LEMMA EnqueueKeepsSpacingInv ==
    ASSUME DispatchTypeOK, DispatchTypeOK', SpacingInv, NEW u \in Timeline,
           NEW j \in JobId, NEW cost \in Cost, NEW weight \in Weight,
           ShareEnqueue(j, u, cost, weight)
    PROVE  SpacingInv'
<1> DEFINE v == NextStamp(u, cost, weight)
<1>1. Inserts(j, u) /\ Enqueue(j, u, cost, weight, 0)
  BY EnqueueInserts DEF SpacingInv, WorthTyped, ShareEnqueue
<1>2. ClaimedOnce'
  BY <1>1, StepKeepsJobs DEF SpacingInv
<1>3. BackToBack' /\ StampsDiffer'
  BY <1>1, InsertKeepsSpacing
<1>4. /\ jobs'[j].vstamp = v /\ Base(u) < v
      /\ Base(u) \in 0 .. MaxInt /\ v \in 0 .. MaxInt
      /\ \A i \in JobId :
           Of(i, u) /\ jobs[i].liveness = "pending" => jobs[i].vstamp <= Base(u)
  <2>1. /\ Base(u) < v /\ v \in 0 .. MaxInt
        /\ u[1] \in Tenant /\ u[2] \in Partition
    BY <1>1, NextStampAdvances, Timelines DEF Enqueue
  <2>2. jobs'[j].vstamp = v
    BY <1>1, <2>1, InsertKeeps DEF Enqueue, DispatchTypeOK
  <2> QED BY <2>1, <2>2, BaseIsLast
<1>5. /\ \A w \in Timeline : w # u => clocks'[w] = clocks[w]
      /\ clocks'[u].vtime = v /\ clocks'[u].seeded /\ clocks'[u].everSeeded
      /\ lwm' = LwmAtReserve(u)
  BY <1>1 DEF Enqueue, Leave, DispatchTypeOK
<1> HIDE DEF v
<1>6. \A i \in JobId \ {j} : jobs'[i] = jobs[i]
  BY <1>1 DEF Inserts
<1>7. \A w \in Timeline : Of(j, w)' <=> w = u
  <2>1. \A w \in Timeline : Of(j, w)' <=> w[1] = u[1] /\ w[2] = u[2]
    BY <1>1 DEF Of, Inserts
  <2> QED BY <2>1, Timelines
<1>8. ClocksLast'
  <2> SUFFICES ASSUME NEW w \in Timeline, clocks'[w] # NoClock
               PROVE  /\ clocks'[w].seeded /\ clocks'[w].everSeeded
                      /\ \E i \in JobId : Of(i, w)' /\ jobs'[i].vstamp = clocks'[w].vtime
                      /\ \A i \in JobId : Of(i, w)' /\ jobs'[i].liveness = "pending" =>
                           jobs'[i].vstamp <= clocks'[w].vtime
    BY DEF ClocksLast
  <2>1. CASE w = u
    <3>1. ASSUME NEW i \in JobId, Of(i, u)', jobs'[i].liveness = "pending"
          PROVE  jobs'[i].vstamp <= v
      <4>1. CASE i = j
        BY <1>4, <4>1, VTimeAssumption
      <4>2. CASE i # j
        <5>1. Of(i, u) /\ jobs[i].liveness = "pending" /\ jobs'[i].vstamp = jobs[i].vstamp
          BY <1>6, <3>1, <4>2 DEF Of
        <5>2. jobs[i].vstamp <= Base(u) /\ jobs[i].vstamp \in 0 .. MaxInt
          BY <1>4, <5>1, RecordsTyped DEF Of
        <5> QED BY <1>4, <5>1, <5>2, VTimeAssumption
      <4> QED BY <4>1, <4>2
    <3> QED BY <1>4, <1>5, <1>7, <2>1, <3>1
  <2>2. CASE w # u
    <3>1. \A i \in JobId : /\ Of(i, w)' => i # j /\ Of(i, w) /\ jobs'[i] = jobs[i]
                           /\ Of(i, w) => i # j /\ Of(i, w)' /\ jobs'[i] = jobs[i]
      BY <1>1, <1>6, <1>7, <2>2 DEF Of, Inserts
    <3>2. clocks'[w] = clocks[w]
      BY <1>5, <2>2
    <3> QED BY <3>1, <3>2 DEF SpacingInv, ClocksLast
  <2> QED BY <2>1, <2>2
<1>9. StoredBehind'
  <2> SUFFICES ASSUME NEW n \in Node, NEW p \in Partition, lwm'[n][p] # NoLWM
               PROVE  Db!Frontier(p)' # {} /\ lwm'[n][p] <= FrontierOrZero(p)'
    BY DEF StoredBehind
  <2>1. Db!Frontier(p) # {} /\ LwmAtReserve(u)[n][p] <= FrontierOrZero(p)
    BY <1>5, StoredAtReserve DEF SpacingInv
  <2>2. lwm'[n][p] <= FrontierOrZero(p) /\ lwm'[n][p] \in 0 .. MaxInt
    BY <1>5, <2>1 DEF DispatchTypeOK
  <2>3. /\ Db!Frontier(p)' # {} /\ FrontierOrZero(p) <= FrontierOrZero(p)'
        /\ FrontierOrZero(p) \in 0 .. MaxInt /\ FrontierOrZero(p)' \in 0 .. MaxInt
    BY <1>1, <2>1, FrontierAdvances
  <2> QED BY <2>2, <2>3, VTimeAssumption
<1>10. WorthTyped'
  <2>1. \A i \in JobId \ {j} : jobs'[i] # Absent => worth'[i] > 0
    BY <1>1 DEF SpacingInv, WorthTyped, Inserts
  <2>2. worth'[j] > 0 /\ worth' \in [JobId -> Nat]
    BY <1>1 DEF Inserts
  <2> QED BY <2>1, <2>2 DEF WorthTyped
<1> QED BY <1>2, <1>3, <1>8, <1>9, <1>10 DEF SpacingInv

(* Where the jobs stay, a clock that is dropped and a frontier that is     *)
(* read again disturb nothing.                                             *)
LEMMA QuietKeepsSpacingInv ==
    ASSUME SpacingInv, UNCHANGED << jobs, worth >>,
           \A u \in Timeline : clocks'[u] # NoClock =>
             /\ clocks[u] # NoClock /\ clocks'[u].vtime = clocks[u].vtime
             /\ clocks'[u].seeded = clocks[u].seeded
             /\ clocks'[u].everSeeded = clocks[u].everSeeded,
           \A n \in Node, p \in Partition : lwm'[n][p] # NoLWM =>
             \/ lwm'[n][p] = lwm[n][p]
             \/ Db!Frontier(p) # {} /\ lwm'[n][p] <= FrontierOrZero(p)
    PROVE  SpacingInv'
<1>1. \A p \in Partition : /\ Db!Frontier(p)' = Db!Frontier(p)
                           /\ FrontierOrZero(p)' = FrontierOrZero(p)
  BY DEF FrontierOrZero, Db!Frontier, Db!Fenced, Db!PendingIn, Db!Pending, Db!Stamps
<1>2. \A t \in Tenant, p \in Partition : Waiting(t, p)' = Waiting(t, p)
  BY DEF Waiting, Db!TimelineJobs, Db!Pending
<1>3. ClaimedOnce'
  BY DEF SpacingInv, ClaimedOnce
<1>4. StampsDiffer'
  BY DEF SpacingInv, StampsDiffer, Of
<1>5. BackToBack' /\ WorthTyped'
  BY <1>1, <1>2 DEF SpacingInv, BackToBack, StartOf, WorthTyped
<1>6. ClocksLast'
  BY DEF SpacingInv, ClocksLast, Of
<1>7. StoredBehind'
  BY <1>1 DEF SpacingInv, StoredBehind
<1> QED BY <1>3, <1>4, <1>5, <1>6, <1>7 DEF SpacingInv

LEMMA ReconcileKeepsSpacingInv ==
    ASSUME DispatchTypeOK, SpacingInv, NEW n \in Node, NEW failed, Reconcile(n, failed),
           UNCHANGED worth
    PROVE  SpacingInv'
<1>1. UNCHANGED << jobs, worth >>
  BY DEF Reconcile
<1>2. ASSUME NEW u \in Timeline, clocks'[u] # NoClock
      PROVE  /\ clocks[u] # NoClock /\ clocks'[u].vtime = clocks[u].vtime
             /\ clocks'[u].seeded = clocks[u].seeded
             /\ clocks'[u].everSeeded = clocks[u].everSeeded
  <2>1. clocks'[u] \in {Walked(clocks[u]), clocks[u]}
    BY DEF Reconcile
  <2>2. CASE clocks'[u] = clocks[u]
    BY <1>2, <2>2
  <2>3. CASE clocks'[u] = Walked(clocks[u])
    <3>1. /\ clocks[u] \in Clock /\ clocks[u] # NoClock
          /\ \/ clocks'[u] = [clocks[u] EXCEPT !.touched = FALSE, !.stale = TRUE]
             \/ clocks'[u] = clocks[u]
      BY <1>2, <2>3 DEF Walked, DispatchTypeOK
    <3> QED BY <3>1 DEF Clock
  <2> QED BY <2>1, <2>2, <2>3
<1> DEFINE fresh == Refreshed(n, CachedOn(n, clocks) \ failed)
<1>3. /\ \A m \in Node \ {n} : lwm'[m] = lwm[m]
      /\ \A p \in Partition : lwm'[n][p] \in {fresh[p], NoLWM}
  BY DEF Reconcile, DispatchTypeOK
<1>4. \A p \in Partition :
        \/ fresh[p] = lwm[n][p]
        \/ Db!Frontier(p) # {} /\ fresh[p] = FrontierOrZero(p)
  BY RefreshReads
<1>5. \A p \in Partition : FrontierOrZero(p) <= FrontierOrZero(p)
  BY FrontierTyped, VTimeAssumption DEF DispatchTypeOK
<1> HIDE DEF fresh
<1>6. ASSUME NEW m \in Node, NEW p \in Partition, lwm'[m][p] # NoLWM
      PROVE  \/ lwm'[m][p] = lwm[m][p]
             \/ Db!Frontier(p) # {} /\ lwm'[m][p] <= FrontierOrZero(p)
  BY <1>3, <1>4, <1>5, <1>6
<1> QED BY <1>1, <1>2, <1>6, QuietKeepsSpacingInv

LEMMA RestartKeepsSpacingInv ==
    ASSUME DispatchTypeOK, SpacingInv, NEW n \in Node, Restart(n), UNCHANGED worth
    PROVE  SpacingInv'
<1>1. UNCHANGED << jobs, worth >>
  BY DEF Restart
<1>2. \A u \in Timeline : clocks'[u] # NoClock =>
        clocks[u] # NoClock /\ clocks'[u] = clocks[u]
  BY DEF Restart
<1>3. ASSUME NEW m \in Node, NEW p \in Partition, lwm'[m][p] # NoLWM
      PROVE  lwm'[m][p] = lwm[m][p]
  BY <1>3 DEF Restart, NothingStored, DispatchTypeOK
<1> QED BY <1>1, <1>2, <1>3, QuietKeepsSpacingInv

LEMMA NextSpacingInv ==
    DispatchTypeOK /\ SpacingInv /\ [ShareNext]_shareVars
        => /\ (DispatchTypeOK /\ SpacingInv)'
           /\ \/ UNCHANGED << jobs, worth >>
              \/ \E j \in JobId : \/ \E u \in Timeline : Inserts(j, u)
                                  \/ Serves(j) \/ Finishes(j)
<1> SUFFICES ASSUME DispatchTypeOK, SpacingInv, [ShareNext]_shareVars
             PROVE  /\ DispatchTypeOK' /\ SpacingInv'
                    /\ \/ UNCHANGED << jobs, worth >>
                       \/ \E j \in JobId : \/ \E u \in Timeline : Inserts(j, u)
                                           \/ Serves(j) \/ Finishes(j)
  OBVIOUS
<1>1. ASSUME NEW u \in Timeline, NEW cost \in Cost, NEW weight \in Weight,
             LowestUnused # {}, ShareEnqueue(Min(LowestUnused), u, cost, weight)
      PROVE  /\ DispatchTypeOK' /\ SpacingInv'
             /\ \E j \in JobId : \E w \in Timeline : Inserts(j, w)
  <2>1. Min(LowestUnused) \in JobId
    <3>1. LowestUnused \subseteq Nat /\ LowestUnused \subseteq JobId
      BY CollectionAssumption DEF LowestUnused
    <3>2. \E x \in LowestUnused : \A y \in LowestUnused : x <= y
      BY <1>1, <3>1, LeastExists
    <3>3. Min(LowestUnused) \in LowestUnused
      BY <3>2 DEF Min
    <3> QED BY <3>1, <3>3
  <2> DEFINE j == Min(LowestUnused)
  <2> HIDE DEF j
  <2>2. j \in JobId /\ ShareEnqueue(j, u, cost, weight)
    BY <1>1, <2>1 DEF j
  <2>3. DispatchTypeOK'
    BY <2>2, EnqueueTyped DEF ShareEnqueue
  <2>4. Inserts(j, u)
    BY <2>2, EnqueueInserts DEF SpacingInv, WorthTyped
  <2> QED BY <2>2, <2>3, <2>4, EnqueueKeepsSpacingInv
<1>2. ASSUME NEW n \in Node, NEW failed \in SUBSET Partition, Reconcile(n, failed),
             UNCHANGED worth
      PROVE  DispatchTypeOK' /\ SpacingInv' /\ UNCHANGED << jobs, worth >>
  BY <1>2, ReconcileTyped, ReconcileKeepsSpacingInv DEF Reconcile
<1>3. ASSUME NEW n \in Node, Restart(n), UNCHANGED worth
      PROVE  DispatchTypeOK' /\ SpacingInv' /\ UNCHANGED << jobs, worth >>
  <2>1. DispatchTypeOK'
    BY <1>3, NextTyped DEF Next
  <2> QED BY <1>3, <2>1, RestartKeepsSpacingInv DEF Restart
<1>4. ASSUME NEW j \in JobId, UNCHANGED << clocks, lwm, worth >>,
             \/ \E p \in Partition, c \in ClaimId, d \in Duration : Db!Claim(j, p, c, d)
             \/ \E r \in Resolution : Db!Complete(j, r)
      PROVE  /\ DispatchTypeOK' /\ SpacingInv'
             /\ Serves(j) \/ Finishes(j)
  <2>1. DispatchTypeOK'
    BY <1>4, NextTyped DEF Next, StoreStep, Db!StoreStep
  <2>2. Serves(j) \/ Finishes(j)
    BY <1>4, ClaimServes, CompleteFinishes DEF SpacingInv
  <2> QED BY <1>4, <2>1, <2>2, MoveKeepsSpacingInv
<1>5. CASE UNCHANGED shareVars
  <2>1. UNCHANGED << jobs, clocks, lwm, worth >>
    BY <1>5 DEF vars, shareVars
  <2>2. DispatchTypeOK'
    BY <2>1, NextTyped DEF vars
  <2> QED BY <2>1, <2>2, QuietKeepsSpacingInv
<1> QED BY <1>1, <1>2, <1>3, <1>4, <1>5 DEF ShareNext

LEMMA InitSpacingInv == ShareInit => SpacingInv
<1> SUFFICES ASSUME ShareInit PROVE SpacingInv
  OBVIOUS
<1>1. /\ worth = [j \in JobId |-> 0]
      /\ \A j \in JobId : jobs[j] = Absent
      /\ \A u \in Timeline : clocks[u] = NoClock
      /\ \A n \in Node, p \in Partition : lwm[n][p] = NoLWM
  BY DEF ShareInit, Init, Db!StoreInit, NothingStored
<1>2. \A t \in Tenant, p \in Partition : Waiting(t, p) = {}
  BY <1>1 DEF Waiting, Db!TimelineJobs, Db!Pending
<1> QED BY <1>1, <1>2
        DEF SpacingInv, ClaimedOnce, ClocksLast, StoredBehind, StampsDiffer,
            WorthTyped, BackToBack, Of

-----------------------------------------------------------------------------
(* The head of a line.  Where it waits, a line moves by what its tenant is *)
(* served.                                                                 *)

HeadStands(t, p) ==
    Waiting(t, p) # {} =>
        /\ Head(t, p) \in Waiting(t, p)
        /\ jobs[Head(t, p)].vstamp \in Nat /\ worth[Head(t, p)] \in Nat \ {0}
        /\ Start(t, p) = jobs[Head(t, p)].vstamp - worth[Head(t, p)]
        /\ \A i \in Waiting(t, p) :
            /\ jobs[i].vstamp \in Nat /\ jobs[Head(t, p)].vstamp <= jobs[i].vstamp
            /\ i # Head(t, p) => jobs[Head(t, p)].vstamp < jobs[i].vstamp

HeadsStand == \A t \in Tenant, p \in Partition : HeadStands(t, p)

LEMMA HeadIs == DispatchTypeOK /\ SpacingInv => HeadsStand
<1> SUFFICES ASSUME DispatchTypeOK, SpacingInv, NEW t \in Tenant, NEW p \in Partition,
                    Waiting(t, p) # {}
             PROVE  HeadStands(t, p)
  BY DEF HeadStands, HeadsStand
<1> DEFINE W == Waiting(t, p)
           S == Db!Stamps(W)
           h == Head(t, p)
<1>1. \A i \in W : /\ i \in JobId /\ Of(i, << t, p >>) /\ << t, p >> \in Timeline
                   /\ jobs[i] # Absent /\ jobs[i].liveness = "pending"
                   /\ jobs[i].vstamp \in 0 .. MaxInt /\ jobs[i].vstamp \in Nat
  BY WaitingTyped DEF SpacingInv
<1>2. S \subseteq 0 .. MaxInt /\ S # {}
  BY <1>1 DEF Db!Stamps
<1>3. Min(S) \in S /\ \A y \in S : Min(S) <= y
  BY <1>2, ExtremesExist
<1>4. \E i \in W : jobs[i].vstamp = Min(S)
  BY <1>3 DEF Db!Stamps
<1>5. h \in W /\ jobs[h].vstamp = Min(S)
  BY <1>4 DEF Head
<1>6. \A i \in W : jobs[h].vstamp <= jobs[i].vstamp
  BY <1>3, <1>5 DEF Db!Stamps
<1>7. worth[h] \in Nat \ {0}
  BY <1>1, <1>5 DEF SpacingInv, WorthTyped
<1>8. Start(t, p) = jobs[h].vstamp - worth[h]
  BY DEF Start, StartOf
<1> HIDE DEF h, W, S
<1>9. ASSUME NEW i \in W, i # h
      PROVE  jobs[h].vstamp < jobs[i].vstamp
  <2>1. jobs[i].vstamp # jobs[h].vstamp
    BY <1>1, <1>5, <1>9 DEF SpacingInv, StampsDiffer
  <2> QED BY <1>1, <1>5, <1>6, <2>1
<1> QED BY <1>1, <1>5, <1>6, <1>7, <1>8, <1>9 DEF HeadStands, h, W

LEMMA HeadStaysOrServed ==
    ASSUME DispatchTypeOK, DispatchTypeOK', SpacingInv, SpacingInv', NEW j \in JobId,
           (\E u \in Timeline : Inserts(j, u)) \/ Serves(j) \/ Finishes(j),
           NEW t \in Tenant, NEW p \in Partition,
           Waiting(t, p) # {}, Waiting(t, p)' # {}
    PROVE  \/ /\ Head(t, p)' = Head(t, p) /\ Service(t, p) = 0
              /\ Start(t, p)' = Start(t, p)
              /\ jobs'[Head(t, p)'].vstamp = jobs[Head(t, p)].vstamp
           \/ /\ Serves(j) /\ j = Head(t, p) /\ jobs[j].partition = p
              /\ Waiting(t, p)' = Waiting(t, p) \ {j}
              /\ Service(t, p) = worth[j]
<1> DEFINE W == Waiting(t, p)
           V == Waiting(t, p)'
           h == Head(t, p)
           g == Head(t, p)'
<1>1. ClaimedOnce /\ ClaimedOnce' /\ HeadStands(t, p) /\ HeadStands(t, p)'
  <2>1. (DispatchTypeOK /\ SpacingInv => HeadsStand)'
    BY HeadIs, PTL
  <2>2. HeadsStand /\ HeadsStand'
    BY <2>1, HeadIs
  <2> QED BY <2>2 DEF HeadsStand, SpacingInv
<1>2. \A i \in W : /\ i \in JobId /\ jobs[i] # Absent /\ jobs[i].claim_id = NoClaim
                   /\ jobs[i].liveness = "pending" /\ Of(i, << t, p >>)
                   /\ jobs[i].partition = p /\ jobs[i].tenant = t
  BY <1>1, WaitingTyped
<1>3. << t, p >> \in Timeline /\ << t, p >>[1] = t /\ << t, p >>[2] = p
  BY DEF Timeline
<1>4. \A i \in JobId \ {j} : jobs'[i] = jobs[i]
  BY DEF Inserts, Serves, Finishes
<1>5. \A i \in W : i # j => jobs'[i] = jobs[i] /\ worth'[i] = worth[i]
  BY <1>2 DEF Inserts, Serves, Finishes
<1>6. CASE ~(Serves(j) /\ j \in W)
  <2>1. j \notin W /\ W \subseteq V /\ V \subseteq W \cup {j}
    BY <1>1, <1>6, WaitingMoves
  <2>2. \A i \in W : /\ jobs'[i] = jobs[i] /\ worth'[i] = worth[i]
                     /\ jobs'[i].claim_id = NoClaim
    BY <1>2, <1>5, <2>1
  <2>3. Service(t, p) = 0
    BY <2>2 DEF Service, Served
  <2>4. ASSUME g = j
        PROVE  FALSE
    <3>1. j \in V /\ j \notin W
      BY <1>1, <2>1, <2>4 DEF HeadStands
    <3>2. PICK u \in Timeline : Inserts(j, u)
      BY <1>1, <3>1, WaitingMoves
    <3>3. u = << t, p >>
      BY <1>1, <3>1, <3>2, WaitingMoves
    <3>4. h \in W /\ jobs[h].vstamp \in Nat
      BY <1>1 DEF HeadStands
    <3>5. jobs[h].vstamp <= Base(u) /\ Base(u) \in Nat
      BY <1>2, <3>3, <3>4, BaseIsLast, VTimeAssumption
    <3>6. jobs'[j].vstamp = Base(u) + worth'[j] /\ worth'[j] \in Nat \ {0}
      BY <3>2 DEF Inserts
    <3>7. jobs'[j].vstamp <= jobs'[h].vstamp /\ jobs'[h].vstamp = jobs[h].vstamp
      BY <1>1, <2>1, <2>2, <2>4, <3>4 DEF HeadStands
    <3> HIDE DEF W, V, h, g
    <3> QED BY <3>4, <3>5, <3>6, <3>7
  <2>5. h = g
    <3>1. SUFFICES ASSUME h # g PROVE FALSE
      OBVIOUS
    <3>2. g \in W /\ h \in W /\ h \in V
      BY <1>1, <2>1, <2>4 DEF HeadStands
    <3>3. jobs[h].vstamp < jobs[g].vstamp /\ jobs'[g].vstamp < jobs'[h].vstamp
      BY <1>1, <3>1, <3>2 DEF HeadStands
    <3>4. jobs'[g] = jobs[g] /\ jobs'[h] = jobs[h]
      BY <2>2, <3>2
    <3>5. jobs[h].vstamp \in Nat /\ jobs[g].vstamp \in Nat
      BY <1>1, <3>2 DEF HeadStands
    <3> HIDE DEF W, V, h, g
    <3> QED BY <3>3, <3>4, <3>5
  <2>6. h \in W
    BY <1>1 DEF HeadStands
  <2>7. jobs'[g] = jobs[h] /\ worth'[g] = worth[h]
    BY <2>2, <2>5, <2>6
  <2>8. Start(t, p)' = Start(t, p)
    BY <1>1, <2>7 DEF HeadStands
  <2> QED BY <2>3, <2>5, <2>7, <2>8
<1>7. CASE Serves(j) /\ j \in W
  <2>1. V = W \ {j}
    BY <1>1, <1>7, WaitingMoves
  <2>2. Served(t, p) = {j}
    BY <1>2, <1>5, <1>7 DEF Served, Serves
  <2>3. Service(t, p) = worth[j]
    BY <2>2 DEF Service
  <2>4. j = h
    <3>1. SUFFICES ASSUME j # h PROVE FALSE
      OBVIOUS
    <3>2. /\ h \in W /\ jobs[h].vstamp \in Nat /\ jobs[j].vstamp \in Nat
          /\ jobs[h].vstamp < jobs[j].vstamp
      BY <1>1, <1>7, <3>1 DEF HeadStands
    <3>3. jobs[j].vstamp < jobs[h].vstamp
      BY <1>2, <1>7, <3>1, <3>2, ServedIsFirst
    <3> HIDE DEF W, V, h, g
    <3> QED BY <3>2, <3>3
  <2>5. jobs[j].partition = p
    BY <1>2, <1>7
  <2> QED BY <1>7, <2>1, <2>3, <2>4, <2>5
<1> QED BY <1>6, <1>7

LEMMA HeadMoves ==
    ASSUME DispatchTypeOK, DispatchTypeOK', SpacingInv, SpacingInv', NEW j \in JobId,
           (\E u \in Timeline : Inserts(j, u)) \/ Serves(j) \/ Finishes(j),
           NEW t \in Tenant, NEW p \in Partition, InLine(t, p), Waiting(t, p)' # {}
    PROVE  /\ Start(t, p)' = Start(t, p) + Service(t, p)
           /\ jobs[Head(t, p)].vstamp <= jobs'[Head(t, p)'].vstamp
<1> DEFINE W == Waiting(t, p)
           V == Waiting(t, p)'
           h == Head(t, p)
           g == Head(t, p)'
<1>1. /\ HeadStands(t, p) /\ HeadStands(t, p)' /\ W # {}
      /\ ClaimedOnce /\ WorthTyped /\ BackToBack
  <2>1. (DispatchTypeOK /\ SpacingInv => HeadsStand)'
    BY HeadIs, PTL
  <2>2. HeadsStand /\ HeadsStand'
    BY <2>1, HeadIs
  <2> QED BY <2>2 DEF HeadsStand, InLine, SpacingInv
<1>2. /\ h \in W /\ jobs[h].vstamp \in Nat /\ worth[h] \in Nat \ {0}
      /\ Start(t, p) = jobs[h].vstamp - worth[h]
      /\ \A i \in W : jobs[i].vstamp \in Nat /\ jobs[h].vstamp <= jobs[i].vstamp
      /\ \A i \in W \ {h} : jobs[h].vstamp < jobs[i].vstamp
  BY <1>1 DEF HeadStands
<1>3. /\ g \in V /\ jobs'[g].vstamp \in Nat
      /\ \A i \in V \ {g} : jobs'[g].vstamp < jobs'[i].vstamp
  BY <1>1 DEF HeadStands
<1>4. CASE /\ g = h /\ Service(t, p) = 0
           /\ Start(t, p)' = Start(t, p) /\ jobs'[g].vstamp = jobs[h].vstamp
  <2> HIDE DEF W, V, h, g
  <2>1. Start(t, p) = Start(t, p) + 0 /\ jobs[h].vstamp <= jobs'[g].vstamp
    BY <1>2, <1>4
  <2> QED BY <1>4, <2>1 DEF h, g
<1>5. CASE /\ Serves(j) /\ j = h /\ jobs[j].partition = p /\ V = W \ {j}
           /\ Service(t, p) = worth[j]
  <2>1. \A i \in W \ {h} : /\ i \in JobId /\ jobs'[i] = jobs[i] /\ worth'[i] = worth[i]
    BY <1>1, <1>5, WaitingTyped DEF Serves
  <2>2. \A i \in W : worth[i] \in Nat \ {0}
    <3>1. \A i \in W : i \in JobId /\ Of(i, << t, p >>) /\ jobs[i] # Absent
      BY <1>1, WaitingTyped
    <3>2. \A i \in JobId : jobs[i] # Absent => worth[i] \in Nat \ {0}
      BY <1>1 DEF WorthTyped
    <3> HIDE DEF W
    <3> QED BY <3>1, <3>2
  <2>3. FrontierOrZero(p) <= jobs[h].vstamp /\ FrontierOrZero(p) \in 0 .. MaxInt
    <3>1. jobs[h] # Absent /\ jobs[h].partition = p
      BY <1>5 DEF Serves, Placed
    <3>2. Db!Frontier(p) = {FrontierOrZero(p)} /\ FrontierOrZero(p) \in 0 .. MaxInt
      BY <1>1, <1>5, <3>1, FrontierIs DEF FrontierStands, FrontiersStand
    <3> QED BY <3>2 DEF InLine
  <2>4. /\ g \in W /\ g # h /\ jobs'[g] = jobs[g] /\ worth'[g] = worth[g]
        /\ jobs[g].vstamp \in Nat /\ jobs[h].vstamp < jobs[g].vstamp
    BY <1>2, <1>3, <1>5, <2>1
  <2>5. PICK k \in W : StartOf(k) = jobs[h].vstamp
    BY <1>1, <1>2, <2>3, <2>4 DEF BackToBack
  <2>6. jobs[k].vstamp - worth[k] = jobs[h].vstamp
    BY <2>5 DEF StartOf
  <2>7. k # h
    <3> HIDE DEF W, V, h, g
    <3> QED BY <1>2, <2>6
  <2>8. k = g
    <3>1. SUFFICES ASSUME k # g PROVE FALSE
      OBVIOUS
    <3>2. jobs[g].vstamp < jobs[k].vstamp
      BY <1>3, <1>5, <2>1, <2>4, <2>7, <3>1
    <3>3. FrontierOrZero(p) <= jobs[g].vstamp
      <4> HIDE DEF W, V, h, g
      <4> QED BY <1>2, <2>3, <2>4, VTimeAssumption
    <3>4. jobs[g].vstamp <= StartOf(k)
      BY <1>1, <2>4, <3>2, <3>3 DEF BackToBack
    <3> HIDE DEF W, V, h, g
    <3> QED BY <1>2, <2>4, <2>5, <3>4
  <2>9. Start(t, p)' = jobs[g].vstamp - worth[g]
    BY <1>1, <2>4 DEF HeadStands
  <2> HIDE DEF W, V, h, g
  <2>10. Start(t, p)' = jobs[h].vstamp
    BY <2>6, <2>8, <2>9
  <2>11. jobs[h].vstamp = Start(t, p) + worth[h]
    BY <1>2
  <2>12. jobs[h].vstamp <= jobs'[g].vstamp
    BY <1>2, <2>4
  <2> QED BY <1>5, <2>10, <2>11, <2>12 DEF h, g
<1> QED BY <1>1, <1>4, <1>5, HeadStaysOrServed DEF InLine

(* A step that changes no job serves nobody and moves no head.             *)
LEMMA NoHeadMoves ==
    ASSUME ClaimedOnce, UNCHANGED << jobs, worth >>
    PROVE  \A t \in Tenant, p \in Partition :
             /\ Waiting(t, p)' = Waiting(t, p) /\ Head(t, p)' = Head(t, p)
             /\ Start(t, p)' = Start(t, p)
             /\ jobs'[Head(t, p)'].vstamp = jobs[Head(t, p)].vstamp
             /\ Service(t, p) = 0
<1> SUFFICES ASSUME NEW t \in Tenant, NEW p \in Partition
             PROVE  /\ Waiting(t, p)' = Waiting(t, p) /\ Head(t, p)' = Head(t, p)
                    /\ Start(t, p)' = Start(t, p)
                    /\ jobs'[Head(t, p)'].vstamp = jobs[Head(t, p)].vstamp
                    /\ Service(t, p) = 0
  OBVIOUS
<1>1. Waiting(t, p)' = Waiting(t, p)
  BY DEF Waiting, Db!TimelineJobs, Db!Pending
<1>2. Head(t, p)' = Head(t, p)
  BY <1>1 DEF Head, Db!Stamps
<1>3. Start(t, p)' = Start(t, p)
  BY <1>2 DEF Start, StartOf
<1>4. Served(t, p) = {}
  BY DEF Served, Waiting
<1> QED BY <1>1, <1>2, <1>3, <1>4 DEF Service

StepIs ==
    \/ UNCHANGED << jobs, worth >>
    \/ \E j \in JobId : (\E u \in Timeline : Inserts(j, u)) \/ Serves(j) \/ Finishes(j)

(* Of two tenants in line, the one served is the one whose head is first:  *)
(* its line ends up within the other's head.                               *)
LEMMA ServedWithin ==
    ASSUME DispatchTypeOK, SpacingInv, StepIs, NEW s \in Pair, NEW p \in Partition,
           InLine(s[1], p), InLine(s[2], p)
    PROVE  /\ Service(s[1], p) \in Nat
           /\ \/ Service(s[1], p) = 0
              \/ Start(s[1], p) + Service(s[1], p) <= jobs[Head(s[2], p)].vstamp
<1> DEFINE t == s[1]
           W == Waiting(t, p)
           h == Head(s[1], p)
           g == Head(s[2], p)
<1>1. /\ t \in Tenant /\ s[2] \in Tenant /\ t # s[2] /\ ClaimedOnce
      /\ HeadStands(t, p) /\ HeadStands(s[2], p)
  BY HeadIs DEF Pair, SpacingInv, HeadsStand
<1>2. /\ h \in W /\ jobs[h].vstamp \in Nat /\ worth[h] \in Nat \ {0}
      /\ Start(t, p) = jobs[h].vstamp - worth[h]
      /\ \A i \in W : i # h => jobs[h].vstamp < jobs[i].vstamp /\ jobs[i].vstamp \in Nat
  BY <1>1 DEF HeadStands, InLine
<1>3. g \in Waiting(s[2], p)
  BY <1>1 DEF HeadStands, InLine
<1>4. \A i \in W : /\ i \in JobId /\ jobs[i] # Absent /\ jobs[i].claim_id = NoClaim
                   /\ jobs[i].partition = p /\ jobs[i].tenant = t
  <2>1. \A i \in Waiting(t, p) : /\ i \in JobId /\ Of(i, << t, p >>) /\ jobs[i] # Absent
                                 /\ jobs[i].claim_id = NoClaim
                                 /\ jobs[i].partition = p /\ jobs[i].tenant = t
    <3> HIDE DEF t
    <3> QED BY <1>1, WaitingTyped
  <2> QED BY <2>1
<1>5. CASE Served(t, p) = {}
  BY <1>5 DEF Service
<1>6. ASSUME NEW j \in Served(t, p)
      PROVE  Serves(j) /\ j = h
  <2>1. j \in W /\ jobs'[j].claim_id # NoClaim /\ j \in JobId /\ jobs[j] # Absent
        /\ jobs[j].claim_id = NoClaim
    BY <1>4, <1>6 DEF Served
  <2>2. Serves(j)
    <3>1. ~UNCHANGED jobs
      BY <2>1
    <3>2. PICK k \in JobId : (\E u \in Timeline : Inserts(k, u)) \/ Serves(k) \/ Finishes(k)
      BY <3>1 DEF StepIs
    <3>3. \A i \in JobId \ {k} : jobs'[i] = jobs[i]
      BY <3>2 DEF Inserts, Serves, Finishes
    <3>4. k = j
      BY <2>1, <3>3
    <3> QED BY <2>1, <3>2, <3>4 DEF Inserts, Finishes
  <2>3. j = h
    <3>1. SUFFICES ASSUME j # h PROVE FALSE
      OBVIOUS
    <3>2. /\ jobs[h].vstamp < jobs[j].vstamp /\ jobs[j].vstamp \in Nat
          /\ jobs[j].partition = p
      BY <1>2, <1>4, <2>1, <3>1
    <3>3. jobs[j].vstamp <= jobs[h].vstamp
      BY <1>1, <1>2, <2>1, <2>2, <3>1, <3>2, ServedIsFirst
    <3> HIDE DEF W, h, g, t
    <3> QED BY <1>2, <3>2, <3>3
  <2> QED BY <2>2, <2>3
<1>7. CASE Served(t, p) # {}
  <2>1. Served(t, p) = {h} /\ Serves(h)
    BY <1>6, <1>7
  <2>2. Service(t, p) = worth[h]
    BY <2>1 DEF Service
  <2>3. h \in JobId /\ jobs[h].partition = p /\ jobs[h].tenant = t
    BY <1>2, <1>4
  <2>4. g # h
    <3>1. Of(g, << s[2], p >>)
      BY <1>1, <1>3, WaitingTyped
    <3> QED BY <1>1, <2>3, <3>1 DEF Of
  <2>5. jobs[h].vstamp <= jobs[g].vstamp
    BY <1>1, <1>3, <2>1, <2>3, <2>4, ServedIsFirst
  <2>6. Start(t, p) + worth[h] = jobs[h].vstamp
    <3> HIDE DEF W, h, g, t
    <3> QED BY <1>2
  <2> QED BY <1>2, <2>2, <2>5, <2>6
<1> QED BY <1>5, <1>7

(* What a window adds up.                                                  *)
LEMMA StepIsFair ==
    ASSUME DispatchTypeOK, SpacingInv, WindowsBound, StepIs,
           NEW s \in Pair, NEW p \in Partition, window[s][p].open
    PROVE  window[s][p].ahead + Service(s[1], p) <= window[s][p].lead + worth[Head(s[2], p)]
<1> DEFINE x == Service(s[1], p)
           h == Head(s[1], p)
           g == Head(s[2], p)
           a == window[s][p].ahead
           l == window[s][p].lead
           S == Start(s[1], p)
           T == Start(s[2], p)
<1>1. /\ l \in Nat /\ a \in Int /\ InLine(s[1], p) /\ InLine(s[2], p)
      /\ a + T <= l + S /\ (a <= 0 \/ S <= jobs[g].vstamp)
  BY DEF WindowsBound
<1>2. x \in Nat /\ (x = 0 \/ S + x <= jobs[g].vstamp)
  BY <1>1, ServedWithin
<1>3. /\ jobs[g].vstamp \in Nat /\ worth[g] \in Nat /\ T = jobs[g].vstamp - worth[g]
      /\ S \in Int
  BY <1>1, HeadIs DEF HeadStands, HeadsStand, InLine, Pair
<1> HIDE DEF x, h, g, a, l, S, T
<1>4. CASE x = 0 /\ a <= 0
  BY <1>1, <1>3, <1>4 DEF x, a, l, g
<1>5. CASE S + x <= jobs[g].vstamp
  <2>1. a + x <= l + worth[g]
    BY <1>1, <1>2, <1>3, <1>5
  <2> QED BY <2>1 DEF x, a, l, g
<1> QED BY <1>1, <1>2, <1>3, <1>4, <1>5

LEMMA NextWindowsBound ==
    ASSUME DispatchTypeOK, DispatchTypeOK', SpacingInv, SpacingInv', WindowsBound, StepIs,
           WatchShares
    PROVE  WindowsBound'
<1> SUFFICES ASSUME NEW s \in Pair, NEW p \in Partition
             PROVE  /\ window'[s][p] \in [open : BOOLEAN, lead : Nat, ahead : Int]
                    /\ window'[s][p].open =>
                         /\ InLine(s[1], p)' /\ InLine(s[2], p)'
                         /\ window'[s][p].ahead + Start(s[2], p)'
                              <= window'[s][p].lead + Start(s[1], p)'
                         /\ \/ window'[s][p].ahead <= 0
                            \/ Start(s[1], p)' <= jobs'[Head(s[2], p)'].vstamp
  BY DEF WindowsBound
<1> DEFINE h == Start(s[1], p)
           g == Start(s[2], p)
           f == jobs[Head(s[2], p)].vstamp
           k == Start(s[1], p)'
           l == Start(s[2], p)'
           e == jobs'[Head(s[2], p)'].vstamp
<1>1. s[1] \in Tenant /\ s[2] \in Tenant /\ ClaimedOnce /\ HeadsStand /\ HeadsStand'
  <2>1. (DispatchTypeOK /\ SpacingInv => HeadsStand)'
    BY HeadIs, PTL
  <2> QED BY <2>1, HeadIs DEF Pair, SpacingInv
<1>2. window'[s][p] =
        IF ~(InLine(s[1], p)' /\ InLine(s[2], p)') THEN Closed
        ELSE IF ~window[s][p].open
             THEN [open |-> TRUE, ahead |-> 0, lead |-> Larger(0, l - k)]
             ELSE [window[s][p] EXCEPT
                    !.ahead = @ + Service(s[1], p) - Service(s[2], p)]
  BY DEF WatchShares
<1>3. CASE ~(InLine(s[1], p)' /\ InLine(s[2], p)')
  <2>1. window'[s][p] = Closed
    BY <1>2, <1>3
  <2> QED BY <2>1 DEF Closed
<1>4. ASSUME InLine(s[1], p)', InLine(s[2], p)'
      PROVE  /\ k \in Int /\ l \in Int /\ e \in Nat
             /\ Waiting(s[1], p)' # {} /\ Waiting(s[2], p)' # {}
  <2>1. HeadStands(s[1], p)' /\ HeadStands(s[2], p)'
    BY <1>1 DEF HeadsStand
  <2> QED BY <1>4, <2>1 DEF HeadStands, InLine
<1>5. CASE InLine(s[1], p)' /\ InLine(s[2], p)' /\ ~window[s][p].open
  <2> DEFINE lead == Larger(0, l - k)
  <2>1. window'[s][p] = [open |-> TRUE, ahead |-> 0, lead |-> lead]
    BY <1>2, <1>5
  <2>2. k \in Int /\ l \in Int
    BY <1>4, <1>5
  <2> HIDE DEF k, l
  <2>3. lead \in Nat /\ 0 + l <= lead + k
    BY <2>2 DEF Larger
  <2> HIDE DEF lead
  <2>4. /\ window'[s][p].open = TRUE /\ window'[s][p].ahead = 0 /\ window'[s][p].lead = lead
        /\ window'[s][p] \in [open : BOOLEAN, lead : Nat, ahead : Int]
    BY <2>1, <2>3
  <2>5. window'[s][p].ahead <= 0
    BY <2>4
  <2> QED BY <1>5, <2>3, <2>4, <2>5 DEF k, l
<1>6. CASE InLine(s[1], p)' /\ InLine(s[2], p)' /\ window[s][p].open
  <2> DEFINE x == Service(s[1], p)
             y == Service(s[2], p)
             w == window[s][p]
  <2>1. /\ w \in [open : BOOLEAN, lead : Nat, ahead : Int]
        /\ InLine(s[1], p) /\ InLine(s[2], p)
        /\ w.ahead + g <= w.lead + h /\ (w.ahead <= 0 \/ h <= f)
    BY <1>6 DEF WindowsBound
  <2>2. h \in Int /\ g \in Int /\ f \in Nat
    BY <1>1, <2>1 DEF HeadStands, HeadsStand, InLine
  <2>3. k \in Int /\ l \in Int /\ e \in Nat
    BY <1>4, <1>6
  <2>4. x \in Nat /\ y \in Nat /\ (x = 0 \/ h + x <= f)
    <3>1. x \in Nat /\ (x = 0 \/ h + x <= f)
      BY <2>1, ServedWithin
    <3>2. << s[2], s[1] >> \in Pair /\ << s[2], s[1] >>[1] = s[2] /\ << s[2], s[1] >>[2] = s[1]
      BY DEF Pair
    <3>3. y \in Nat
      BY <2>1, <3>2, ServedWithin
    <3> QED BY <3>1, <3>3
  <2>5. k = h + x /\ l = g + y /\ f <= e
    <3>1. CASE UNCHANGED << jobs, worth >>
      <4>1. k = h /\ x = 0 /\ l = g /\ y = 0 /\ e = f
        BY <1>1, <3>1, NoHeadMoves
      <4> HIDE DEF h, g, k, l, e, f, x, y
      <4> QED BY <2>2, <4>1
    <3>2. CASE ~UNCHANGED << jobs, worth >>
      <4>1. PICK j \in JobId :
              (\E u \in Timeline : Inserts(j, u)) \/ Serves(j) \/ Finishes(j)
        BY <3>2 DEF StepIs
      <4>2. Waiting(s[1], p)' # {} /\ Waiting(s[2], p)' # {}
        BY <1>4, <1>6
      <4>3. k = h + x
        BY <1>1, <2>1, <4>1, <4>2, HeadMoves
      <4>4. l = g + y /\ f <= e
        BY <1>1, <2>1, <4>1, <4>2, HeadMoves
      <4> QED BY <4>3, <4>4
    <3> QED BY <3>1, <3>2
  <2>6. window'[s][p] = [w EXCEPT !.ahead = @ + x - y]
    BY <1>2, <1>6
  <2> HIDE DEF w, x, y, h, g, f, k, l, e
  <2>7. /\ w.ahead \in Int /\ w.lead \in Nat
        /\ window'[s][p].ahead = w.ahead + x - y /\ window'[s][p].lead = w.lead
        /\ window'[s][p] \in [open : BOOLEAN, lead : Nat, ahead : Int]
    BY <2>1, <2>4, <2>6
  <2>8. window'[s][p].ahead + l <= window'[s][p].lead + k
    BY <2>1, <2>2, <2>4, <2>5, <2>7
  <2>9. window'[s][p].ahead <= 0 \/ k <= e
    <3>1. CASE x = 0
      BY <2>1, <2>2, <2>3, <2>4, <2>5, <2>7, <3>1
    <3>2. CASE h + x <= f
      BY <2>2, <2>3, <2>4, <2>5, <3>2
    <3> QED BY <2>4, <3>1, <3>2
  <2> QED BY <1>6, <2>7, <2>8, <2>9 DEF k, l, e
<1> QED BY <1>3, <1>5, <1>6

(* Two tenants whose jobs both wait at or after the service clock are      *)
(* served in proportion to their weights, whatever the number of tenants,  *)
(* nodes and partitions, their homes, the cost and the weight of each      *)
(* enqueue, and whichever re-seeds, restarts and reconciles intervene      *)
(* (enqueue.go:24-28, enqueue.go:45-55, vtime.go:29-41, claim.go).         *)
THEOREM FairShared == ShareSpec => FairShares
<1> DEFINE Fair ==
        \A s \in Pair, p \in Partition : window[s][p].open =>
            window[s][p].ahead + Service(s[1], p)
                <= window[s][p].lead + worth[Head(s[2], p)]
<1>1. ShareInit => DispatchTypeOK /\ SpacingInv /\ WindowsBound
  <2> SUFFICES ASSUME ShareInit PROVE DispatchTypeOK /\ SpacingInv /\ WindowsBound
    OBVIOUS
  <2>1. DispatchTypeOK /\ SpacingInv
    BY InitTyped, InitSpacingInv DEF ShareInit
  <2>2. \A s \in Pair, p \in Partition : window[s][p] = Closed
    BY DEF ShareInit
  <2>3. Closed \in [open : BOOLEAN, lead : Nat, ahead : Int] /\ ~Closed.open
    BY DEF Closed
  <2>4. WindowsBound
    BY <2>2, <2>3 DEF WindowsBound
  <2> QED BY <2>1, <2>4
<1>2. DispatchTypeOK /\ SpacingInv /\ WindowsBound /\ [ShareNext]_shareVars
        => (DispatchTypeOK /\ SpacingInv /\ WindowsBound)' /\ [Fair]_shareVars
  <2> SUFFICES ASSUME DispatchTypeOK, SpacingInv, WindowsBound, [ShareNext]_shareVars
               PROVE  DispatchTypeOK' /\ SpacingInv' /\ WindowsBound' /\ Fair
    OBVIOUS
  <2>1. DispatchTypeOK' /\ SpacingInv' /\ StepIs
    BY NextSpacingInv DEF StepIs
  <2>2. Fair
    BY <2>1, StepIsFair
  <2>3. CASE ShareNext
    <3>1. WatchShares
      BY <2>3 DEF ShareNext
    <3> QED BY <2>1, <2>2, <3>1, NextWindowsBound
  <2>4. CASE UNCHANGED shareVars
    <3>1. UNCHANGED << jobs, worth >> /\ UNCHANGED window /\ ClaimedOnce
      BY <2>4 DEF vars, shareVars, SpacingInv
    <3>2. \A t \in Tenant, p \in Partition :
            /\ InLine(t, p)' <=> InLine(t, p)
            /\ Start(t, p)' = Start(t, p)
            /\ jobs'[Head(t, p)'].vstamp = jobs[Head(t, p)].vstamp
      <4>1. \A p \in Partition : Db!Frontier(p)' = Db!Frontier(p)
        BY <3>1 DEF Db!Frontier, Db!Fenced, Db!PendingIn, Db!Pending, Db!Stamps
      <4> QED BY <3>1, <4>1, NoHeadMoves DEF InLine
    <3>3. \A s \in Pair : s[1] \in Tenant /\ s[2] \in Tenant
      BY DEF Pair
    <3>4. WindowsBound'
      BY <3>1, <3>2, <3>3 DEF WindowsBound
    <3> QED BY <2>1, <2>2, <3>4
  <2> QED BY <2>1, <2>2, <2>3, <2>4
<1> QED BY <1>1, <1>2, PTL DEF ShareSpec, FairShares
=============================================================================
