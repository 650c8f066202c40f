-------------------------- MODULE Retention_proofs --------------------------
(***************************************************************************)
(* No job is collected sooner than was asked, for any retentions, any      *)
(* width of the index's integer and any number of jobs and callers.  What  *)
(* makes it so is that the index, once there, holds exactly the whole      *)
(* seconds of every retention that was granted: none was truncated to      *)
(* nothing, and none wrapped.                                              *)
(***************************************************************************)
EXTENDS Retention, JobStore_proofs

(* The index against every answer given so far.                            *)
IndexInv ==
    \/ ttl = NoIndex /\ granted = {}
    \/ /\ ttl \in Nat /\ ttl >= 1
       /\ \A r \in granted : /\ r \in Nat
                             /\ r < ttl * NsPerSecond + NsPerSecond

RInv ==
    /\ StoreTypeOK
    /\ age \in [JobId -> Nat]
    /\ IndexInv

(* The seconds of an accepted retention survive the conversion.            *)
LEMMA SecondsExact ==
    ASSUME NEW r \in Int, InRange(r)
    PROVE  /\ r \in Nat
           /\ AsInt32(WholeSeconds(r)) \in Nat
           /\ AsInt32(WholeSeconds(r)) >= 1
           /\ r < AsInt32(WholeSeconds(r)) * NsPerSecond + NsPerSecond
<1> DEFINE s == WholeSeconds(r)
           m == MaxInt32 + 1
<1>1. NsPerSecond \in Nat \ {0} /\ m \in Nat \ {0} /\ s \in 1 .. MaxInt32
      /\ MaxInt32 \in Nat
  BY RetentionAssumption DEF InRange
<1>2. AsInt32(s) = s
  <2>1. s \in Nat /\ s < m
    BY <1>1
  <2>2. AsInt32(s) = ((s + m) % (2 * m)) - m
    BY <1>1, <2>1 DEF AsInt32
  <2> HIDE DEF s, m
  <2>3. (s + m) % (2 * m) = s + m
    BY <1>1, <2>1
  <2> QED BY <1>1, <2>1, <2>2, <2>3
<1>3. r >= 0
  <2> SUFFICES ASSUME r < 0 PROVE FALSE
    OBVIOUS
  <2> DEFINE q == (-r) \div NsPerSecond
  <2>1. q \in Nat
    BY <1>1, DivisionBounds
  <2>2. s = -q
    BY DEF WholeSeconds
  <2> HIDE DEF q, s
  <2> QED BY <1>1, <2>1, <2>2
<1>4. s = r \div NsPerSecond
  BY <1>3 DEF WholeSeconds
<1>5. r < s * NsPerSecond + NsPerSecond
  BY <1>1, <1>3, <1>4, DivisionBounds
<1> HIDE DEF s
<1> QED BY <1>1, <1>2, <1>3, <1>5 DEF s

(* The commands of everybody but the TTL monitor take no record away.      *)
LEMMA UseKeepsJobs ==
    ASSUME StoreTypeOK, Use \/ Elapse
    PROVE  /\ StoreTypeOK'
           /\ \A i \in JobId : jobs[i] # Absent => jobs'[i] # Absent
<1> DEFINE Goal == /\ StoreTypeOK'
                   /\ \A i \in JobId : jobs[i] # Absent => jobs'[i] # Absent
<1>1. ASSUME NEW j \in JobId, NEW t \in Tenant, NEW p \in Partition,
             NEW v \in VStamp, NEW d \in Duration, InsertOne(j, t, p, v, d)
      PROVE  Goal
  BY <1>1, NewJobType, PutTyped, AbsentAssumption, StoreAssumption DEF InsertOne
<1>2. ASSUME NEW j \in JobId, NEW d \in Duration, Heartbeat(j, d) \/ Release(j, d)
      PROVE  Goal
  BY <1>2, WriteTyped DEF Heartbeat, Release, Held
<1>3. ASSUME NEW j \in JobId, NEW d \in Duration, NEW p \in Partition,
             NEW c \in ClaimId, Claim(j, p, c, d)
      PROVE  Goal
  BY <1>3, WriteTyped DEF Claim, IsFirst, ClaimFilter
<1>4. ASSUME NEW j \in JobId, NEW r \in Resolution, Complete(j, r)
      PROVE  Goal
  BY <1>4, WriteTyped DEF Complete, Held
<1>5. ASSUME NEW j \in JobId, Cancel(j)
      PROVE  Goal
  BY <1>5, WriteTyped, StoreAssumption DEF Cancel, CancelFilter
<1>6. ASSUME Elapse
      PROVE  Goal
  BY <1>6, TickTyped DEF Elapse
<1> HIDE DEF Goal
<1>7. Goal
  BY <1>1, <1>2, <1>3, <1>4, <1>5, <1>6 DEF Use
<1> QED BY <1>7 DEF Goal

LEMMA InitRInv == RetentionInit => RInv
BY DEF RetentionInit, StoreInit, RInv, StoreTypeOK, IndexInv

(* Ages are reset or kept by every command, and grow with the clock.       *)
LEMMA AgesKeptTyped ==
    ASSUME age \in [JobId -> Nat], AgesKept
    PROVE  age' \in [JobId -> Nat]
BY DEF AgesKept

LEMMA IndexStep ==
    ASSUME RInv, NEW r \in Asked, IndexAfter(r), granted' \subseteq granted \cup {r}
    PROVE  RInv'
<1> USE DEF RInv
<1> DEFINE s == AsInt32(WholeSeconds(r))
<1>1. /\ r \in Nat /\ s \in Nat /\ s >= 1
      /\ r < s * NsPerSecond + NsPerSecond
  BY SecondsExact, RetentionAssumption DEF IndexAfter
<1>2. /\ ttl' = s /\ ttl \in {NoIndex, s}
      /\ UNCHANGED << jobs, age >>
  BY DEF IndexAfter
<1> HIDE DEF s
<1>3. \A q \in granted : q \in Nat /\ q < s * NsPerSecond + NsPerSecond
  BY <1>1, <1>2, RetentionAssumption DEF IndexInv
<1>4. IndexInv'
  BY <1>1, <1>2, <1>3 DEF IndexInv
<1>5. StoreTypeOK'
  BY <1>2 DEF StoreTypeOK
<1> QED BY <1>2, <1>4, <1>5

LEMMA NextRInv == RInv /\ [RetentionNext]_retentionVars => RInv'
<1> SUFFICES ASSUME RInv, [RetentionNext]_retentionVars
             PROVE  RInv'
  OBVIOUS
<1> USE DEF RInv
<1>1. ASSUME NEW r \in Asked, EnsureTTLIndex(r) \/ EnsureTTLIndexUnknown(r)
      PROVE  RInv'
  BY <1>1, IndexStep DEF EnsureTTLIndex, EnsureTTLIndexUnknown
<1>2. ASSUME NEW j \in JobId, Collect(j)
      PROVE  RInv'
  BY <1>2, ExpireTyped, AgesKeptTyped DEF Collect, IndexInv
<1>3. CASE Use
  BY <1>3, UseKeepsJobs, AgesKeptTyped DEF Use, IndexInv
<1>4. CASE Elapse
  <2>1. age' \in [JobId -> Nat]
    BY <1>4, StoreAssumption DEF Elapse
  <2> QED BY <1>4, <2>1, UseKeepsJobs DEF Elapse, IndexInv
<1>5. CASE UNCHANGED retentionVars
  BY <1>5 DEF retentionVars, IndexInv, StoreTypeOK
<1> QED BY <1>1, <1>2, <1>3, <1>4, <1>5 DEF RetentionNext

(* The index, once there, is at least a second and never shorter than what *)
(* a caller was told it is, but for a fraction of a second.                *)
THEOREM IndexInvariance == RetentionSpec => []RInv
BY InitRInv, NextRInv, PTL DEF RetentionSpec

(* No job is collected at the instant it resolves, nor before any accepted *)
(* retention ran out (queue.go:317-322).                                   *)
THEOREM JobsKeptAsAsked == RetentionSpec => KeptAsAsked
<1> DEFINE Kept(j) ==
        /\ Resolved(j)
        /\ age[j] >= NsPerSecond
        /\ \A r \in granted : age[j] > r - NsPerSecond
<1>1. RInv /\ [RetentionNext]_retentionVars
        => [\A j \in JobId : jobs[j] # Absent /\ jobs'[j] = Absent => Kept(j)]_retentionVars
  <2> SUFFICES ASSUME RInv, RetentionNext, NEW j \in JobId,
                      jobs[j] # Absent, jobs'[j] = Absent
               PROVE  Kept(j)
    OBVIOUS
  <2> USE DEF RInv
  <2>1. PICK i \in JobId : Collect(i)
    <3>1. ASSUME NEW r \in Asked PROVE ~IndexAfter(r)
      BY DEF IndexAfter
    <3> QED BY <3>1, UseKeepsJobs
            DEF RetentionNext, EnsureTTLIndex, EnsureTTLIndexUnknown
  <2>2. i = j /\ Resolved(j) /\ age[j] >= ttl * NsPerSecond /\ ttl # NoIndex
    BY <2>1, ExpireTyped DEF Collect
  <2>3. /\ ttl \in Nat /\ ttl >= 1
        /\ \A r \in granted : r \in Nat /\ r < ttl * NsPerSecond + NsPerSecond
    BY <2>2 DEF IndexInv
  <2>4. NsPerSecond \in Nat /\ ttl * NsPerSecond \in Nat
        /\ ttl * NsPerSecond >= NsPerSecond
    BY <2>3, RetentionAssumption
  <2> DEFINE t == ttl * NsPerSecond
  <2>5. age[j] \in Nat /\ age[j] >= t
    BY <2>2
  <2> HIDE DEF t
  <2>6. ASSUME NEW r \in granted PROVE age[j] > r - NsPerSecond
    BY <2>3, <2>4, <2>5 DEF t
  <2> QED BY <2>2, <2>4, <2>5, <2>6 DEF t
<1> QED BY <1>1, IndexInvariance, PTL DEF RetentionSpec, KeptAsAsked
=============================================================================
