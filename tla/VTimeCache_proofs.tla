------------------------- MODULE VTimeCache_proofs -------------------------
(***************************************************************************)
(* The cache of one node, for any number of enqueues, reconciles,          *)
(* timelines and entries.  The history variables of CacheHistory occur in  *)
(* the last section only.                                                  *)
(***************************************************************************)
EXTENDS CacheHistory, VTime_proofs, TLAPS

WalkPC == {"walk", "mark", "try"}

(* A goroutine past the recheck holds the lock of the entry that is in the *)
(* map under its key ...                                                   *)
HoldsItsEntry ==
    \A e \in Enqueuer : Critical(e) =>
        /\ ref[e] \in Ref
        /\ entry[ref[e]].holder = e
        /\ tenants[key[e]] = ref[e]

(* ... and one before it has a pointer to that entry or to an evicted one. *)
FindsItsEntry ==
    \A e \in Enqueuer : pc[e] = "lock" =>
        /\ ref[e] \in Ref
        /\ entry[ref[e]].evicted \/ tenants[key[e]] = ref[e]

(* No entry is in the map twice.                                           *)
EntriesDiffer ==
    \A t, u \in Timeline : tenants[t] = tenants[u] /\ tenants[t] # NoRef => t = u

(* A walk holds the global lock from beginning to end.                     *)
WalkHoldsMu == \A r \in Reconciler : pc[r] \in WalkPC <=> mu = r

(* The type invariant, the program counters apart.                         *)
DataOK ==
    /\ tenants \in [Timeline -> Ref \cup {NoRef}]
    /\ entry \in [Ref -> Entry]
    /\ mu \in Reconciler \cup {Free}
    /\ lwm \in [Partition -> 0 .. MaxInt \cup {NoLWM}]
    /\ key \in [Proc -> Timeline]
    /\ ref \in [Enqueuer -> Ref \cup {NoRef}]
    /\ val \in [Proc -> 0 .. MaxInt]
    /\ todo \in [Reconciler -> SUBSET (Timeline \cup Partition)]

PcOK ==
    /\ pc \in [Proc -> EnqueuePC \cup ReconcilePC]
    /\ \A e \in Enqueuer : pc[e] \in EnqueuePC
    /\ \A r \in Reconciler : pc[r] \in ReconcilePC

TodoOK ==
    \A r \in Reconciler :
        todo[r] \subseteq (IF pc[r] \in WalkPC THEN Timeline ELSE Partition)

Locks == HoldsItsEntry /\ FindsItsEntry /\ EntriesDiffer

CacheInv ==
    /\ DataOK
    /\ PcOK
    /\ TodoOK
    /\ WalkHoldsMu
    /\ Locks

-----------------------------------------------------------------------------

(* The answers of the database to an enqueue and to a reconcile, any stamp *)
(* a hook could return among them.                                         *)
EnqueueAnswered(e) ==
    \/ \E v \in 0 .. MaxInt : FrontierFound(e, v) \/ EdgeRead(e, v)
    \/ FrontierNone(e) \/ FrontierFails(e) \/ EdgeFails(e)
    \/ \E ok \in BOOLEAN : Inserted(e, ok)

ReconcileAnswered(r) ==
    \/ \E v \in 0 .. MaxInt : FrontierFound(r, v)
    \/ FrontierNone(r) \/ RefreshFails(r)

LEMMA TypeParts == DataOK /\ PcOK /\ TodoOK <=> CacheTypeOK
BY DEF DataOK, PcOK, TodoOK, CacheTypeOK, WalkPC

LEMMA Sentinels ==
    /\ MaxInt \in Nat
    /\ 0 \in 0 .. MaxInt
    /\ SomeTimeline \in Timeline
    /\ NoRef \notin Ref
    /\ Free \notin Enqueuer /\ Free \notin Reconciler
    /\ Enqueuer \cap Reconciler = {}
    /\ NewEntry \in Entry
BY CacheAssumption, VTimeAssumption DEF SomeTimeline, Proc, NewEntry, Entry

(* A step of an enqueue moves no other goroutine, no walk and nobody's     *)
(* list of work.                                                           *)
LEMMA EnqueueGoes ==
    ASSUME NEW e \in Enqueuer,
           (\E t \in Timeline : Begin(e, t)) \/ EnqueueStep(e) \/ EnqueueAnswered(e)
    PROVE  /\ \E label \in EnqueuePC : Goto(e, label)
           /\ UNCHANGED << mu, todo >>
<1> USE DEF EnqueuePC
<1>1. CASE \E t \in Timeline : Begin(e, t)
  BY <1>1 DEF Begin
<1>2. CASE EnqueueStep(e)
  BY <1>2 DEF EnqueueStep, Lookup, Lock, LockEvicted, Touch, Swap, Store,
              SeedSet, Commit, Abort, Leave, Stamp, Overflow, AfterRefresh
<1>3. CASE EnqueueAnswered(e)
  BY <1>3 DEF EnqueueAnswered, FrontierFound, EdgeRead, FrontierNone,
              FrontierFails, EdgeFails, Leave, Inserted, AfterRefresh
<1> QED BY <1>1, <1>2, <1>3

LEMMA EnqueueSpares ==
    ASSUME CacheInv, NEW e \in Enqueuer,
           (\E t \in Timeline : Begin(e, t)) \/ EnqueueStep(e) \/ EnqueueAnswered(e)
    PROVE  /\ PcOK' /\ TodoOK' /\ WalkHoldsMu'
           /\ UNCHANGED << mu, todo >>
           /\ \A x \in Proc \ {e} : pc'[x] = pc[x] /\ key'[x] = key[x] /\ val'[x] = val[x]
           /\ \A f \in Enqueuer \ {e} : ref'[f] = ref[f]
<1>1. PICK label \in EnqueuePC : Goto(e, label)
  BY EnqueueGoes
<1>2. UNCHANGED << mu, todo >>
  BY EnqueueGoes
<1>3. e \in Proc /\ e \notin Reconciler /\ \A r \in Reconciler : r \in Proc
  BY Sentinels DEF Proc
<1>4. /\ pc' \in [Proc -> EnqueuePC \cup ReconcilePC]
      /\ pc'[e] = label
      /\ \A x \in Proc \ {e} : pc'[x] = pc[x]
  BY <1>1, <1>3 DEF CacheInv, PcOK, Goto
<1>5. \A r \in Reconciler : pc'[r] = pc[r]
  BY <1>3, <1>4
<1>6. \A f \in Enqueuer \ {e} : pc'[f] = pc[f]
  BY <1>4 DEF Proc
<1>7. PcOK'
  BY <1>4, <1>5, <1>6 DEF CacheInv, PcOK
<1>8. TodoOK' /\ WalkHoldsMu'
  BY <1>2, <1>5 DEF CacheInv, TodoOK, WalkHoldsMu
<1>9. /\ \A x \in Proc \ {e} : key'[x] = key[x] /\ val'[x] = val[x]
      /\ \A f \in Enqueuer \ {e} : ref'[f] = ref[f]
  <2> USE DEF CacheInv, DataOK
  <2>1. CASE \E t \in Timeline : Begin(e, t)
    BY <2>1 DEF Begin
  <2>2. CASE EnqueueStep(e)
    BY <2>2 DEF EnqueueStep, Lookup, Lock, LockEvicted, Touch, Swap, Store,
                SeedSet, Commit, Abort, Leave, Stamp, Overflow
  <2>3. CASE EnqueueAnswered(e)
    BY <2>3 DEF EnqueueAnswered, FrontierFound, EdgeRead, FrontierNone,
                FrontierFails, EdgeFails, Leave, Inserted
  <2> QED BY <2>1, <2>2, <2>3
<1> QED BY <1>2, <1>4, <1>7, <1>8, <1>9

(* The stamp of a reserve is in range and beyond the clock it advances.    *)
LEMMA StampAdvances ==
    ASSUME NEW vt \in 0 .. MaxInt, NEW cost \in Cost, NEW weight \in Weight,
           StampFits(vt, cost, weight)
    PROVE  /\ NextVStamp(vt, cost, weight) \in 0 .. MaxInt
           /\ NextVStamp(vt, cost, weight) > vt
<1>1. cost \in 1 .. MaxInt /\ weight \in 1 .. MaxInt /\ MaxInt \in Nat
  BY CacheAssumption, VTimeAssumption
<1>2. cost <= MaxCost
  BY DEF StampFits
<1>3. /\ NextVStamp(vt, cost, weight) = vt + Stride(cost, weight)
      /\ NextVStamp(vt, cost, weight) \in 0 .. MaxInt
      /\ Stride(cost, weight) \in 1 .. MaxInt
  BY <1>1, <1>2, StampExact
<1> QED BY <1>1, <1>3

(* A seed is the later of the trailing edge and the stored frontier.       *)
LEMMA SeedIsLater ==
    ASSUME DataOK, NEW e \in Enqueuer
    PROVE  LET seed == Larger(val[e], LwmFor(PartitionOf(key[e])))
           IN  seed \in 0 .. MaxInt /\ seed >= val[e]
<1>1. key[e] \in Timeline /\ val[e] \in 0 .. MaxInt
  BY DEF DataOK, Proc
<1>2. PartitionOf(key[e]) \in Partition
  BY <1>1 DEF PartitionOf, Timeline
<1>3. LwmFor(PartitionOf(key[e])) \in 0 .. MaxInt
  BY <1>2, Sentinels DEF DataOK, LwmFor
<1> QED BY <1>1, <1>3, Sentinels DEF Larger

LEMMA EnqueueTyped ==
    ASSUME CacheInv, NEW e \in Enqueuer,
           (\E t \in Timeline : Begin(e, t)) \/ EnqueueStep(e) \/ EnqueueAnswered(e)
    PROVE  DataOK'
<1> USE Sentinels DEF DataOK, Proc
<1> DataOK /\ HoldsItsEntry /\ FindsItsEntry
  BY DEF CacheInv, Locks
<1>1. ASSUME NEW t \in Timeline, Begin(e, t)
      PROVE  DataOK'
  BY <1>1 DEF Begin
<1>2. CASE Lookup(e)
  BY <1>2 DEF Lookup
<1>3. CASE Lock(e)
  BY <1>3 DEF Lock, FindsItsEntry, Entry
<1>4. CASE LockEvicted(e)
  BY <1>4 DEF LockEvicted
<1>5. CASE Touch(e)
  BY <1>5 DEF Touch, Entry
<1>6. CASE Swap(e)
  <2> DEFINE new == [entry[ref[e]] EXCEPT
                      !.stale = FALSE,
                      !.seeded = @ /\ ~entry[ref[e]].stale]
  <2>1. entry' = [entry EXCEPT ![ref[e]] = new]
    BY <1>6 DEF Swap
  <2>2. ref[e] \in Ref
    BY <1>6 DEF Swap, HoldsItsEntry, Critical, CriticalPC, EnqueuePC
  <2>3. new \in Entry
    BY <2>2 DEF Entry
  <2> HIDE DEF new
  <2>4. entry' \in [Ref -> Entry]
    BY <2>1, <2>3
  <2> QED BY <1>6, <2>4 DEF Swap
<1>7. CASE Store(e)
  BY <1>7 DEF Store, PartitionOf, Timeline
<1>8. CASE SeedSet(e)
  <2> DEFINE seed == Larger(val[e], LwmFor(PartitionOf(key[e])))
  <2>1. seed \in 0 .. MaxInt
    BY SeedIsLater
  <2>2. entry' = [entry EXCEPT ![ref[e]].vtime = seed,
                               ![ref[e]].seeded = TRUE,
                               ![ref[e]].everSeeded = TRUE]
    BY <1>8 DEF SeedSet
  <2> HIDE DEF seed
  <2>3. entry[ref[e]] \in Entry
    BY <1>8 DEF SeedSet, HoldsItsEntry, Critical, CriticalPC, EnqueuePC
  <2> DEFINE new == [entry[ref[e]] EXCEPT !.vtime = seed, !.seeded = TRUE,
                                          !.everSeeded = TRUE]
  <2>4. entry' = [entry EXCEPT ![ref[e]] = new]
    BY <2>2
  <2>5. new \in Entry
    BY <2>1, <2>3 DEF Entry
  <2> HIDE DEF new
  <2>6. entry' \in [Ref -> Entry]
    BY <2>4, <2>5
  <2> QED BY <1>8, <2>6 DEF SeedSet
<1>9. CASE Commit(e)
  BY <1>9 DEF Commit, Leave, Entry
<1>10. CASE Abort(e)
  BY <1>10 DEF Abort, Leave, Entry
<1>11. ASSUME NEW c \in Cost, NEW w \in Weight, Stamp(e, c, w)
       PROVE  DataOK'
  <2>1. entry[ref[e]].vtime \in 0 .. MaxInt
    BY <1>11 DEF Stamp, HoldsItsEntry, Critical, CriticalPC, EnqueuePC, Entry
  <2>2. NextVStamp(entry[ref[e]].vtime, c, w) \in 0 .. MaxInt
    BY <1>11, <2>1, StampAdvances DEF Stamp
  <2> QED BY <1>11, <2>2 DEF Stamp
<1>12. ASSUME NEW c \in Cost, NEW w \in Weight, Overflow(e, c, w)
       PROVE  DataOK'
  BY <1>12 DEF Overflow, Leave, Entry
<1>13. ASSUME NEW v \in 0 .. MaxInt, FrontierFound(e, v) \/ EdgeRead(e, v)
       PROVE  DataOK'
  BY <1>13 DEF FrontierFound, EdgeRead
<1>14. CASE FrontierNone(e)
  BY <1>14 DEF FrontierNone
<1>15. CASE FrontierFails(e) \/ EdgeFails(e)
  <2>1. Leave(e, entry[ref[e]])
    BY <1>15 DEF FrontierFails, EdgeFails
  <2> QED BY <2>1 DEF Leave, Entry
<1>16. ASSUME NEW ok \in BOOLEAN, Inserted(e, ok)
       PROVE  DataOK'
  BY <1>16 DEF Inserted
<1> QED
  BY <1>1, <1>2, <1>3, <1>4, <1>5, <1>6, <1>7, <1>8, <1>9, <1>10, <1>11,
     <1>12, <1>13, <1>14, <1>15, <1>16 DEF EnqueueStep, EnqueueAnswered

-----------------------------------------------------------------------------

(* A reserve that writes its entry, and lets the lock go only with its     *)
(* claim to the entry, disturbs nobody.                                    *)
LEMMA OwnEntryWritten ==
    ASSUME CacheInv, NEW e \in Enqueuer, Critical(e), pc'[e] # "lock",
           UNCHANGED tenants,
           \A f \in Enqueuer \ {e} :
                pc'[f] = pc[f] /\ key'[f] = key[f] /\ ref'[f] = ref[f],
           NEW new, entry' = [entry EXCEPT ![ref[e]] = new],
           new.evicted = entry[ref[e]].evicted,
           Critical(e)' => /\ key'[e] = key[e]
                           /\ ref'[e] = ref[e]
                           /\ new.holder = e
    PROVE  Locks'
<1> USE DEF CacheInv, Locks
<1>1. /\ ref[e] \in Ref
      /\ entry[ref[e]].holder = e
      /\ tenants[key[e]] = ref[e]
  BY DEF HoldsItsEntry
<1>2. /\ entry'[ref[e]] = new
      /\ \A r \in Ref \ {ref[e]} : entry'[r] = entry[r]
  BY <1>1 DEF DataOK
<1>3. ASSUME NEW f \in Enqueuer, Critical(f)'
      PROVE  /\ ref'[f] \in Ref
             /\ entry'[ref'[f]].holder = f
             /\ tenants'[key'[f]] = ref'[f]
  <2>1. CASE f = e
    BY <1>1, <1>2, <1>3, <2>1
  <2>2. CASE f # e
    <3>1. Critical(f) /\ key'[f] = key[f] /\ ref'[f] = ref[f]
      BY <1>3, <2>2 DEF Critical
    <3>2. ref[f] \in Ref /\ entry[ref[f]].holder = f /\ tenants[key[f]] = ref[f]
      BY <3>1 DEF HoldsItsEntry
    <3>3. ref[f] # ref[e]
      BY <1>1, <2>2, <3>2
    <3> QED BY <1>2, <3>1, <3>2, <3>3
  <2> QED BY <2>1, <2>2
<1>4. ASSUME NEW f \in Enqueuer, pc'[f] = "lock"
      PROVE  /\ ref'[f] \in Ref
             /\ entry'[ref'[f]].evicted \/ tenants'[key'[f]] = ref'[f]
  <2>1. pc[f] = "lock" /\ key'[f] = key[f] /\ ref'[f] = ref[f]
    BY <1>4
  <2>2. ref[f] \in Ref /\ (entry[ref[f]].evicted \/ tenants[key[f]] = ref[f])
    BY <2>1 DEF FindsItsEntry
  <2> QED BY <1>1, <1>2, <2>1, <2>2
<1>5. EntriesDiffer'
  BY DEF EntriesDiffer
<1> QED BY <1>3, <1>4, <1>5 DEF HoldsItsEntry, FindsItsEntry

(* So does one that touches neither the map nor an entry, and stays at the *)
(* one it holds.                                                           *)
LEMMA NothingWritten ==
    ASSUME CacheInv, NEW e \in Enqueuer,
           UNCHANGED << tenants, entry >>, pc'[e] # "lock",
           \A f \in Enqueuer \ {e} :
                pc'[f] = pc[f] /\ key'[f] = key[f] /\ ref'[f] = ref[f],
           Critical(e)' => Critical(e) /\ key'[e] = key[e] /\ ref'[e] = ref[e]
    PROVE  Locks'
<1>1. \A f \in Enqueuer : /\ Critical(f)' =>
                            Critical(f) /\ key'[f] = key[f] /\ ref'[f] = ref[f]
                         /\ pc'[f] = "lock" =>
                            /\ pc[f] = "lock"
                            /\ key'[f] = key[f] /\ ref'[f] = ref[f]
  BY DEF Critical
<1>2. ASSUME NEW f \in Enqueuer, Critical(f)'
      PROVE  /\ ref'[f] \in Ref
             /\ entry'[ref'[f]].holder = f
             /\ tenants'[key'[f]] = ref'[f]
  <2>1. Critical(f) /\ key'[f] = key[f] /\ ref'[f] = ref[f]
    BY <1>1, <1>2 DEF Critical
  <2> QED BY <2>1 DEF CacheInv, Locks, HoldsItsEntry
<1>3. FindsItsEntry'
  BY <1>1 DEF CacheInv, Locks, FindsItsEntry
<1>4. EntriesDiffer'
  BY DEF CacheInv, Locks, EntriesDiffer
<1> QED BY <1>2, <1>3, <1>4 DEF Locks, HoldsItsEntry

(* Leaving gives up the lock, the entry and the claim to it at once.       *)
LEMMA LeaveLocks ==
    ASSUME CacheInv, NEW e \in Enqueuer, Critical(e), NEW v,
           Leave(e, [entry[ref[e]] EXCEPT !.vtime = v])
    PROVE  Locks'
<1> DEFINE new == [entry[ref[e]] EXCEPT !.vtime = v, !.holder = Free]
<1>1. ref[e] \in Ref /\ entry[ref[e]] \in Entry
  BY DEF CacheInv, Locks, HoldsItsEntry, DataOK
<1>2. entry' = [entry EXCEPT ![ref[e]] = new] /\ UNCHANGED tenants
  BY DEF Leave
<1>3. new.evicted = entry[ref[e]].evicted
  BY <1>1 DEF Entry
<1>4. pc'[e] = "idle" /\ ~Critical(e)'
  BY DEF Leave, Goto, CacheInv, PcOK, Proc, Critical, CriticalPC
<1>5. \A f \in Enqueuer \ {e} :
        pc'[f] = pc[f] /\ key'[f] = key[f] /\ ref'[f] = ref[f]
  BY DEF Leave, Goto, CacheInv, PcOK, DataOK, Proc
<1> HIDE DEF new
<1> QED BY <1>2, <1>3, <1>4, <1>5, OwnEntryWritten

LEMMA EnqueueLocks ==
    ASSUME CacheInv, NEW e \in Enqueuer,
           (\E t \in Timeline : Begin(e, t)) \/ EnqueueStep(e) \/ EnqueueAnswered(e)
    PROVE  Locks'
<1> USE DEF Goto, CriticalPC, EnqueuePC
<1>0. /\ pc \in [Proc -> EnqueuePC \cup ReconcilePC]
      /\ key \in [Proc -> Timeline]
      /\ ref \in [Enqueuer -> Ref \cup {NoRef}]
      /\ e \in Proc /\ \A f \in Enqueuer : f \in Proc
      /\ Critical(e) => ref[e] \in Ref /\ entry[ref[e]] \in Entry
                        /\ entry[ref[e]].holder = e
  BY DEF CacheInv, PcOK, DataOK, Proc, Locks, HoldsItsEntry
<1>1. ASSUME NEW t \in Timeline, Begin(e, t)
      PROVE  Locks'
  BY <1>0, <1>1, NothingWritten DEF Begin, Critical
<1>2. CASE Lookup(e)
  <2> USE DEF CacheInv, Locks, DataOK
  <2>1. CASE tenants[key[e]] # NoRef
    <3>1. /\ ref' = [ref EXCEPT ![e] = tenants[key[e]]]
          /\ Goto(e, "lock") /\ UNCHANGED << tenants, entry, key >>
          /\ tenants[key[e]] \in Ref
      BY <1>0, <1>2, <2>1 DEF Lookup
    <3>2. HoldsItsEntry'
      BY <1>0, <3>1 DEF HoldsItsEntry, Critical
    <3>3. FindsItsEntry'
      BY <1>0, <3>1 DEF FindsItsEntry
    <3> QED BY <3>1, <3>2, <3>3 DEF EntriesDiffer
  <2>2. CASE tenants[key[e]] = NoRef
    <3>1. PICK r \in Ref :
            /\ Unreachable(r)
            /\ tenants' = [tenants EXCEPT ![key[e]] = r]
            /\ entry' = [entry EXCEPT ![r] = NewEntry]
            /\ ref' = [ref EXCEPT ![e] = r]
      BY <1>2, <2>2 DEF Lookup
    <3>2. key' = key /\ Goto(e, "lock") /\ key[e] \in Timeline
      BY <1>0, <1>2 DEF Lookup
    <3>3. HoldsItsEntry'
      <4>1. ASSUME NEW f \in Enqueuer, Critical(f)'
            PROVE  /\ ref'[f] \in Ref
                   /\ entry'[ref'[f]].holder = f
                   /\ tenants'[key'[f]] = ref'[f]
        <5>1. f # e /\ Critical(f) /\ ref'[f] = ref[f]
          BY <1>0, <3>1, <3>2, <4>1 DEF Critical
        <5>2. /\ ref[f] \in Ref /\ entry[ref[f]].holder = f
              /\ tenants[key[f]] = ref[f] /\ key[f] \in Timeline
          BY <1>0, <5>1 DEF HoldsItsEntry
        <5>3. ref[f] # r /\ key[f] # key[e]
          BY <2>2, <3>1, <5>2, Sentinels DEF Unreachable
        <5> QED BY <3>1, <3>2, <5>1, <5>2, <5>3
      <4> QED BY <4>1 DEF HoldsItsEntry
    <3>4. FindsItsEntry'
      <4>1. ASSUME NEW f \in Enqueuer, pc'[f] = "lock"
            PROVE  /\ ref'[f] \in Ref
                   /\ entry'[ref'[f]].evicted \/ tenants'[key'[f]] = ref'[f]
        <5>1. CASE f = e
          BY <1>0, <3>1, <3>2, <5>1
        <5>2. CASE f # e
          <6>1. pc[f] = "lock" /\ ref'[f] = ref[f] /\ key[f] \in Timeline
            BY <1>0, <3>1, <3>2, <4>1, <5>2
          <6>2. ref[f] \in Ref /\ (entry[ref[f]].evicted \/ tenants[key[f]] = ref[f])
            BY <6>1 DEF FindsItsEntry
          <6>3. ref[f] # r
            BY <3>1 DEF Unreachable
          <6> QED BY <2>2, <3>1, <3>2, <6>1, <6>2, <6>3, Sentinels
        <5> QED BY <5>1, <5>2
      <4> QED BY <4>1 DEF FindsItsEntry
    <3>5. EntriesDiffer'
      BY <3>1, <3>2 DEF Unreachable, EntriesDiffer
    <3> QED BY <3>3, <3>4, <3>5
  <2> QED BY <2>1, <2>2
<1>3. CASE Lock(e)
  <2>1. /\ pc[e] = "lock" /\ entry[ref[e]].holder = Free /\ ~entry[ref[e]].evicted
        /\ entry' = [entry EXCEPT ![ref[e]].holder = e]
        /\ Goto(e, "touch") /\ UNCHANGED << tenants, key, ref >>
    BY <1>3 DEF Lock, Enterable
  <2>2. ref[e] \in Ref /\ tenants[key[e]] = ref[e] /\ entry[ref[e]] \in Entry
    BY <2>1 DEF CacheInv, Locks, FindsItsEntry, DataOK
  <2>3. \A r \in Ref : /\ entry'[r].evicted = entry[r].evicted
                       /\ r # ref[e] => entry'[r] = entry[r]
                       /\ r = ref[e] => entry'[r].holder = e
    BY <2>1, <2>2 DEF CacheInv, DataOK, Entry
  <2>4. HoldsItsEntry'
    <3>1. ASSUME NEW f \in Enqueuer, Critical(f)'
          PROVE  /\ ref'[f] \in Ref
                 /\ entry'[ref'[f]].holder = f
                 /\ tenants'[key'[f]] = ref'[f]
      <4>1. CASE f = e
        BY <2>1, <2>2, <2>3, <4>1
      <4>2. CASE f # e
        <5>1. Critical(f)
          BY <1>0, <2>1, <3>1, <4>2 DEF Critical
        <5>2. ref[f] \in Ref /\ entry[ref[f]].holder = f /\ tenants[key[f]] = ref[f]
          BY <5>1 DEF CacheInv, Locks, HoldsItsEntry
        <5>3. ref[f] # ref[e]
          BY <2>1, <5>2, Sentinels
        <5> QED BY <2>1, <2>3, <5>2, <5>3
      <4> QED BY <4>1, <4>2
    <3> QED BY <3>1 DEF HoldsItsEntry
  <2>5. FindsItsEntry'
    BY <1>0, <2>1, <2>3 DEF CacheInv, Locks, FindsItsEntry
  <2> QED BY <2>1, <2>4, <2>5 DEF CacheInv, Locks, EntriesDiffer
<1>4. CASE LockEvicted(e)
  BY <1>0, <1>4, NothingWritten DEF LockEvicted, Critical
<1>5. CASE Touch(e)
  <2>1. /\ entry' = [entry EXCEPT ![ref[e]] = [entry[ref[e]] EXCEPT !.touched = TRUE]]
        /\ pc[e] = "touch" /\ Goto(e, "swap") /\ UNCHANGED << tenants, key, ref >>
    BY <1>0, <1>5 DEF Touch
  <2> QED BY <1>0, <2>1, OwnEntryWritten DEF Critical, Entry
<1>6. CASE Swap(e)
  <2> DEFINE new == [entry[ref[e]] EXCEPT
                        !.stale = FALSE,
                        !.seeded = @ /\ ~entry[ref[e]].stale]
  <2>1. PICK label \in {"stamp", "edge", "frontier"} : Goto(e, label)
    BY <1>6 DEF Swap
  <2>2. /\ entry' = [entry EXCEPT ![ref[e]] = new]
        /\ pc[e] = "swap" /\ UNCHANGED << tenants, key, ref >>
    BY <1>6 DEF Swap
  <2>3. Critical(e)
    BY <2>2 DEF Critical
  <2>4. new.evicted = entry[ref[e]].evicted /\ new.holder = e
    BY <1>0, <2>3 DEF Entry
  <2> HIDE DEF new
  <2> QED BY <1>0, <2>1, <2>2, <2>3, <2>4, OwnEntryWritten DEF Critical
<1>7. CASE Store(e)
  BY <1>0, <1>7, NothingWritten DEF Store, AfterRefresh, Critical
<1>8. CASE SeedSet(e)
  <2> DEFINE new == [entry[ref[e]] EXCEPT
                        !.vtime = Larger(val[e], LwmFor(PartitionOf(key[e]))),
                        !.seeded = TRUE, !.everSeeded = TRUE]
  <2>1. /\ entry' = [entry EXCEPT ![ref[e]] = new]
        /\ pc[e] = "set" /\ Goto(e, "stamp") /\ UNCHANGED << tenants, key, ref >>
    BY <1>8 DEF SeedSet
  <2>2. Critical(e)
    BY <2>1 DEF Critical
  <2>3. new.evicted = entry[ref[e]].evicted /\ new.holder = e
    BY <1>0, <2>2 DEF Entry
  <2> HIDE DEF new
  <2> QED BY <1>0, <2>1, <2>2, <2>3, OwnEntryWritten DEF Critical
<1>9. CASE Commit(e)
  BY <1>9, LeaveLocks DEF Commit, Critical
<1>10. ASSUME Leave(e, entry[ref[e]]), Critical(e)
       PROVE  Locks'
  <2>1. [entry[ref[e]] EXCEPT !.vtime = entry[ref[e]].vtime] = entry[ref[e]]
    BY <1>0, <1>10 DEF Entry
  <2> QED BY <1>10, <2>1, LeaveLocks
<1>11. ASSUME NEW c \in Cost, NEW w \in Weight, Stamp(e, c, w)
       PROVE  Locks'
  BY <1>0, <1>11, NothingWritten DEF Stamp, Critical
<1>12. ASSUME NEW c \in Cost, NEW w \in Weight,
              Abort(e) \/ FrontierFails(e) \/ EdgeFails(e) \/ Overflow(e, c, w)
       PROVE  Locks'
  BY <1>10, <1>12 DEF Abort, FrontierFails, EdgeFails, Overflow, Critical
<1>13. ASSUME NEW v \in 0 .. MaxInt, FrontierFound(e, v) \/ EdgeRead(e, v)
       PROVE  Locks'
  BY <1>0, <1>13, NothingWritten DEF FrontierFound, EdgeRead, Critical
<1>14. CASE FrontierNone(e)
  BY <1>0, <1>14, NothingWritten DEF FrontierNone, AfterRefresh, Critical
<1>15. ASSUME NEW ok \in BOOLEAN, Inserted(e, ok)
       PROVE  Locks'
  BY <1>0, <1>15, NothingWritten DEF Inserted, Critical
<1>16. CASE Abort(e) \/ FrontierFails(e) \/ EdgeFails(e)
  BY <1>10, <1>16 DEF Abort, FrontierFails, EdgeFails, Critical
<1> QED
  BY <1>1, <1>2, <1>3, <1>4, <1>5, <1>6, <1>7, <1>8, <1>9, <1>11, <1>12,
     <1>13, <1>14, <1>15, <1>16 DEF EnqueueStep, EnqueueAnswered

LEMMA EnqueueInv ==
    ASSUME CacheInv, NEW e \in Enqueuer,
           (\E t \in Timeline : Begin(e, t)) \/ EnqueueStep(e) \/ EnqueueAnswered(e)
    PROVE  CacheInv'
BY EnqueueSpares, EnqueueTyped, EnqueueLocks DEF CacheInv

(* The map and what is known of each clock stay as they are, and so does    *)
(* every clock but the one e commits to.                                   *)
ClocksKept(e) ==
    /\ UNCHANGED tenants
    /\ \A s \in Ref :
        /\ entry'[s].seeded = entry[s].seeded
        /\ entry'[s].stale = entry[s].stale
        /\ entry'[s].vtime = entry[s].vtime \/ (Commit(e) /\ s = ref[e])

(* Only a lookup changes the map, only Swap and SeedSet what is known of a *)
(* clock, and only SeedSet and Commit the clock.                           *)
LEMMA EnqueueEffect ==
    ASSUME CacheInv, NEW e \in Enqueuer,
           (\E t \in Timeline : Begin(e, t)) \/ EnqueueStep(e) \/ EnqueueAnswered(e),
           ~Lookup(e), ~Swap(e), ~SeedSet(e)
    PROVE  ClocksKept(e)
<1>1. /\ entry \in [Ref -> Entry]
      /\ pc[e] = "lock" \/ Critical(e) => entry[ref[e]] \in Entry
  BY DEF CacheInv, DataOK, Locks, HoldsItsEntry, FindsItsEntry
<1>2. ASSUME UNCHANGED << tenants, entry >>
      PROVE  ClocksKept(e)
  BY <1>2 DEF ClocksKept
<1>3. ASSUME NEW new, UNCHANGED tenants, entry' = [entry EXCEPT ![ref[e]] = new],
             new.seeded = entry[ref[e]].seeded, new.stale = entry[ref[e]].stale,
             new.vtime = entry[ref[e]].vtime \/ Commit(e)
      PROVE  ClocksKept(e)
  BY <1>1, <1>3 DEF ClocksKept
<1>4. CASE Lock(e)
  <2> DEFINE new == [entry[ref[e]] EXCEPT !.holder = e]
  <2>1. entry' = [entry EXCEPT ![ref[e]] = new] /\ UNCHANGED tenants
    BY <1>4 DEF Lock
  <2>2. /\ new.seeded = entry[ref[e]].seeded /\ new.stale = entry[ref[e]].stale
        /\ new.vtime = entry[ref[e]].vtime
    BY <1>1, <1>4 DEF Lock, Entry
  <2> HIDE DEF new
  <2> QED BY <1>3, <2>1, <2>2
<1>5. CASE Touch(e)
  <2> DEFINE new == [entry[ref[e]] EXCEPT !.touched = TRUE]
  <2>1. entry' = [entry EXCEPT ![ref[e]] = new] /\ UNCHANGED tenants
    BY <1>5 DEF Touch
  <2>2. /\ new.seeded = entry[ref[e]].seeded /\ new.stale = entry[ref[e]].stale
        /\ new.vtime = entry[ref[e]].vtime
    BY <1>1, <1>5 DEF Touch, Critical, CriticalPC, EnqueuePC, Entry
  <2> HIDE DEF new
  <2> QED BY <1>3, <2>1, <2>2
<1>6. ASSUME Critical(e), NEW v, v = entry[ref[e]].vtime \/ Commit(e),
             Leave(e, [entry[ref[e]] EXCEPT !.vtime = v])
      PROVE  ClocksKept(e)
  <2> DEFINE new == [entry[ref[e]] EXCEPT !.vtime = v, !.holder = Free]
  <2>1. entry' = [entry EXCEPT ![ref[e]] = new] /\ UNCHANGED tenants
    BY <1>6 DEF Leave
  <2>2. /\ new.seeded = entry[ref[e]].seeded /\ new.stale = entry[ref[e]].stale
        /\ new.vtime = v
    BY <1>1, <1>6 DEF Entry
  <2> HIDE DEF new
  <2> QED BY <1>3, <1>6, <2>1, <2>2
<1>7. ASSUME Critical(e), Leave(e, entry[ref[e]])
      PROVE  ClocksKept(e)
  <2>1. [entry[ref[e]] EXCEPT !.vtime = entry[ref[e]].vtime] = entry[ref[e]]
    BY <1>1, <1>7 DEF Entry
  <2> QED BY <1>6, <1>7, <2>1
<1> USE DEF Critical, CriticalPC, EnqueuePC
<1>8. CASE Commit(e)
  BY <1>6, <1>8 DEF Commit
<1>9. CASE \E t \in Timeline : Begin(e, t)
  BY <1>2, <1>9 DEF Begin
<1>10. CASE LockEvicted(e) \/ Store(e)
  BY <1>2, <1>10 DEF LockEvicted, Store
<1>11. ASSUME NEW c \in Cost, NEW w \in Weight, Stamp(e, c, w)
       PROVE  ClocksKept(e)
  BY <1>2, <1>11 DEF Stamp
<1>12. ASSUME NEW c \in Cost, NEW w \in Weight, Overflow(e, c, w)
       PROVE  ClocksKept(e)
  BY <1>7, <1>12 DEF Overflow
<1>13. CASE Abort(e) \/ FrontierFails(e) \/ EdgeFails(e)
  BY <1>7, <1>13 DEF Abort, FrontierFails, EdgeFails
<1>14. ASSUME NEW v \in 0 .. MaxInt, FrontierFound(e, v) \/ EdgeRead(e, v)
       PROVE  ClocksKept(e)
  BY <1>2, <1>14 DEF FrontierFound, EdgeRead
<1>15. ASSUME NEW ok \in BOOLEAN, FrontierNone(e) \/ Inserted(e, ok)
       PROVE  ClocksKept(e)
  BY <1>2, <1>15 DEF FrontierNone, Inserted
<1> QED
  BY <1>4, <1>5, <1>8, <1>9, <1>10, <1>11, <1>12, <1>13, <1>14, <1>15
  DEF EnqueueStep, EnqueueAnswered

(* A seed checked and cleared: only a seeded, unmarked entry stays seeded. *)
LEMMA SwapEffect ==
    ASSUME CacheInv, NEW e \in Enqueuer, Swap(e)
    PROVE  /\ UNCHANGED tenants
           /\ pc[e] = "swap" /\ Critical(e) /\ ref[e] \in Ref
           /\ \A s \in Ref \ {ref[e]} : entry'[s] = entry[s]
           /\ entry'[ref[e]].vtime = entry[ref[e]].vtime
           /\ entry'[ref[e]].seeded <=> entry[ref[e]].seeded /\ ~entry[ref[e]].stale
           /\ pc'[e] = "stamp" <=> entry'[ref[e]].seeded
<1>1. pc[e] = "swap" /\ Critical(e)
  BY DEF Swap, Critical, CriticalPC, EnqueuePC
<1>2. ref[e] \in Ref /\ entry[ref[e]] \in Entry /\ entry \in [Ref -> Entry]
  BY <1>1 DEF CacheInv, DataOK, Locks, HoldsItsEntry
<1>3. e \in Proc /\ pc \in [Proc -> EnqueuePC \cup ReconcilePC]
  BY DEF Proc, CacheInv, PcOK
<1>4. /\ pc'[e] = "stamp" <=> entry[ref[e]].seeded /\ ~entry[ref[e]].stale
      /\ UNCHANGED tenants
  BY <1>3 DEF Swap, Goto
<1> DEFINE new == [entry[ref[e]] EXCEPT
                    !.stale = FALSE,
                    !.seeded = @ /\ ~entry[ref[e]].stale]
<1>5. entry' = [entry EXCEPT ![ref[e]] = new]
  BY DEF Swap
<1>6. /\ new.vtime = entry[ref[e]].vtime
      /\ new.seeded = (entry[ref[e]].seeded /\ ~entry[ref[e]].stale)
  BY <1>2 DEF Entry
<1> HIDE DEF new
<1> QED BY <1>1, <1>2, <1>4, <1>5, <1>6

(* A seed is no earlier than the trailing edge it read.                    *)
LEMMA SeedSetEffect ==
    ASSUME CacheInv, NEW e \in Enqueuer, SeedSet(e)
    PROVE  /\ UNCHANGED tenants
           /\ pc[e] = "set" /\ pc'[e] = "stamp" /\ Critical(e) /\ ref[e] \in Ref
           /\ \A s \in Ref \ {ref[e]} : entry'[s] = entry[s]
           /\ entry'[ref[e]].vtime >= val[e]
           /\ entry'[ref[e]].seeded
           /\ entry'[ref[e]].stale = entry[ref[e]].stale
<1>1. pc[e] = "set" /\ Critical(e)
  BY DEF SeedSet, Critical, CriticalPC, EnqueuePC
<1>2. ref[e] \in Ref /\ entry[ref[e]] \in Entry /\ entry \in [Ref -> Entry]
  BY <1>1 DEF CacheInv, DataOK, Locks, HoldsItsEntry
<1>3. e \in Proc /\ pc \in [Proc -> EnqueuePC \cup ReconcilePC]
  BY DEF Proc, CacheInv, PcOK
<1>4. pc'[e] = "stamp" /\ UNCHANGED tenants
  BY <1>3 DEF SeedSet, Goto
<1> DEFINE seed == Larger(val[e], LwmFor(PartitionOf(key[e])))
<1>5. seed >= val[e]
  BY SeedIsLater DEF CacheInv
<1> DEFINE new == [entry[ref[e]] EXCEPT
                    !.vtime = seed, !.seeded = TRUE, !.everSeeded = TRUE]
<1>6. entry' = [entry EXCEPT ![ref[e]] = new]
  BY DEF SeedSet
<1> HIDE DEF seed
<1>7. new.vtime = seed /\ new.seeded = TRUE /\ new.stale = entry[ref[e]].stale
  BY <1>2 DEF Entry
<1> HIDE DEF new
<1> QED BY <1>1, <1>2, <1>4, <1>5, <1>6, <1>7

(* From the stamp on.                                                      *)
StampedPC == {"stamp", "insert", "commit", "abort"}

(* The way an enqueue takes through its critical section.                  *)
LEMMA EnqueueMoves ==
    ASSUME CacheInv, NEW e \in Enqueuer,
           (\E t \in Timeline : Begin(e, t)) \/ EnqueueStep(e) \/ EnqueueAnswered(e)
    PROVE  /\ Critical(e) /\ Critical(e)' => key'[e] = key[e] /\ ref'[e] = ref[e]
           /\ Critical(e) /\ ~Critical(e)' => pc'[e] = "idle"
           /\ ~Critical(e) /\ Critical(e)' => pc[e] = "lock" /\ pc'[e] = "touch"
           /\ Critical(e) /\ pc[e] \notin {"touch", "swap"} =>
                pc'[e] \notin {"touch", "swap"}
           /\ pc'[e] \in StampedPC => pc[e] \in StampedPC \/ Swap(e) \/ SeedSet(e)
           /\ pc[e] = "set" /\ pc'[e] = "stamp" => SeedSet(e)
<1> USE DEF Critical, CriticalPC, EnqueuePC, Goto, StampedPC
<1>1. /\ e \in Proc /\ pc \in [Proc -> EnqueuePC \cup ReconcilePC]
      /\ key \in [Proc -> Timeline]
  BY DEF Proc, CacheInv, PcOK, DataOK
<1>2. CASE \E t \in Timeline : Begin(e, t)
  BY <1>1, <1>2 DEF Begin
<1>3. CASE EnqueueStep(e)
  BY <1>1, <1>3 DEF EnqueueStep, Lookup, Lock, LockEvicted, Touch, Swap, Store,
              SeedSet, Commit, Abort, Leave, Stamp, Overflow, AfterRefresh
<1>4. CASE EnqueueAnswered(e)
  BY <1>1, <1>4 DEF EnqueueAnswered, FrontierFound, EdgeRead, FrontierNone,
              FrontierFails, EdgeFails, Leave, Inserted, AfterRefresh
<1> QED BY <1>2, <1>3, <1>4

-----------------------------------------------------------------------------
(* Reconciles.                                                             *)

(* A step of a reconcile moves no other goroutine.                         *)
LEMMA ReconcileGoes ==
    ASSUME CacheInv, NEW r \in Reconciler, NEW label \in ReconcilePC,
           Goto(r, label)
    PROVE  /\ PcOK'
           /\ pc'[r] = label
           /\ \A e \in Enqueuer : pc'[e] = pc[e]
           /\ \A s \in Reconciler \ {r} : pc'[s] = pc[s]
<1>1. r \in Proc /\ r \notin Enqueuer /\ \A e \in Enqueuer : e \in Proc
  BY Sentinels DEF Proc
<1>2. /\ pc' \in [Proc -> EnqueuePC \cup ReconcilePC]
      /\ pc'[r] = label
      /\ \A x \in Proc \ {r} : pc'[x] = pc[x]
  BY <1>1 DEF CacheInv, PcOK, Goto
<1> QED BY <1>1, <1>2 DEF CacheInv, PcOK, Proc

(* A step that leaves the map, every lock, every evicted flag and every    *)
(* enqueue alone disturbs nobody.                                          *)
LEMMA LocksUntouched ==
    ASSUME CacheInv, UNCHANGED << tenants, ref >>,
           \A s \in Ref : /\ entry'[s].holder = entry[s].holder
                          /\ entry'[s].evicted = entry[s].evicted,
           \A e \in Enqueuer : pc'[e] = pc[e] /\ key'[e] = key[e]
    PROVE  Locks'
<1>1. \A e \in Enqueuer : Critical(e)' => Critical(e)
  BY DEF Critical
<1>2. HoldsItsEntry'
  <2>1. ASSUME NEW e \in Enqueuer, Critical(e)'
        PROVE  /\ ref'[e] \in Ref
               /\ entry'[ref'[e]].holder = e
               /\ tenants'[key'[e]] = ref'[e]
    BY <2>1 DEF Critical, CacheInv, Locks, HoldsItsEntry
  <2> QED BY <2>1 DEF HoldsItsEntry
<1>3. FindsItsEntry'
  BY DEF CacheInv, Locks, FindsItsEntry
<1>4. EntriesDiffer'
  BY DEF CacheInv, Locks, EntriesDiffer
<1> QED BY <1>2, <1>3, <1>4 DEF Locks

LEMMA ReconcileInv ==
    ASSUME CacheInv, NEW r \in Reconciler,
           Reconcile(r) \/ ReconcileStep(r) \/ ReconcileAnswered(r)
    PROVE  CacheInv'
<1> USE DEF ReconcilePC, WalkPC
<1>0. /\ r \in Proc /\ r \notin Enqueuer
      /\ mu \in Reconciler \cup {Free} /\ Free \notin Reconciler
      /\ \A s \in Reconciler : pc[s] \in WalkPC <=> mu = s
      /\ \A e \in Enqueuer : e \in Proc
      /\ DataOK
  BY Sentinels DEF Proc, CacheInv, WalkHoldsMu, DataOK
<1>1. CASE Reconcile(r)
  <2>1. /\ pc[r] = "idle" /\ Goto(r, "refresh")
        /\ todo' = [todo EXCEPT ![r] = CachedPartitions]
        /\ UNCHANGED << tenants, entry, mu, lwm, key, ref, val >>
    BY <1>1 DEF Reconcile
  <2>2. CachedPartitions \subseteq Partition
    BY DEF CachedPartitions, Cached, PartitionOf, Timeline
  <2>3. DataOK'
    BY <1>0, <2>1, <2>2 DEF DataOK
  <2>4. TodoOK' /\ WalkHoldsMu'
    BY <1>0, <2>1, <2>2, ReconcileGoes DEF CacheInv, TodoOK, WalkHoldsMu, DataOK
  <2> QED BY <2>1, <2>3, <2>4, ReconcileGoes, LocksUntouched DEF CacheInv
<1>2. ASSUME NEW p \in Partition, Refresh(r, p)
      PROVE  CacheInv'
  <2>1. /\ pc[r] = "refresh" /\ Goto(r, "frontier")
        /\ todo' = [todo EXCEPT ![r] = @ \ {p}]
        /\ key' = [key EXCEPT ![r] = CHOOSE t \in Timeline : PartitionOf(t) = p]
        /\ UNCHANGED << tenants, entry, mu, lwm, ref, val >>
    BY <1>2 DEF Refresh
  <2>2. (CHOOSE t \in Timeline : PartitionOf(t) = p) \in Timeline
    <3>1. PICK u \in Timeline : TRUE
      BY CacheAssumption
    <3>2. << u[1], p >> \in Timeline /\ PartitionOf(<< u[1], p >>) = p
      BY <3>1 DEF PartitionOf, Timeline
    <3> QED BY <3>2
  <2>3. DataOK'
    BY <1>0, <2>1, <2>2 DEF DataOK
  <2>4. TodoOK' /\ WalkHoldsMu'
    BY <1>0, <2>1, ReconcileGoes DEF CacheInv, TodoOK, WalkHoldsMu, DataOK
  <2>5. \A e \in Enqueuer : key'[e] = key[e]
    BY <1>0, <2>1 DEF DataOK
  <2> QED BY <2>1, <2>3, <2>4, <2>5, ReconcileGoes, LocksUntouched DEF CacheInv
<1>3. CASE Store(r)
  <2>1. /\ pc[r] = "store" /\ Goto(r, "refresh")
        /\ lwm' = [lwm EXCEPT ![PartitionOf(key[r])] = val[r]]
        /\ val' = [val EXCEPT ![r] = 0]
        /\ UNCHANGED << tenants, entry, mu, key, ref, todo >>
    BY <1>0, <1>3 DEF Store, AfterRefresh
  <2>2. DataOK'
    BY <1>0, <2>1, Sentinels DEF DataOK
  <2>3. TodoOK' /\ WalkHoldsMu'
    BY <1>0, <2>1, ReconcileGoes DEF CacheInv, TodoOK, WalkHoldsMu
  <2> QED BY <2>1, <2>2, <2>3, ReconcileGoes, LocksUntouched DEF CacheInv
<1>4. CASE WalkBegin(r)
  <2>1. /\ pc[r] = "refresh" /\ Goto(r, "walk") /\ mu = Free /\ mu' = r
        /\ todo' = [todo EXCEPT ![r] = Cached]
        /\ UNCHANGED << tenants, entry, lwm, key, ref, val >>
    BY <1>4 DEF WalkBegin
  <2>2. Cached \subseteq Timeline
    BY DEF Cached
  <2>3. DataOK'
    BY <1>0, <2>1, <2>2 DEF DataOK
  <2>4. TodoOK' /\ WalkHoldsMu'
    BY <1>0, <2>1, <2>2, ReconcileGoes DEF CacheInv, TodoOK, WalkHoldsMu, DataOK
  <2> QED BY <2>1, <2>3, <2>4, ReconcileGoes, LocksUntouched DEF CacheInv
<1>5. ASSUME NEW t \in Timeline, WalkSwap(r, t)
      PROVE  CacheInv'
  <2>1. /\ pc[r] = "walk" /\ \E label \in {"mark", "try"} : Goto(r, label)
        /\ todo' = [todo EXCEPT ![r] = @ \ {t}]
        /\ key' = [key EXCEPT ![r] = t]
        /\ entry' = [entry EXCEPT ![tenants[t]].touched = FALSE]
        /\ UNCHANGED << tenants, mu, lwm, ref, val >>
    BY <1>5 DEF WalkSwap
  <2>2. /\ entry' \in [Ref -> Entry]
        /\ \A s \in Ref : /\ entry'[s].holder = entry[s].holder
                          /\ entry'[s].evicted = entry[s].evicted
    <3> DEFINE new == [entry[tenants[t]] EXCEPT !.touched = FALSE]
    <3>1. CASE tenants[t] \in Ref
      <4>1. /\ new \in Entry
            /\ new.holder = entry[tenants[t]].holder
            /\ new.evicted = entry[tenants[t]].evicted
        <5>1. entry[tenants[t]] \in Entry
          BY <1>0, <3>1 DEF DataOK
        <5> QED BY <5>1 DEF Entry
      <4>2. entry' = [entry EXCEPT ![tenants[t]] = new]
        BY <1>5 DEF WalkSwap
      <4> HIDE DEF new
      <4> QED BY <1>0, <3>1, <4>1, <4>2 DEF DataOK
    <3>2. CASE tenants[t] \notin Ref
      BY <1>0, <2>1, <3>2 DEF DataOK
    <3> QED BY <3>1, <3>2
  <2>3. TodoOK' /\ WalkHoldsMu'
    BY <1>0, <2>1, ReconcileGoes DEF CacheInv, TodoOK, WalkHoldsMu, DataOK
  <2>4. DataOK' /\ \A e \in Enqueuer : key'[e] = key[e]
    BY <1>0, <2>1, <2>2 DEF DataOK
  <2> QED BY <2>1, <2>2, <2>3, <2>4, ReconcileGoes, LocksUntouched DEF CacheInv
<1>6. CASE WalkMark(r)
  <2>1. /\ pc[r] = "mark" /\ Goto(r, "walk")
        /\ entry' = [entry EXCEPT ![tenants[key[r]]].stale = TRUE]
        /\ UNCHANGED << tenants, mu, lwm, key, ref, val, todo >>
    BY <1>6 DEF WalkMark
  <2>2. /\ entry' \in [Ref -> Entry]
        /\ \A s \in Ref : /\ entry'[s].holder = entry[s].holder
                          /\ entry'[s].evicted = entry[s].evicted
    <3> DEFINE new == [entry[tenants[key[r]]] EXCEPT !.stale = TRUE]
    <3>1. CASE tenants[key[r]] \in Ref
      <4>1. /\ new \in Entry
            /\ new.holder = entry[tenants[key[r]]].holder
            /\ new.evicted = entry[tenants[key[r]]].evicted
        <5>1. entry[tenants[key[r]]] \in Entry
          BY <1>0, <3>1 DEF DataOK
        <5> QED BY <5>1 DEF Entry
      <4>2. entry' = [entry EXCEPT ![tenants[key[r]]] = new]
        BY <1>6 DEF WalkMark
      <4> HIDE DEF new
      <4> QED BY <1>0, <3>1, <4>1, <4>2 DEF DataOK
    <3>2. CASE tenants[key[r]] \notin Ref
      BY <1>0, <2>1, <3>2 DEF DataOK
    <3> QED BY <3>1, <3>2
  <2>3. TodoOK' /\ WalkHoldsMu'
    BY <1>0, <2>1, ReconcileGoes DEF CacheInv, TodoOK, WalkHoldsMu
  <2>4. DataOK'
    BY <1>0, <2>1, <2>2 DEF DataOK
  <2> QED BY <2>1, <2>2, <2>3, <2>4, ReconcileGoes, LocksUntouched DEF CacheInv
<1>7. CASE WalkBusy(r)
  <2>1. /\ pc[r] = "try" /\ Goto(r, "mark")
        /\ UNCHANGED << tenants, entry, mu, lwm, key, ref, val, todo >>
    BY <1>7 DEF WalkBusy
  <2>2. DataOK' /\ TodoOK' /\ WalkHoldsMu'
    BY <1>0, <2>1, ReconcileGoes DEF CacheInv, TodoOK, WalkHoldsMu, DataOK
  <2> QED BY <2>1, <2>2, ReconcileGoes, LocksUntouched DEF CacheInv
<1>8. CASE WalkEvict(r)
  <2> DEFINE s == tenants[key[r]]
             gone == [NewEntry EXCEPT !.evicted = TRUE]
  <2>1. /\ pc[r] = "try" /\ Goto(r, "walk") /\ entry[s].holder = Free
        /\ entry' = [entry EXCEPT ![s] = gone]
        /\ tenants' = [tenants EXCEPT ![key[r]] = NoRef]
        /\ UNCHANGED << mu, lwm, key, ref, val, todo >>
    BY <1>8 DEF WalkEvict
  <2>2. gone \in Entry /\ gone.evicted /\ key[r] \in Timeline /\ s \in Ref \cup {NoRef}
    BY <1>0, Sentinels DEF Entry, NewEntry, DataOK
  <2> HIDE DEF gone
  <2>3. DataOK'
    BY <1>0, <2>1, <2>2 DEF DataOK
  <2>4. TodoOK' /\ WalkHoldsMu'
    BY <1>0, <2>1, ReconcileGoes DEF CacheInv, TodoOK, WalkHoldsMu
  <2>5. \A e \in Enqueuer : pc'[e] = pc[e]
    BY <2>1, ReconcileGoes
  <2>6. \A q \in Ref : /\ q # s => entry'[q] = entry[q]
                       /\ q = s => entry'[q].evicted
    BY <1>0, <2>1, <2>2 DEF DataOK
  <2>7. ASSUME NEW e \in Enqueuer, key[e] = key[r], tenants[key[e]] \in Ref
        PROVE  ~Critical(e) /\ tenants[key[e]] = s
    <3>1. ASSUME Critical(e) PROVE FALSE
      <4>1. entry[s].holder = e
        BY <2>7, <3>1 DEF CacheInv, Locks, HoldsItsEntry
      <4> QED BY <2>1, <4>1, Sentinels
    <3> QED BY <2>7, <3>1
  <2>8. ASSUME NEW e \in Enqueuer, Critical(e)'
        PROVE  /\ ref'[e] \in Ref
               /\ entry'[ref'[e]].holder = e
               /\ tenants'[key'[e]] = ref'[e]
    <3>1. Critical(e)
      BY <2>5, <2>8 DEF Critical
    <3>2. ref[e] \in Ref /\ entry[ref[e]].holder = e /\ tenants[key[e]] = ref[e]
      BY <3>1 DEF CacheInv, Locks, HoldsItsEntry
    <3>3. key[e] # key[r] /\ ref[e] # s /\ key[e] \in Timeline
      BY <1>0, <2>1, <2>7, <3>1, <3>2, Sentinels DEF DataOK
    <3> QED BY <1>0, <2>1, <2>6, <3>2, <3>3 DEF DataOK
  <2>9. ASSUME NEW e \in Enqueuer, pc'[e] = "lock"
        PROVE  /\ ref'[e] \in Ref
               /\ entry'[ref'[e]].evicted \/ tenants'[key'[e]] = ref'[e]
    <3>1. ref[e] \in Ref /\ (entry[ref[e]].evicted \/ tenants[key[e]] = ref[e])
      BY <2>5, <2>9 DEF CacheInv, Locks, FindsItsEntry
    <3>2. key[e] \in Timeline
      BY <1>0 DEF DataOK
    <3> QED BY <1>0, <2>1, <2>6, <3>1, <3>2 DEF DataOK
  <2>10. EntriesDiffer'
    BY <1>0, <2>1, <2>2 DEF CacheInv, Locks, EntriesDiffer, DataOK
  <2> QED BY <2>1, <2>3, <2>4, <2>8, <2>9, <2>10, ReconcileGoes
          DEF CacheInv, Locks, HoldsItsEntry, FindsItsEntry
<1>9. CASE WalkEnd(r)
  <2>1. /\ pc[r] = "walk" /\ Goto(r, "idle") /\ mu' = Free /\ todo[r] = {}
        /\ lwm' = [p \in Partition |-> IF Prunable(p) THEN NoLWM ELSE lwm[p]]
        /\ key' = [key EXCEPT ![r] = SomeTimeline]
        /\ UNCHANGED << tenants, entry, ref, val, todo >>
    BY <1>9 DEF WalkEnd
  <2>2. DataOK'
    BY <1>0, <2>1, Sentinels DEF DataOK
  <2>3. TodoOK' /\ WalkHoldsMu'
    BY <1>0, <2>1, ReconcileGoes DEF CacheInv, TodoOK, WalkHoldsMu
  <2>4. \A e \in Enqueuer : key'[e] = key[e]
    BY <1>0, <2>1 DEF DataOK
  <2> QED BY <2>1, <2>2, <2>3, <2>4, ReconcileGoes, LocksUntouched DEF CacheInv
<1>10. ASSUME NEW v \in 0 .. MaxInt, FrontierFound(r, v)
       PROVE  CacheInv'
  <2>1. /\ pc[r] = "frontier" /\ Goto(r, "store")
        /\ val' = [val EXCEPT ![r] = v]
        /\ UNCHANGED << tenants, entry, mu, lwm, key, ref, todo >>
    BY <1>10 DEF FrontierFound
  <2>2. DataOK' /\ TodoOK' /\ WalkHoldsMu'
    BY <1>0, <2>1, ReconcileGoes DEF CacheInv, TodoOK, WalkHoldsMu, DataOK
  <2> QED BY <2>1, <2>2, ReconcileGoes, LocksUntouched DEF CacheInv
<1>11. CASE FrontierNone(r) \/ RefreshFails(r)
  <2>1. /\ pc[r] = "frontier" /\ Goto(r, "refresh")
        /\ UNCHANGED << tenants, entry, mu, lwm, key, ref, val, todo >>
    BY <1>0, <1>11 DEF FrontierNone, RefreshFails, AfterRefresh
  <2>2. DataOK' /\ TodoOK' /\ WalkHoldsMu'
    BY <1>0, <2>1, ReconcileGoes DEF CacheInv, TodoOK, WalkHoldsMu, DataOK
  <2> QED BY <2>1, <2>2, ReconcileGoes, LocksUntouched DEF CacheInv
<1> QED
  BY <1>1, <1>2, <1>3, <1>4, <1>5, <1>6, <1>7, <1>8, <1>9, <1>10, <1>11
     DEF ReconcileStep, ReconcileAnswered, WalkStep

(* A reconcile moves nothing an enqueue works with.                        *)
LEMMA ReconcileSpares ==
    ASSUME CacheInv, NEW r \in Reconciler,
           Reconcile(r) \/ ReconcileStep(r) \/ ReconcileAnswered(r)
    PROVE  /\ UNCHANGED ref
           /\ \A e \in Enqueuer : pc'[e] = pc[e] /\ key'[e] = key[e] /\ val'[e] = val[e]
           /\ \A q \in Reconciler \ {r} :
                pc'[q] = pc[q] /\ key'[q] = key[q] /\ todo'[q] = todo[q]
<1>1. r \in Proc /\ r \notin Enqueuer /\ \A e \in Enqueuer : e \in Proc
  BY Sentinels DEF Proc
<1> USE DEF CacheInv, DataOK, PcOK, Goto, Proc
<1>2. CASE Reconcile(r)
  BY <1>1, <1>2 DEF Reconcile
<1>3. CASE WalkStep(r)
  BY <1>1, <1>3 DEF WalkStep, WalkSwap, WalkMark, WalkBusy, WalkEvict, WalkEnd
<1>4. CASE ReconcileStep(r) /\ ~WalkStep(r)
  BY <1>1, <1>4 DEF ReconcileStep, Refresh, Store, AfterRefresh, WalkBegin
<1>5. CASE ReconcileAnswered(r)
  BY <1>1, <1>5 DEF ReconcileAnswered, FrontierFound, FrontierNone, RefreshFails, AfterRefresh
<1> QED BY <1>2, <1>3, <1>4, <1>5

(* The map, the clocks and what is known of them stay, but for new marks.  *)
MarksOnly ==
    /\ UNCHANGED tenants
    /\ \A s \in Ref : /\ entry'[s].seeded = entry[s].seeded
                      /\ entry'[s].vtime = entry[s].vtime
                      /\ entry[s].stale => entry'[s].stale

(* Of an entry a walk only sets the marks, except of the one it evicts.    *)
LEMMA ReconcileEffect ==
    ASSUME CacheInv, NEW r \in Reconciler,
           Reconcile(r) \/ ReconcileStep(r) \/ ReconcileAnswered(r),
           ~WalkEvict(r)
    PROVE  MarksOnly
<1> USE DEF MarksOnly
<1>1. DataOK
  BY DEF CacheInv
<1>2. CASE Reconcile(r)
  BY <1>2 DEF Reconcile
<1>3. ASSUME NEW t \in Timeline, WalkSwap(r, t)
      PROVE  MarksOnly
  BY <1>1, <1>3 DEF WalkSwap, DataOK, Entry
<1>4. CASE WalkMark(r)
  BY <1>1, <1>4 DEF WalkMark, DataOK, Entry
<1>5. CASE WalkBusy(r) \/ WalkEnd(r)
  BY <1>5 DEF WalkBusy, WalkEnd
<1>6. CASE ReconcileStep(r) /\ ~WalkStep(r)
  BY <1>6 DEF ReconcileStep, Refresh, Store, WalkBegin
<1>7. CASE ReconcileAnswered(r)
  BY <1>7 DEF ReconcileAnswered, FrontierFound, FrontierNone, RefreshFails
<1> QED BY <1>2, <1>3, <1>4, <1>5, <1>6, <1>7 DEF ReconcileStep, WalkStep

-----------------------------------------------------------------------------
(* What a walk has to do yet, and whose an entry is.                       *)

(* The walk under way has yet to mark or to evict the entry of t.          *)
Unhandled(t) ==
    \E r \in Reconciler :
        mu = r /\ (t \in todo[r] \/ (pc[r] \in {"mark", "try"} /\ key[r] = t))

(* What a walk no longer has before it, it has marked.                     *)
LEMMA WalkAccounts ==
    ASSUME CacheInv, NEW r \in Reconciler,
           Reconcile(r) \/ ReconcileStep(r) \/ ReconcileAnswered(r),
           ~WalkBegin(r), ~WalkEvict(r),
           NEW t \in Timeline, Unhandled(t), tenants[t] # NoRef
    PROVE  (Unhandled(t)' /\ mu' = mu) \/ entry'[tenants[t]].stale
<1> USE DEF Goto, WalkPC
<1>1. /\ r \in Proc
      /\ \A q \in Reconciler : q \in Proc /\ (mu = q <=> pc[q] \in WalkPC)
      /\ \A q \in Reconciler \ {r} :
            pc'[q] = pc[q] /\ key'[q] = key[q] /\ todo'[q] = todo[q]
      /\ pc \in [Proc -> EnqueuePC \cup ReconcilePC]
      /\ todo \in [Reconciler -> SUBSET (Timeline \cup Partition)]
      /\ key \in [Proc -> Timeline]
  BY ReconcileSpares DEF Proc, CacheInv, WalkHoldsMu, PcOK, DataOK
<1>2. PICK q \in Reconciler :
        mu = q /\ (t \in todo[q] \/ (pc[q] \in {"mark", "try"} /\ key[q] = t))
  BY DEF Unhandled
<1>3. pc[q] \in WalkPC
  BY <1>1, <1>2
<1>4. CASE \/ Reconcile(r) \/ ReconcileAnswered(r)
           \/ ReconcileStep(r) /\ ~WalkStep(r)
  <2>1. pc[r] \notin WalkPC /\ UNCHANGED mu
    BY <1>4 DEF Reconcile, ReconcileAnswered, ReconcileStep, Refresh, Store,
                FrontierFound, FrontierNone, RefreshFails
  <2> QED BY <1>1, <1>2, <1>3, <2>1 DEF Unhandled
<1>5. ASSUME NEW u \in Timeline, WalkSwap(r, u)
      PROVE  Unhandled(t)' /\ mu' = mu
  <2>1. pc[r] = "walk" /\ mu = r /\ mu' = mu /\ todo' = [todo EXCEPT ![r] = @ \ {u}]
        /\ key'[r] = u /\ pc'[r] \in {"mark", "try"}
    BY <1>1, <1>5 DEF WalkSwap
  <2> QED BY <1>1, <1>2, <2>1 DEF Unhandled
<1>6. CASE WalkMark(r)
  <2>1. /\ mu = r /\ UNCHANGED << mu, todo, key >>
        /\ entry' = [entry EXCEPT ![tenants[key[r]]].stale = TRUE]
    BY <1>1, <1>6 DEF WalkMark
  <2>2. CASE t \in todo[r]
    BY <2>1, <2>2 DEF Unhandled
  <2>3. CASE key[r] = t
    <3>1. entry[tenants[t]] \in Entry /\ tenants[t] \in Ref
      BY DEF CacheInv, DataOK
    <3> QED BY <2>1, <2>3, <3>1 DEF CacheInv, DataOK, Entry
  <2> QED BY <1>2, <2>1, <2>2, <2>3
<1>7. CASE WalkBusy(r)
  BY <1>1, <1>2, <1>7 DEF WalkBusy, Unhandled
<1>8. CASE WalkEnd(r)
  BY <1>1, <1>2, <1>8 DEF WalkEnd
<1> QED BY <1>4, <1>5, <1>6, <1>7, <1>8 DEF ReconcileStep, WalkStep

(* An eviction takes one timeline out of the map and of the walk.          *)
LEMMA EvictEffect ==
    ASSUME CacheInv, NEW r \in Reconciler, WalkEvict(r)
    PROVE  LET s == tenants[key[r]] IN
           /\ key[r] \in Timeline /\ tenants'[key[r]] = NoRef
           /\ entry[s].holder = Free /\ UNCHANGED mu
           /\ \A q \in Ref \ {s} : entry'[q] = entry[q]
           /\ \A t \in Timeline \ {key[r]} :
                /\ tenants'[t] = tenants[t]
                /\ tenants[t] # NoRef => tenants[t] # s
                /\ Unhandled(t) => Unhandled(t)'
<1> DEFINE s == tenants[key[r]]
<1>1. /\ r \in Proc
      /\ \A q \in Reconciler : q \in Proc /\ (mu = q <=> pc[q] \in WalkPC)
      /\ \A q \in Reconciler \ {r} :
            pc'[q] = pc[q] /\ key'[q] = key[q] /\ todo'[q] = todo[q]
      /\ pc \in [Proc -> EnqueuePC \cup ReconcilePC]
  BY ReconcileSpares DEF Proc, CacheInv, WalkHoldsMu, PcOK, ReconcileStep, WalkStep
<1>2. /\ pc[r] = "try" /\ mu = r /\ key[r] \in Timeline
      /\ entry[s].holder = Free
      /\ entry' = [entry EXCEPT ![s] = [NewEntry EXCEPT !.evicted = TRUE]]
      /\ tenants' = [tenants EXCEPT ![key[r]] = NoRef]
      /\ UNCHANGED << mu, key, todo >>
  BY <1>1 DEF WalkEvict, CacheInv, DataOK, WalkPC
<1>3. /\ \A q \in Ref \ {s} : entry'[q] = entry[q]
      /\ \A t \in Timeline \ {key[r]} : /\ tenants'[t] = tenants[t]
                                        /\ tenants[t] # NoRef => tenants[t] # s
      /\ tenants'[key[r]] = NoRef
  BY <1>2 DEF CacheInv, DataOK, Locks, EntriesDiffer
<1>4. \A t \in Timeline \ {key[r]} : Unhandled(t) => Unhandled(t)'
  BY <1>1, <1>2 DEF Unhandled
<1> QED BY <1>2, <1>3, <1>4

(* An entry of the map belongs to one timeline, and a reserve holds its    *)
(* own.                                                                    *)
LEMMA EntryIsOwn ==
    ASSUME CacheInv, NEW e \in Enqueuer, Critical(e)
    PROVE  /\ key[e] \in Timeline /\ ref[e] \in Ref /\ tenants[key[e]] = ref[e]
           /\ \A t \in Timeline : tenants[t] = ref[e] => t = key[e]
           /\ \A f \in Enqueuer \ {e} : Critical(f) => ref[f] # ref[e]
<1>1. key[e] \in Timeline
  BY DEF CacheInv, DataOK, Proc
<1>2. ref[e] \in Ref /\ tenants[key[e]] = ref[e] /\ entry[ref[e]].holder = e
  BY DEF CacheInv, Locks, HoldsItsEntry
<1>3. \A t \in Timeline : tenants[t] = ref[e] => t = key[e]
  BY <1>1, <1>2, Sentinels DEF CacheInv, Locks, EntriesDiffer
<1>4. \A f \in Enqueuer \ {e} : Critical(f) => ref[f] # ref[e]
  BY <1>2 DEF CacheInv, Locks, HoldsItsEntry
<1> QED BY <1>1, <1>2, <1>3, <1>4

-----------------------------------------------------------------------------

LEMMA InitCacheInv == CacheInit => CacheInv
BY Sentinels DEF CacheInit, CacheInv, DataOK, PcOK, TodoOK, WalkHoldsMu, Locks,
                 HoldsItsEntry, FindsItsEntry, EntriesDiffer, Critical,
                 CriticalPC, EnqueuePC, ReconcilePC, WalkPC, Proc

LEMMA RestartCacheInv == CacheRestart => CacheInv'
BY Sentinels DEF CacheRestart, CacheInv, DataOK, PcOK, TodoOK, WalkHoldsMu, Locks,
                 HoldsItsEntry, FindsItsEntry, EntriesDiffer, Critical,
                 CriticalPC, EnqueuePC, ReconcilePC, WalkPC, Proc

LEMMA StutterCacheInv == CacheInv /\ UNCHANGED cacheVars => CacheInv'
BY DEF cacheVars, CacheInv, DataOK, PcOK, TodoOK, WalkHoldsMu, Locks,
       HoldsItsEntry, FindsItsEntry, EntriesDiffer, Critical

LEMMA NextCacheInv == CacheInv /\ [CacheNext]_cacheVars => CacheInv'
<1> SUFFICES ASSUME CacheInv, [CacheNext]_cacheVars
             PROVE  CacheInv'
  OBVIOUS
<1>1. ASSUME NEW e \in Enqueuer,
             (\E t \in Timeline : Begin(e, t)) \/ EnqueueStep(e) \/ EnqueueAnswer(e)
      PROVE  CacheInv'
  <2>1. EnqueueAnswer(e) => EnqueueAnswered(e)
    BY CacheAssumption DEF EnqueueAnswer, EnqueueAnswered
  <2> QED BY <1>1, <2>1, EnqueueInv
<1>2. ASSUME NEW r \in Reconciler,
             Reconcile(r) \/ ReconcileStep(r) \/ ReconcileAnswer(r)
      PROVE  CacheInv'
  <2>1. ReconcileAnswer(r) => ReconcileAnswered(r)
    BY CacheAssumption DEF ReconcileAnswer, ReconcileAnswered
  <2> QED BY <1>2, <2>1, ReconcileInv
<1> QED BY <1>1, <1>2, StutterCacheInv DEF CacheNext

(* Two reserves of one timeline at once would hold one lock between them.  *)
LEMMA InvImpliesOneWriter == CacheInv => OneWriter
<1> SUFFICES ASSUME CacheInv, NEW e \in Enqueuer, NEW f \in Enqueuer,
                    Critical(e), Critical(f), key[e] = key[f]
             PROVE  e = f
  BY DEF OneWriter
<1>1. /\ entry[ref[e]].holder = e /\ tenants[key[e]] = ref[e]
      /\ entry[ref[f]].holder = f /\ tenants[key[f]] = ref[f]
  BY DEF CacheInv, Locks, HoldsItsEntry
<1> QED BY <1>1

-----------------------------------------------------------------------------

LEMMA CacheInvariance == CacheSpec => []CacheInv
BY InitCacheInv, NextCacheInv, PTL DEF CacheSpec

(* Every variable of the cache keeps its type, in any interleaving of any  *)
(* number of enqueues and reconciles: no pointer dangles, no clock leaves  *)
(* the range (vtimecache.go:95-107).                                       *)
THEOREM CacheTypeCorrect == CacheSpec => []CacheTypeOK
<1>1. CacheInv => CacheTypeOK
  BY TypeParts DEF CacheInv
<1> QED BY <1>1, CacheInvariance, PTL

(* A timeline has one writer at a time, through any interleaving of        *)
(* evictions and re-creations of its entry (vtimecache.go:26-34).          *)
THEOREM OneWriterAtATime == CacheSpec => []OneWriter
BY InvImpliesOneWriter, CacheInvariance, PTL

(* A partition with a reserve in it has a cached entry, hence its frontier *)
(* is not pruned (vtimecache.go:287-293).                                  *)
LEMMA StepSparesReserves ==
    ASSUME CacheInv, [CacheNext]_cacheVars, NEW p \in Partition,
           lwm[p] # NoLWM, lwm'[p] = NoLWM, NEW e \in Enqueuer, Critical(e)
    PROVE  PartitionOf(key[e]) # p
<1>1. ASSUME NEW f \in Enqueuer,
             (\E t \in Timeline : Begin(f, t)) \/ EnqueueStep(f) \/ EnqueueAnswer(f)
      PROVE  UNCHANGED lwm \/ Store(f)
  BY <1>1 DEF Begin, EnqueueStep, EnqueueAnswer, Lookup, Lock, LockEvicted, Touch,
              Swap, SeedSet, Commit, Abort, Leave, Stamp, Overflow, FrontierFound,
              EdgeRead, FrontierNone, FrontierFails, EdgeFails, Inserted
<1>2. ASSUME NEW r \in Reconciler,
             Reconcile(r) \/ ReconcileStep(r) \/ ReconcileAnswer(r)
      PROVE  UNCHANGED lwm \/ Store(r) \/ WalkEnd(r)
  BY <1>2 DEF Reconcile, ReconcileStep, ReconcileAnswer, WalkStep, Refresh,
              WalkBegin, WalkSwap, WalkMark, WalkBusy, WalkEvict, FrontierFound,
              FrontierNone, RefreshFails
<1>3. ASSUME NEW x \in Proc, Store(x)
      PROVE  lwm'[p] # NoLWM
  <2>1. val[x] \in 0 .. MaxInt /\ lwm \in [Partition -> 0 .. MaxInt \cup {NoLWM}]
    BY DEF CacheInv, DataOK
  <2>2. NoLWM \notin 0 .. MaxInt
    BY CacheAssumption
  <2> QED BY <1>3, <2>1, <2>2 DEF Store
<1>4. UNCHANGED lwm => lwm'[p] # NoLWM
  OBVIOUS
<1>5. PICK r \in Reconciler : WalkEnd(r)
  BY <1>1, <1>2, <1>3, <1>4 DEF CacheNext, cacheVars, Proc
<1>6. p \notin CachedPartitions
  BY <1>5 DEF WalkEnd, Prunable
<1>7. key[e] \in Timeline /\ tenants[key[e]] # NoRef
  BY Sentinels DEF CacheInv, DataOK, Proc, Locks, HoldsItsEntry
<1> QED BY <1>6, <1>7 DEF CachedPartitions, Cached

(* No walk drops a frontier between its refresh and the seed that uses it. *)
THEOREM ReservesAreSpared == CacheSpec => PruneSparesReserves
<1>1. CacheInv /\ [CacheNext]_cacheVars =>
        [\A p \in Partition : lwm[p] # NoLWM /\ lwm'[p] = NoLWM =>
            \A e \in Enqueuer : Critical(e) => PartitionOf(key[e]) # p]_cacheVars
  BY StepSparesReserves
<1> QED BY <1>1, CacheInvariance, PTL DEF CacheSpec, PruneSparesReserves

-----------------------------------------------------------------------------
(* CacheHistory: after a walk no clock stamps before it has been read      *)
(* again.  Its variables occur in this section only.                       *)

EarlyOK ==
    early \subseteq {e \in Enqueuer : Critical(e) /\ pc[e] \notin {"touch", "swap"}}

(* A reserve that began after one walk has ended is early to the next.     *)
LateOK ==
    /\ late \subseteq {e \in Enqueuer : Critical(e)}
    /\ late \cap early = {}
    /\ Walking => late = {}

(* A clock is in use only if it was read again since the walk began, or is *)
(* marked to be, or the walk will still come to it ...                     *)
ClocksAccounted ==
    \A t \in Timeline :
        tenants[t] # NoRef /\ entry[tenants[t]].seeded =>
            tenants[t] \in reseeded \/ entry[tenants[t]].stale \/ Unhandled(t)

(* ... and so is the entry of a reserve that may seed it with an edge from *)
(* before the walk.                                                        *)
EarlyAccounted ==
    \A e \in early : entry[ref[e]].stale \/ Unhandled(key[e])

HistoryInv ==
    /\ EarlyOK
    /\ LateOK
    /\ ClocksAccounted
    /\ EarlyAccounted
    /\ ReseedAfterWalk

-----------------------------------------------------------------------------

(* A step of an enqueue begins no walk and takes nothing off one.          *)
LEMMA EnqueueWatched ==
    ASSUME CacheInv, HistoryInv, WatchWalks, NEW e \in Enqueuer,
           (\E t \in Timeline : Begin(e, t)) \/ EnqueueStep(e) \/ EnqueueAnswered(e)
    PROVE  /\ mu' = mu /\ \A t : Unhandled(t)' <=> Unhandled(t)
           /\ EarlyOK'
           /\ LateOK'
           /\ early' = early \ Returned
           /\ late' \subseteq late \cup {e}
           /\ e \in late' \ late => pc'[e] = "touch"
           /\ reseeded \ Remapped \subseteq reseeded'
           /\ SeedSet(e) /\ e \notin early => ref[e] \in reseeded'
<1>0. /\ \A r \in Reconciler : r \in Proc /\ r # e
      /\ \A f \in Enqueuer : f \in Proc
  BY Sentinels DEF Proc
<1>1. /\ UNCHANGED << mu, todo >>
      /\ \A x \in Proc \ {e} : pc'[x] = pc[x] /\ key'[x] = key[x]
  BY EnqueueSpares
<1>2. \A t : Unhandled(t)' <=> Unhandled(t)
  BY <1>0, <1>1 DEF Unhandled
<1>3. /\ reseeded' = (reseeded \ Remapped) \cup {ref[f] : f \in Moved("set", "stamp") \ early}
      /\ early' = early \ Returned
      /\ late' = (late \ Returned) \cup (IF Walking THEN {} ELSE Moved("lock", "touch"))
  BY <1>0, <1>1 DEF WatchWalks, RefreshesEnd
<1>4. Returned \subseteq {e} /\ \A from, to : from # to => Moved(from, to) \subseteq {e}
  BY <1>0, <1>1 DEF Returned, Moved
<1>5. \A f \in Enqueuer \ {e} : Critical(f)' <=> Critical(f)
  BY <1>0, <1>1 DEF Critical
<1>6. EarlyOK'
  <2>1. ASSUME NEW f \in early'
        PROVE  f \in Enqueuer /\ Critical(f)' /\ pc'[f] \notin {"touch", "swap"}
    <3>1. f \in Enqueuer /\ Critical(f) /\ pc[f] \notin {"touch", "swap"} /\ f \notin Returned
      BY <1>3, <2>1 DEF HistoryInv, EarlyOK
    <3>2. CASE f # e
      BY <1>0, <1>1, <1>5, <3>1, <3>2
    <3>3. CASE f = e
      <4>1. pc[e] # "idle"
        BY <3>1, <3>3 DEF Critical, CriticalPC, EnqueuePC
      <4>2. Critical(e)'
        BY <3>1, <3>3, <4>1, EnqueueMoves DEF Returned
      <4> QED BY <3>1, <3>3, <4>2, EnqueueMoves
    <3> QED BY <3>2, <3>3
  <2> QED BY <2>1 DEF EarlyOK
<1>7. /\ late' \subseteq late \cup {e}
      /\ e \in late' \ late => pc'[e] = "touch"
  BY <1>3, <1>4 DEF Moved
<1>8. LateOK'
  <2>1. ASSUME NEW f \in late'
        PROVE  f \in Enqueuer /\ Critical(f)' /\ f \notin early' /\ ~Walking
    <3>1. CASE f \in late /\ f # e
      BY <1>3, <1>5, <3>1 DEF HistoryInv, LateOK
    <3>2. CASE f \in late /\ f = e /\ f \notin Returned
      <4>1. Critical(e) /\ f \notin early /\ ~Walking
        BY <3>2 DEF HistoryInv, LateOK
      <4>2. pc[e] # "idle"
        BY <4>1 DEF Critical, CriticalPC, EnqueuePC
      <4>3. Critical(e)'
        BY <3>2, <4>1, <4>2, EnqueueMoves DEF Returned
      <4> QED BY <1>3, <3>2, <4>1, <4>3
    <3>3. CASE f \in Moved("lock", "touch") /\ ~Walking
      <4>1. pc[f] = "lock" /\ pc'[f] = "touch" /\ f \in Enqueuer
        BY <3>3 DEF Moved
      <4>2. ~Critical(f) /\ Critical(f)'
        BY <4>1 DEF Critical, CriticalPC, EnqueuePC
      <4> QED BY <1>3, <3>3, <4>1, <4>2 DEF HistoryInv, EarlyOK
    <3> QED BY <1>3, <2>1, <3>1, <3>2, <3>3
  <2> QED BY <1>1, <2>1 DEF LateOK, Walking
<1>9. SeedSet(e) /\ e \notin early => ref[e] \in reseeded'
  <2>1. SeedSet(e) => pc[e] = "set" /\ pc'[e] = "stamp"
    BY SeedSetEffect
  <2> QED BY <1>3, <2>1 DEF Moved
<1> QED BY <1>1, <1>2, <1>3, <1>6, <1>7, <1>8, <1>9

(* Reserves are as early and as late as before, at the same entries.       *)
LEMMA EnqueueKeeps ==
    ASSUME CacheInv, HistoryInv, WatchWalks, NEW e \in Enqueuer,
           (\E t \in Timeline : Begin(e, t)) \/ EnqueueStep(e) \/ EnqueueAnswered(e)
    PROVE  /\ \A f \in early' :
                /\ f \in early /\ f \in Enqueuer /\ Critical(f)
                /\ key'[f] = key[f] /\ ref'[f] = ref[f]
           /\ \A f \in late' : pc'[f] \in StampedPC =>
                /\ f \in late /\ f \in Enqueuer /\ Critical(f)
                /\ key'[f] = key[f] /\ ref'[f] = ref[f]
                /\ pc[f] \in StampedPC \/ (f = e /\ (Swap(e) \/ SeedSet(e)))
<1>1. \A f \in Enqueuer \ {e} : pc'[f] = pc[f] /\ key'[f] = key[f] /\ ref'[f] = ref[f]
  BY EnqueueSpares DEF Proc
<1>2. Critical(e) /\ Critical(e)' => key'[e] = key[e] /\ ref'[e] = ref[e]
  BY EnqueueMoves
<1>3. ASSUME NEW f \in early'
      PROVE  /\ f \in early /\ f \in Enqueuer /\ Critical(f)
             /\ key'[f] = key[f] /\ ref'[f] = ref[f]
  <2>1. f \in early /\ f \in Enqueuer /\ Critical(f)'
    BY <1>3, EnqueueWatched DEF EarlyOK
  <2>2. Critical(f)
    BY <2>1 DEF HistoryInv, EarlyOK
  <2> QED BY <1>1, <1>2, <2>1, <2>2
<1>4. ASSUME NEW f \in late', pc'[f] \in StampedPC
      PROVE  /\ f \in late /\ f \in Enqueuer /\ Critical(f)
             /\ key'[f] = key[f] /\ ref'[f] = ref[f]
             /\ pc[f] \in StampedPC \/ (f = e /\ (Swap(e) \/ SeedSet(e)))
  <2>1. f \in late /\ f \in Enqueuer /\ Critical(f)'
    BY <1>4, EnqueueWatched DEF LateOK, StampedPC
  <2>2. Critical(f)
    BY <2>1 DEF HistoryInv, LateOK
  <2>3. pc[f] \in StampedPC \/ (f = e /\ (Swap(e) \/ SeedSet(e)))
    BY <1>1, <1>4, <2>1, EnqueueMoves
  <2> QED BY <1>1, <1>2, <2>1, <2>2, <2>3
<1> QED BY <1>3, <1>4

LEMMA EnqueueHistory ==
    ASSUME CacheInv, HistoryInv, WatchWalks, NEW e \in Enqueuer,
           (\E t \in Timeline : Begin(e, t)) \/ EnqueueStep(e) \/ EnqueueAnswered(e)
    PROVE  HistoryInv'
<1>1. /\ \A t : Unhandled(t)' <=> Unhandled(t)
      /\ EarlyOK' /\ LateOK'
      /\ reseeded \ Remapped \subseteq reseeded'
  BY EnqueueWatched
<1>2. /\ \A f \in early' :
            /\ f \in early /\ f \in Enqueuer /\ Critical(f)
            /\ key'[f] = key[f] /\ ref'[f] = ref[f]
      /\ \A f \in late' : pc'[f] \in StampedPC =>
            /\ f \in late /\ f \in Enqueuer /\ Critical(f)
            /\ key'[f] = key[f] /\ ref'[f] = ref[f]
            /\ pc[f] \in StampedPC \/ (f = e /\ (Swap(e) \/ SeedSet(e)))
  BY EnqueueKeeps
<1>3. \A f \in Enqueuer : Critical(f) => ref[f] \in Ref /\ key[f] \in Timeline
  BY EntryIsOwn
<1>4. \A t \in Timeline : tenants[t] # NoRef => tenants[t] \in Ref
  BY DEF CacheInv, DataOK
<1>5. UNCHANGED tenants => Remapped = {}
  BY DEF Remapped
<1> SUFFICES /\ ClocksAccounted'
             /\ EarlyAccounted'
             /\ ReseedAfterWalk'
  BY <1>1 DEF HistoryInv
<1> USE DEF HistoryInv
<1>6. CASE ClocksKept(e) /\ ~Swap(e) /\ ~SeedSet(e)
  <2>1. /\ tenants' = tenants /\ reseeded \subseteq reseeded'
        /\ \A s \in Ref : entry'[s].seeded = entry[s].seeded /\ entry'[s].stale = entry[s].stale
    BY <1>1, <1>5, <1>6 DEF ClocksKept
  <2>2. ClocksAccounted'
    BY <1>1, <1>4, <2>1 DEF ClocksAccounted
  <2>3. EarlyAccounted'
    BY <1>1, <1>2, <1>3, <2>1 DEF EarlyAccounted
  <2>4. ReseedAfterWalk'
    BY <1>2, <1>6, <2>1 DEF ReseedAfterWalk, StampedPC
  <2> QED BY <2>2, <2>3, <2>4
<1>7. CASE Swap(e)
  <2>1. /\ tenants' = tenants /\ reseeded \subseteq reseeded'
        /\ pc[e] = "swap" /\ Critical(e) /\ ref[e] \in Ref
        /\ \A s \in Ref \ {ref[e]} : entry'[s] = entry[s]
        /\ entry'[ref[e]].seeded <=> entry[ref[e]].seeded /\ ~entry[ref[e]].stale
        /\ pc'[e] = "stamp" <=> entry'[ref[e]].seeded
    BY <1>1, <1>5, <1>7, SwapEffect
  <2>2. ClocksAccounted'
    BY <1>1, <1>4, <2>1 DEF ClocksAccounted
  <2>3. EarlyAccounted'
    <3>1. e \notin early
      BY <2>1 DEF EarlyOK
    <3>2. \A f \in early : f \in Enqueuer /\ Critical(f) => ref[f] \in Ref \ {ref[e]}
      BY <1>3, <2>1, <3>1, EntryIsOwn
    <3> QED BY <1>1, <1>2, <2>1, <3>2 DEF EarlyAccounted
  <2>4. ReseedAfterWalk'
    <3>1. ASSUME e \in late, pc'[e] = "stamp"
          PROVE  ref[e] \in reseeded
      <4>1. /\ key[e] \in Timeline /\ tenants[key[e]] = ref[e] /\ ref[e] # NoRef
            /\ entry[ref[e]].seeded /\ ~entry[ref[e]].stale
        BY <2>1, <3>1, EntryIsOwn, Sentinels
      <4>2. ~Unhandled(key[e])
        BY <3>1, Sentinels DEF LateOK, Walking, Unhandled
      <4> QED BY <4>1, <4>2 DEF ClocksAccounted
    <3>2. pc'[e] \in StampedPC => pc'[e] = "stamp"
      BY <1>7 DEF Swap, Goto, StampedPC, CacheInv, PcOK, Proc
    <3>3. ~SeedSet(e)
      BY <2>1 DEF SeedSet
    <3> QED BY <1>2, <2>1, <3>1, <3>2, <3>3 DEF ReseedAfterWalk, StampedPC
  <2> QED BY <2>2, <2>3, <2>4
<1>8. CASE SeedSet(e)
  <2>1. /\ tenants' = tenants /\ reseeded \subseteq reseeded'
        /\ pc[e] = "set" /\ Critical(e) /\ ref[e] \in Ref
        /\ \A s \in Ref \ {ref[e]} : entry'[s] = entry[s]
        /\ entry'[ref[e]].stale = entry[ref[e]].stale
    BY <1>1, <1>5, <1>8, SeedSetEffect
  <2>2. e \notin early => ref[e] \in reseeded'
    BY <1>8, EnqueueWatched
  <2>3. ClocksAccounted'
    <3>1. ASSUME NEW t \in Timeline, tenants[t] = ref[e]
          PROVE  ref[e] \in reseeded' \/ entry[ref[e]].stale \/ Unhandled(t)
      BY <2>1, <2>2, <3>1, EntryIsOwn DEF EarlyAccounted
    <3> QED BY <1>1, <1>4, <2>1, <3>1 DEF ClocksAccounted
  <2>4. EarlyAccounted'
    BY <1>1, <1>2, <1>3, <2>1 DEF EarlyAccounted
  <2>5. ReseedAfterWalk'
    <3>1. e \in late => e \notin early
      BY DEF LateOK
    <3> QED BY <1>2, <2>1, <2>2, <3>1 DEF ReseedAfterWalk, StampedPC
  <2> QED BY <2>3, <2>4, <2>5
<1>9. CASE Lookup(e)
  <2>0. pc[e] = "lookup"
    BY <1>9 DEF Lookup
  <2>1. ~Swap(e) /\ ~SeedSet(e)
    BY <2>0 DEF Swap, SeedSet
  <2>2. CASE tenants[key[e]] # NoRef
    BY <1>6, <1>9, <2>1, <2>2 DEF Lookup, ClocksKept
  <2>3. CASE tenants[key[e]] = NoRef
    <3>1. PICK r \in Ref :
            /\ Unreachable(r)
            /\ tenants' = [tenants EXCEPT ![key[e]] = r]
            /\ entry' = [entry EXCEPT ![r] = NewEntry]
      BY <1>9, <2>3 DEF Lookup
    <3>2. /\ tenants \in [Timeline -> Ref \cup {NoRef}] /\ key[e] \in Timeline
          /\ entry \in [Ref -> Entry]
      BY DEF CacheInv, DataOK, Proc
    <3>3. /\ \A t \in Timeline \ {key[e]} : tenants'[t] = tenants[t] /\ tenants[t] # r
          /\ tenants'[key[e]] = r
          /\ ~entry'[r].seeded
          /\ \A s \in Ref \ {r} : entry'[s] = entry[s]
      BY <3>1, <3>2 DEF Unreachable, NewEntry
    <3>4. Remapped \subseteq {r}
      BY <2>3, <3>2, <3>3, Sentinels DEF Remapped
    <3>5. \A f \in Enqueuer : ref[f] # r
      BY <3>1 DEF Unreachable
    <3>6. ClocksAccounted'
      BY <1>1, <1>4, <3>3, <3>4 DEF ClocksAccounted
    <3>7. EarlyAccounted'
      BY <1>1, <1>2, <1>3, <3>3, <3>5 DEF EarlyAccounted
    <3>8. ReseedAfterWalk'
      BY <1>1, <1>2, <2>1, <3>4, <3>5 DEF ReseedAfterWalk, StampedPC
    <3> QED BY <3>6, <3>7, <3>8
  <2> QED BY <2>2, <2>3
<1> QED BY <1>6, <1>7, <1>8, <1>9, EnqueueEffect

-----------------------------------------------------------------------------

LEMMA ReconcileWatched ==
    ASSUME CacheInv, HistoryInv, WatchWalks, NEW r \in Reconciler,
           Reconcile(r) \/ ReconcileStep(r) \/ ReconcileAnswered(r),
           ~WalkBegin(r)
    PROVE  /\ EarlyOK' /\ LateOK'
           /\ early' = early /\ late' = late /\ ref' = ref
           /\ \A e \in Enqueuer : pc'[e] = pc[e] /\ key'[e] = key[e]
           /\ reseeded' = reseeded \ Remapped
<1>1. ref' = ref /\ \A e \in Enqueuer : pc'[e] = pc[e] /\ key'[e] = key[e]
  BY ReconcileSpares
<1>2. mu' = mu \/ mu' = Free
  BY DEF Reconcile, ReconcileStep, WalkStep, ReconcileAnswered, Refresh, Store,
         WalkSwap, WalkMark, WalkBusy, WalkEvict, WalkEnd, FrontierFound,
         FrontierNone, RefreshFails
<1>3. \A from, to : from # to => Moved(from, to) = {}
  BY <1>1 DEF Moved
<1>4. Returned = {}
  BY <1>1 DEF Returned
<1>9. ~RefreshesEnd
  <2>1. \A q \in Reconciler \ {r} : pc'[q] = pc[q]
    BY ReconcileSpares
  <2>2. r \in Proc /\ r \notin Enqueuer /\ pc \in [Proc -> EnqueuePC \cup ReconcilePC]
    BY Sentinels DEF Proc, CacheInv, PcOK
  <2>3. pc[r] \in RefreshPC => pc'[r] \in RefreshPC
    BY <2>2 DEF RefreshPC, Goto, AfterRefresh, Reconcile, ReconcileStep, WalkStep,
                ReconcileAnswered, Refresh, Store, WalkSwap, WalkMark, WalkBusy,
                WalkEvict, WalkEnd, FrontierFound, FrontierNone, RefreshFails
  <2> QED BY <2>1, <2>3 DEF RefreshesEnd
<1>5. early' = early /\ late' = late /\ reseeded' = reseeded \ Remapped
  BY <1>3, <1>4, <1>9 DEF WatchWalks
<1>6. \A e \in Enqueuer : Critical(e)' <=> Critical(e)
  BY <1>1 DEF Critical
<1>7. EarlyOK'
  BY <1>1, <1>5, <1>6 DEF HistoryInv, EarlyOK
<1>8. LateOK'
  BY <1>2, <1>5, <1>6 DEF HistoryInv, LateOK, Walking
<1> QED BY <1>1, <1>5, <1>7, <1>8

LEMMA ReconcileHistory ==
    ASSUME CacheInv, HistoryInv, WatchWalks, NEW r \in Reconciler,
           Reconcile(r) \/ ReconcileStep(r) \/ ReconcileAnswered(r)
    PROVE  HistoryInv'
<1>1. /\ r \in Proc /\ Free \notin Reconciler
      /\ \A q \in Reconciler : q \in Proc /\ (mu = q <=> pc[q] \in WalkPC)
      /\ \A q \in Reconciler \ {r} :
            pc'[q] = pc[q] /\ key'[q] = key[q] /\ todo'[q] = todo[q]
      /\ pc \in [Proc -> EnqueuePC \cup ReconcilePC]
      /\ todo \in [Reconciler -> SUBSET (Timeline \cup Partition)]
      /\ key \in [Proc -> Timeline]
  BY Sentinels, ReconcileSpares DEF Proc, CacheInv, WalkHoldsMu, PcOK, DataOK
<1>2. \A t \in Timeline : tenants[t] # NoRef => tenants[t] \in Ref
  BY DEF CacheInv, DataOK
<1>3. \A e \in Enqueuer : Critical(e) =>
        /\ key[e] \in Timeline /\ ref[e] \in Ref /\ ref[e] # NoRef
        /\ tenants[key[e]] = ref[e]
  BY EntryIsOwn, Sentinels
<1>4. \A e \in early : e \in Enqueuer /\ Critical(e)
  BY DEF HistoryInv, EarlyOK
<1> USE DEF Goto, WalkPC
<1>5. CASE WalkBegin(r)
  <2>1. /\ mu = Free /\ mu' = r /\ r # Free /\ todo'[r] = Cached
        /\ UNCHANGED << tenants, entry, ref, key >>
        /\ \A e \in Enqueuer : pc'[e] = pc[e]
    BY <1>1, <1>5, ReconcileSpares DEF WalkBegin
  <2>2. /\ early' = {e \in Enqueuer : Critical(e) /\ pc[e] \notin {"touch", "swap"}}
        /\ late' = {}
    <3>1. RefreshesEnd
      BY <1>1, <1>5 DEF WalkBegin, RefreshesEnd, RefreshPC
    <3> QED BY <2>1, <3>1 DEF WatchWalks
  <2>3. \A t \in Timeline : tenants[t] # NoRef => Unhandled(t)'
    BY <2>1 DEF Unhandled, Cached
  <2>4. EarlyOK' /\ LateOK' /\ ReseedAfterWalk'
    BY <2>1, <2>2 DEF EarlyOK, LateOK, ReseedAfterWalk, Critical
  <2>5. ClocksAccounted'
    BY <2>1, <2>3 DEF ClocksAccounted
  <2>6. EarlyAccounted'
    BY <1>3, <2>1, <2>2, <2>3 DEF EarlyAccounted
  <2> QED BY <2>4, <2>5, <2>6 DEF HistoryInv
<1>6. CASE ~WalkBegin(r)
  <2>1. /\ EarlyOK' /\ LateOK'
        /\ early' = early /\ late' = late /\ ref' = ref
        /\ \A e \in Enqueuer : pc'[e] = pc[e] /\ key'[e] = key[e]
        /\ reseeded' = reseeded \ Remapped
    BY <1>6, ReconcileWatched
  <2>2. CASE ~WalkEvict(r)
    <3>1. /\ tenants' = tenants
          /\ \A s \in Ref : /\ entry'[s].seeded = entry[s].seeded
                            /\ entry[s].stale => entry'[s].stale
      BY <2>2, ReconcileEffect DEF MarksOnly
    <3>2. reseeded' = reseeded
      BY <2>1, <3>1 DEF Remapped
    <3>3. ASSUME NEW t \in Timeline, Unhandled(t), tenants[t] # NoRef
          PROVE  Unhandled(t)' \/ entry'[tenants[t]].stale
      BY <1>6, <2>2, <3>3, WalkAccounts
    <3>4. ClocksAccounted'
      BY <1>2, <3>1, <3>2, <3>3 DEF HistoryInv, ClocksAccounted
    <3>5. EarlyAccounted'
      BY <1>3, <1>4, <2>1, <3>1, <3>3 DEF HistoryInv, EarlyAccounted
    <3>6. ReseedAfterWalk'
      BY <2>1, <3>2 DEF HistoryInv, ReseedAfterWalk, LateOK
    <3> QED BY <2>1, <3>4, <3>5, <3>6 DEF HistoryInv
  <2>3. CASE WalkEvict(r)
    <3> DEFINE s == tenants[key[r]]
    <3>1. key[r] \in Timeline /\ entry[s].holder = Free /\ UNCHANGED mu
      BY <2>3, EvictEffect
    <3>2. /\ \A q \in Ref \ {s} : entry'[q] = entry[q]
          /\ \A t \in Timeline \ {key[r]} : /\ tenants'[t] = tenants[t]
                                            /\ tenants[t] # NoRef => tenants[t] # s
          /\ tenants'[key[r]] = NoRef
      BY <2>3, EvictEffect
    <3>3. \A t \in Timeline \ {key[r]} : Unhandled(t) => Unhandled(t)'
      BY <2>3, EvictEffect
    <3>4. ASSUME NEW t \in Timeline, tenants'[t] # NoRef
          PROVE  /\ t # key[r] /\ tenants'[t] = tenants[t]
                 /\ tenants[t] \in Ref \ {s} /\ tenants[t] \notin Remapped
      <4>1. t # key[r] /\ tenants'[t] = tenants[t] /\ tenants[t] \in Ref \ {s}
        BY <1>2, <3>2, <3>4
      <4>2. ASSUME NEW u \in Timeline, (tenants[u] = tenants[t]) # (tenants'[u] = tenants[t])
            PROVE  FALSE
        <5>1. CASE u = key[r]
          BY <3>2, <4>1, <4>2, <5>1, Sentinels
        <5>2. CASE u # key[r]
          BY <3>2, <4>2, <5>2
        <5> QED BY <5>1, <5>2
      <4>3. tenants[t] \notin Remapped
        BY <4>2, Zenon DEF Remapped
      <4> QED BY <4>1, <4>3
    <3>5. ClocksAccounted'
      <4>1. ASSUME NEW t \in Timeline, tenants'[t] # NoRef, entry'[tenants'[t]].seeded
            PROVE  \/ tenants'[t] \in reseeded' \/ entry'[tenants'[t]].stale
                   \/ Unhandled(t)'
        BY <2>1, <3>2, <3>3, <3>4, <4>1 DEF HistoryInv, ClocksAccounted
      <4> QED BY <4>1 DEF ClocksAccounted
    <3>6. EarlyAccounted'
      <4>1. ASSUME NEW e \in early
            PROVE  ref[e] \in Ref \ {s} /\ key[e] \in Timeline \ {key[r]}
        <5>1. entry[ref[e]].holder = e /\ e # Free
          BY <1>4, Sentinels DEF CacheInv, Locks, HoldsItsEntry
        <5> QED BY <1>3, <1>4, <3>1, <5>1
      <4> QED BY <1>4, <2>1, <3>2, <3>3, <4>1 DEF HistoryInv, EarlyAccounted
    <3>7. ReseedAfterWalk'
      BY <1>1, <2>1, <2>3, <3>1 DEF HistoryInv, LateOK, Walking, ReseedAfterWalk, WalkEvict
    <3> QED BY <2>1, <3>5, <3>6, <3>7 DEF HistoryInv
  <2> QED BY <2>2, <2>3
<1> QED BY <1>5, <1>6

-----------------------------------------------------------------------------

LEMMA InitHistoryInv == WatchedInit => CacheInv /\ HistoryInv
BY InitCacheInv DEF WatchedInit, CacheInit, HistoryInv, EarlyOK, LateOK, Walking,
                    ClocksAccounted, EarlyAccounted, ReseedAfterWalk

LEMMA NextHistoryInv ==
    CacheInv /\ HistoryInv /\ [WatchedNext]_watchedVars => (CacheInv /\ HistoryInv)'
<1> SUFFICES ASSUME CacheInv, HistoryInv, [WatchedNext]_watchedVars
             PROVE  CacheInv' /\ HistoryInv'
  OBVIOUS
<1>1. CASE UNCHANGED watchedVars
  <2>1. CacheInv'
    BY <1>1, StutterCacheInv DEF watchedVars, cacheVars
  <2>2. HistoryInv'
    BY <1>1 DEF watchedVars, HistoryInv, EarlyOK, LateOK, Walking, ClocksAccounted,
                EarlyAccounted, ReseedAfterWalk, Unhandled, Critical
  <2> QED BY <2>1, <2>2
<1>2. CASE WatchedNext
  <2>1. CacheNext /\ WatchWalks
    BY <1>2 DEF WatchedNext
  <2>2. CacheInv'
    BY <2>1, NextCacheInv
  <2>3. \A x : /\ EnqueueAnswer(x) => EnqueueAnswered(x)
               /\ ReconcileAnswer(x) => ReconcileAnswered(x)
    BY CacheAssumption DEF EnqueueAnswer, EnqueueAnswered,
                           ReconcileAnswer, ReconcileAnswered
  <2>4. ASSUME NEW e \in Enqueuer,
               (\E t \in Timeline : Begin(e, t)) \/ EnqueueStep(e) \/ EnqueueAnswer(e)
        PROVE  HistoryInv'
    BY <2>1, <2>3, <2>4, EnqueueHistory
  <2>5. ASSUME NEW r \in Reconciler,
               Reconcile(r) \/ ReconcileStep(r) \/ ReconcileAnswer(r)
        PROVE  HistoryInv'
    BY <2>1, <2>3, <2>5, ReconcileHistory
  <2> QED BY <2>1, <2>2, <2>4, <2>5 DEF CacheNext
<1> QED BY <1>1, <1>2

LEMMA HistoryInvariance == WatchedSpec => [](CacheInv /\ HistoryInv)
BY InitHistoryInv, NextHistoryInv, PTL DEF WatchedSpec

(* After a walk no enqueue stamps before the database was asked again,     *)
(* however the walk and the reserves interleave (queue.go:363-365).        *)
THEOREM NoClockOutlivesAWalk == WatchedSpec => []ReseedAfterWalk
<1>1. HistoryInv => ReseedAfterWalk
  BY DEF HistoryInv
<1> QED BY <1>1, HistoryInvariance, PTL
=============================================================================
