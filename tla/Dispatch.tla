------------------------------ MODULE Dispatch ------------------------------
(***************************************************************************)
(* Tenants on several nodes sharing the partitions of one collection: who  *)
(* is served when.  An enqueue and a reconcile are one step here; their    *)
(* interleavings are the subject of VTimeCache and FairQueue.  What is     *)
(* kept is what each leaves behind on every path: the clock of each        *)
(* timeline on the node that writes it, the frontiers each node has        *)
(* stored, and the jobs.                                                   *)
(***************************************************************************)
EXTENDS VTime, FiniteSetsExt

CONSTANTS
    Node, Tenant, Partition,
    Home,           \* tenant -> the node that enqueues for it (enqueue.go:24-28)
    Cost,           \* the normalized costs enqueues are given (enqueue.go:45-47)
    Weight,         \* the normalized weights they are given (enqueue.go:49-55)
    JobId, ClaimId, Resolution, Duration, NsPerMs, MaxAttempts,
    Absent, NoClaim, NoResolution, Canceled,    \* as in JobStore
    NoClock,        \* no entry cached for this timeline
    NoLWM           \* no frontier stored: reads as 0

ASSUME DispatchAssumption ==
    /\ Home \in [Tenant -> Node]
    /\ Cost \subseteq 1 .. MaxInt
    /\ Weight \subseteq 1 .. MaxInt
    /\ NoLWM \notin 0 .. MaxInt

Timeline == Tenant \X Partition

VARIABLES
    jobs,           \* the collection
    clocks,         \* timeline -> its entry in the cache of its home, or NoClock
    lwm             \* node -> partition -> last stored frontier or NoLWM

vars == << jobs, clocks, lwm >>

Db == INSTANCE QueueStore WITH VStamp <- 0 .. MaxInt

(* The store's own assumptions, for the constants declared here.           *)
ASSUME CollectionAssumption ==
    /\ JobId \subseteq Nat
    /\ Duration \subseteq Nat
    /\ NsPerMs \in Nat \ {0}
    /\ MaxAttempts \in Nat
    /\ NoClaim \notin ClaimId
    /\ Canceled \in Resolution
    /\ NoResolution \notin Resolution
    /\ Absent \notin Db!Job

Clock ==
    [vtime : 0 .. MaxInt, seeded : BOOLEAN, everSeeded : BOOLEAN,
     touched : BOOLEAN, stale : BOOLEAN]

NewClock ==
    [vtime |-> 0, seeded |-> FALSE, everSeeded |-> FALSE,
     touched |-> FALSE, stale |-> FALSE]

NothingStored == [p \in Partition |-> NoLWM]

Init ==
    /\ Db!StoreInit
    /\ clocks = [t \in Timeline |-> NoClock]
    /\ lwm = [n \in Node |-> NothingStored]

-----------------------------------------------------------------------------
(* reserve: where the next stamp of a timeline starts from.                *)

ClockOf(t) == IF clocks[t] = NoClock THEN NewClock ELSE clocks[t]

(* A marked or never seeded clock is seeded before it is used ...          *)
Warm(t) == ClockOf(t).seeded /\ ~ClockOf(t).stale

(* Mutation: a frontier already stored is not looked up again.             *)
RefreshedOnce(n, P) ==
    [p \in Partition |-> IF p \in P /\ Db!Frontier(p) # {} /\ lwm[n][p] = NoLWM
                         THEN Max(Db!Frontier(p)) ELSE lwm[n][p]]

(* refreshLWM: a frontier that was found replaces the stored one.          *)
Refreshed(n, P) ==
    [p \in Partition |-> IF p \in P /\ Db!Frontier(p) # {}
                         THEN Max(Db!Frontier(p)) ELSE lwm[n][p]]

(* ... and a cold seed refreshes the partition's frontier first.           *)
LwmAtReserve(t) ==
    IF ClockOf(t).everSeeded THEN lwm
    ELSE [lwm EXCEPT ![Home[t[1]]] = Refreshed(Home[t[1]], {t[2]})]

LwmFor(stored, n, p) == IF stored[n][p] = NoLWM THEN 0 ELSE stored[n][p]

(* Mutations: the seed is the frontier alone; the trailing edge alone.     *)
SeedAtFrontier(t) == LwmFor(LwmAtReserve(t), Home[t[1]], t[2])

SeedUnfloored(t) == Db!Edge(t)

Seed(t) == Larger(Db!Edge(t), LwmFor(LwmAtReserve(t), Home[t[1]], t[2]))

Base(t) == IF Warm(t) THEN ClockOf(t).vtime ELSE Seed(t)

(* The cost and the weight are those of this enqueue.                      *)
NextStamp(t, cost, weight) == NextVStamp(Base(t), cost, weight)

(* The entry after a reserve that left the clock at v.                     *)
Leave(t, v) ==
    /\ clocks' = [clocks EXCEPT ![t] =
            [vtime |-> v, seeded |-> TRUE, everSeeded |-> TRUE,
             touched |-> TRUE, stale |-> FALSE]]
    /\ lwm' = LwmAtReserve(t)

-----------------------------------------------------------------------------

Enqueue(j, t, cost, weight, delay) ==
    /\ StampFits(Base(t), cost, weight)
    /\ Db!InsertOne(j, t[1], t[2], NextStamp(t, cost, weight), delay)
    /\ Leave(t, NextStamp(t, cost, weight))

(* The stamp overflows, the id is a duplicate or the insert fails.         *)
EnqueueFails(t) == Leave(t, Base(t)) /\ UNCHANGED jobs

(* A query of the seed fails; the frontier may have been refreshed by then.*)
SeedFails(t) ==
    /\ ~Warm(t)
    /\ clocks' = [clocks EXCEPT ![t] =
            [ClockOf(t) EXCEPT !.touched = TRUE, !.stale = FALSE, !.seeded = FALSE]]
    /\ lwm' \in {lwm, LwmAtReserve(t)}
    /\ UNCHANGED jobs

(* Mutation: a walk that evicts what is unused and marks nothing stale.    *)
WalkedUnmarked(clock) ==
    IF clock = NoClock \/ ~clock.touched THEN NoClock
    ELSE [clock EXCEPT !.touched = FALSE]

(* The walk: used since the last one, or not.                              *)
Walked(clock) ==
    IF clock = NoClock \/ ~clock.touched THEN NoClock
    ELSE [clock EXCEPT !.touched = FALSE, !.stale = TRUE]

CachedOn(n, cached) ==
    {t[2] : t \in {u \in Timeline : Home[u[1]] = n /\ cached[u] # NoClock}}

(* Reconcile: the cached partitions but those in failed are refreshed,     *)
(* then every entry is walked and unused frontiers are pruned.             *)
Reconcile(n, failed) ==
    /\ failed \subseteq CachedOn(n, clocks)
    /\ clocks' = [t \in Timeline |->
            IF Home[t[1]] = n THEN Walked(clocks[t]) ELSE clocks[t]]
    /\ LET fresh == Refreshed(n, CachedOn(n, clocks) \ failed) IN
       lwm' = [lwm EXCEPT ![n] = [p \in Partition |->
            IF p \in CachedOn(n, clocks') THEN fresh[p] ELSE NoLWM]]
    /\ UNCHANGED jobs

(* A node's process is replaced: New over the same collection.             *)
Restart(n) ==
    /\ clocks' = [t \in Timeline |-> IF Home[t[1]] = n THEN NoClock ELSE clocks[t]]
    /\ lwm' = [lwm EXCEPT ![n] = NothingStored]
    /\ UNCHANGED jobs

StoreStep == Db!StoreStep /\ UNCHANGED << clocks, lwm >>

Next ==
    \/ \E t \in Timeline :
        \/ \E j \in JobId, cost \in Cost, weight \in Weight, d \in Duration :
                Enqueue(j, t, cost, weight, d)
        \/ EnqueueFails(t)
        \/ SeedFails(t)
    \/ \E n \in Node :
        \/ \E failed \in SUBSET Partition : Reconcile(n, failed)
        \/ Restart(n)
    \/ StoreStep

Spec == Init /\ [][Next]_vars

-----------------------------------------------------------------------------

DispatchTypeOK ==
    /\ Db!StoreTypeOK
    /\ clocks \in [Timeline -> Clock \cup {NoClock}]
    /\ lwm \in [Node -> [Partition -> 0 .. MaxInt \cup {NoLWM}]]
=============================================================================
