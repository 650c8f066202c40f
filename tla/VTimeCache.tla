----------------------------- MODULE VTimeCache -----------------------------
(***************************************************************************)
(* The node-local virtual-time cache (vtimecache.go) under concurrent      *)
(* enqueues and reconciles of one Queue, at the grain of its locks and     *)
(* atomics: a section under mu or lwmMu, an entry lock, an atomic load or  *)
(* store and a database round trip are one step each.                      *)
(*                                                                         *)
(* The database is seen through its answers: the frontier and the trailing *)
(* edge that the hooks return and the outcome of the insert.  Alone, the   *)
(* module lets them be anything (HookStamp); FairQueue supplies the real   *)
(* queries.                                                                *)
(***************************************************************************)
EXTENDS VTime, FiniteSets

CONSTANTS
    Tenant,
    Partition,
    Ref,            \* addresses of cache entries
    Enqueuer,       \* goroutines calling enqueue
    Reconciler,     \* goroutines calling Reconcile
    Cost,           \* normalized costs and weights of enqueues
    Weight,
    HookStamp       \* the stamps a hook may return

CONSTANTS
    NoRef,          \* no entry under this key
    NoLWM,          \* no frontier stored: reads as 0
    Free            \* an unlocked mutex

Proc == Enqueuer \cup Reconciler
Timeline == Tenant \X Partition
PartitionOf(t) == t[2]

ASSUME CacheAssumption ==
    /\ Timeline # {}
    /\ Ref \subseteq Nat
    /\ NoRef \notin Ref
    /\ Free \notin Proc
    /\ Enqueuer \cap Reconciler = {}
    /\ Cost \subseteq 1 .. MaxInt
    /\ Weight \subseteq 1 .. MaxInt
    /\ HookStamp \subseteq 0 .. MaxInt
    /\ NoLWM \notin 0 .. MaxInt

VARIABLES
    tenants,        \* the map: timeline -> entry or NoRef
    entry,          \* the entries: tenantVtime, and the holder of its mu
    mu,             \* the holder of the global lock, when held across steps
    lwm,            \* partition -> last stored frontier or NoLWM
    pc,             \* where each goroutine is
    key,            \* timeline an enqueue works on, or a walk is looking at
    ref,            \* entry an enqueue found in the map
    val,            \* the stamp a goroutine carries to its next step
    todo            \* what a reconcile has left: partitions, then timelines

cacheVars == << tenants, entry, mu, lwm, pc, key, ref, val, todo >>

EnqueuePC == {"idle", "lookup", "lock", "touch", "swap", "frontier", "store",
              "edge", "set", "stamp", "insert", "commit", "abort"}
ReconcilePC == {"idle", "refresh", "frontier", "store", "walk", "mark", "try"}

NewEntry ==
    [vtime |-> 0, seeded |-> FALSE, everSeeded |-> FALSE, evicted |-> FALSE,
     touched |-> FALSE, stale |-> FALSE, holder |-> Free]

SomeTimeline == CHOOSE t \in Timeline : TRUE

CacheInit ==
    /\ tenants = [t \in Timeline |-> NoRef]
    /\ entry = [r \in Ref |-> NewEntry]
    /\ mu = Free
    /\ lwm = [p \in Partition |-> NoLWM]
    /\ pc = [x \in Proc |-> "idle"]
    /\ key = [x \in Proc |-> SomeTimeline]
    /\ ref = [e \in Enqueuer |-> NoRef]
    /\ val = [x \in Proc |-> 0]
    /\ todo = [r \in Reconciler |-> {}]

(* A new process: newVtimeCache, and none of the old goroutines.           *)
CacheRestart ==
    /\ tenants' = [t \in Timeline |-> NoRef]
    /\ entry' = [r \in Ref |-> NewEntry]
    /\ mu' = Free
    /\ lwm' = [p \in Partition |-> NoLWM]
    /\ pc' = [x \in Proc |-> "idle"]
    /\ key' = [x \in Proc |-> SomeTimeline]
    /\ ref' = [e \in Enqueuer |-> NoRef]
    /\ val' = [x \in Proc |-> 0]
    /\ todo' = [r \in Reconciler |-> {}]

Goto(x, label) == pc' = [pc EXCEPT ![x] = label]

(* From holding the entry lock (reserve) until Commit, Abort or an error.  *)
CriticalPC == EnqueuePC \ {"idle", "lookup", "lock"}
Critical(e) == pc[e] \in CriticalPC

Cached == {t \in Timeline : tenants[t] # NoRef}
CachedPartitions == {PartitionOf(t) : t \in Cached}

-----------------------------------------------------------------------------
(* enqueue, reserve and lockTimeline.                                      *)

Begin(e, t) ==
    /\ pc[e] = "idle"
    /\ key' = [key EXCEPT ![e] = t]
    /\ Goto(e, "lookup")
    /\ UNCHANGED << tenants, entry, mu, lwm, ref, val, todo >>

(* An address no live pointer holds; which one is the allocator's affair.  *)
Unreachable(r) ==
    /\ \A t \in Timeline : tenants[t] # r
    /\ \A e \in Enqueuer : ref[e] # r

(* The section under mu: find the entry or create it.                      *)
Lookup(e) ==
    /\ pc[e] = "lookup"
    /\ mu = Free
    /\ IF tenants[key[e]] # NoRef
       THEN /\ ref' = [ref EXCEPT ![e] = tenants[key[e]]]
            /\ UNCHANGED << tenants, entry >>
       ELSE \E r \in Ref :
            /\ Unreachable(r)
            /\ \A s \in Ref : Unreachable(s) => r <= s
            /\ tenants' = [tenants EXCEPT ![key[e]] = r]
            /\ entry' = [entry EXCEPT ![r] = NewEntry]
            /\ ref' = [ref EXCEPT ![e] = r]
    /\ Goto(e, "lock")
    /\ UNCHANGED << mu, lwm, key, val, todo >>

Walking == mu # Free

(* Mutation: an entry evicted since the lookup is used all the same.       *)
EnterableAnyway(r) == TRUE

(* The recheck of lockTimeline: an evicted entry is not to be used.        *)
Enterable(r) == ~entry[r].evicted

Lock(e) ==
    /\ pc[e] = "lock"
    /\ entry[ref[e]].holder = Free
    /\ Enterable(ref[e])
    /\ entry' = [entry EXCEPT ![ref[e]].holder = e]
    /\ Goto(e, "touch")
    /\ UNCHANGED << tenants, mu, lwm, key, ref, val, todo >>

(* Evicted between the lookup and the lock: unlock and look up again.      *)
LockEvicted(e) ==
    /\ pc[e] = "lock"
    /\ entry[ref[e]].holder = Free
    /\ ~Enterable(ref[e])
    /\ ref' = [ref EXCEPT ![e] = NoRef]
    /\ Goto(e, "lookup")
    /\ UNCHANGED << tenants, entry, mu, lwm, key, val, todo >>

Touch(e) ==
    /\ pc[e] = "touch"
    /\ entry' = [entry EXCEPT ![ref[e]].touched = TRUE]
    /\ Goto(e, "swap")
    /\ UNCHANGED << tenants, mu, lwm, key, ref, val, todo >>

(* Mutation: the swap clears the mark and a seeded entry stays seeded.     *)
SwapSeeded(e) ==
    LET t == entry[ref[e]] IN
    /\ pc[e] = "swap"
    /\ entry' = [entry EXCEPT ![ref[e]].stale = FALSE]
    /\ Goto(e, IF t.seeded THEN "stamp"
               ELSE IF t.everSeeded THEN "edge" ELSE "frontier")
    /\ UNCHANGED << tenants, mu, lwm, key, ref, val, todo >>

(* stale.Swap(false); a stale or new entry goes through the seed, and only *)
(* a cold one refreshes the frontier first.                                *)
Swap(e) ==
    LET t == entry[ref[e]] IN
    /\ pc[e] = "swap"
    /\ entry' = [entry EXCEPT ![ref[e]].stale = FALSE,
                              ![ref[e]].seeded = @ /\ ~t.stale]
    /\ Goto(e, IF t.seeded /\ ~t.stale THEN "stamp"
               ELSE IF t.everSeeded THEN "edge" ELSE "frontier")
    /\ UNCHANGED << tenants, mu, lwm, key, ref, val, todo >>

-----------------------------------------------------------------------------
(* Leaving the entry lock, for whatever reason.                            *)

Leave(e, t) ==
    /\ entry' = [entry EXCEPT ![ref[e]] = [t EXCEPT !.holder = Free]]
    /\ ref' = [ref EXCEPT ![e] = NoRef]
    /\ val' = [val EXCEPT ![e] = 0]
    /\ key' = [key EXCEPT ![e] = SomeTimeline]
    /\ Goto(e, "idle")
    /\ UNCHANGED << tenants, mu, lwm, todo >>

-----------------------------------------------------------------------------
(* refreshLWM, by a cold seed or by a reconcile.                           *)

(* The hook returned frontier v.                                           *)
FrontierFound(x, v) ==
    /\ pc[x] = "frontier"
    /\ val' = [val EXCEPT ![x] = v]
    /\ Goto(x, "store")
    /\ UNCHANGED << tenants, entry, mu, lwm, key, ref, todo >>

AfterRefresh(x) == IF x \in Enqueuer THEN "edge" ELSE "refresh"

(* The hook found no frontier: the stored one stays.                       *)
FrontierNone(x) ==
    /\ pc[x] = "frontier"
    /\ Goto(x, AfterRefresh(x))
    /\ UNCHANGED << tenants, entry, mu, lwm, key, ref, val, todo >>

(* Mutation: the stored frontier is a running maximum.                     *)
StoreMaximum(x) ==
    /\ pc[x] = "store"
    /\ lwm' = [lwm EXCEPT ![PartitionOf(key[x])] =
                    IF @ = NoLWM THEN val[x] ELSE Larger(@, val[x])]
    /\ val' = [val EXCEPT ![x] = 0]
    /\ Goto(x, AfterRefresh(x))
    /\ UNCHANGED << tenants, entry, mu, key, ref, todo >>

(* The section under lwmMu: a plain overwrite, however old v has become.   *)
Store(x) ==
    /\ pc[x] = "store"
    /\ lwm' = [lwm EXCEPT ![PartitionOf(key[x])] = val[x]]
    /\ val' = [val EXCEPT ![x] = 0]
    /\ Goto(x, AfterRefresh(x))
    /\ UNCHANGED << tenants, entry, mu, key, ref, todo >>

(* A failed hook fails the reserve; the entry stays as it is, unseeded.    *)
FrontierFails(e) == pc[e] = "frontier" /\ Leave(e, entry[ref[e]])
EdgeFails(e) == pc[e] = "edge" /\ Leave(e, entry[ref[e]])

-----------------------------------------------------------------------------
(* seed, and the stamp.                                                    *)

EdgeRead(e, v) ==
    /\ pc[e] = "edge"
    /\ val' = [val EXCEPT ![e] = v]
    /\ Goto(e, "set")
    /\ UNCHANGED << tenants, entry, mu, lwm, key, ref, todo >>

LwmFor(p) == IF lwm[p] = NoLWM THEN 0 ELSE lwm[p]

SeedSet(e) ==
    /\ pc[e] = "set"
    /\ entry' = [entry EXCEPT
                    ![ref[e]].vtime = Larger(val[e], LwmFor(PartitionOf(key[e]))),
                    ![ref[e]].seeded = TRUE,
                    ![ref[e]].everSeeded = TRUE]
    /\ val' = [val EXCEPT ![e] = 0]
    /\ Goto(e, "stamp")
    /\ UNCHANGED << tenants, mu, lwm, key, ref, todo >>

Stamp(e, cost, weight) ==
    /\ pc[e] = "stamp"
    /\ StampFits(entry[ref[e]].vtime, cost, weight)
    /\ val' = [val EXCEPT ![e] = NextVStamp(entry[ref[e]].vtime, cost, weight)]
    /\ Goto(e, "insert")
    /\ UNCHANGED << tenants, entry, mu, lwm, key, ref, todo >>

(* Mutation: the overflow path of reserve forgets to unlock the entry.     *)
OverflowLocked(e, cost, weight) ==
    /\ pc[e] = "stamp"
    /\ ~StampFits(entry[ref[e]].vtime, cost, weight)
    /\ Goto(e, "idle")
    /\ UNCHANGED << tenants, entry, mu, lwm, key, ref, val, todo >>

Overflow(e, cost, weight) ==
    /\ pc[e] = "stamp"
    /\ ~StampFits(entry[ref[e]].vtime, cost, weight)
    /\ Leave(e, entry[ref[e]])

(* InsertOne returned: nil leads to Commit, an error (or a panic) to Abort.*)
Inserted(e, ok) ==
    /\ pc[e] = "insert"
    /\ Goto(e, IF ok THEN "commit" ELSE "abort")
    /\ UNCHANGED << tenants, entry, mu, lwm, key, ref, val, todo >>

Commit(e) ==
    /\ pc[e] = "commit"
    /\ Leave(e, [entry[ref[e]] EXCEPT !.vtime = val[e]])

Abort(e) == pc[e] = "abort" /\ Leave(e, entry[ref[e]])

-----------------------------------------------------------------------------
(* Reconcile and invalidateAndEvict.                                       *)

(* partitions(): a snapshot under mu.                                      *)
Reconcile(r) ==
    /\ pc[r] = "idle"
    /\ mu = Free
    /\ todo' = [todo EXCEPT ![r] = CachedPartitions]
    /\ Goto(r, "refresh")
    /\ UNCHANGED << tenants, entry, mu, lwm, key, ref, val >>

Refresh(r, p) ==
    /\ pc[r] = "refresh"
    /\ p \in todo[r]
    /\ todo' = [todo EXCEPT ![r] = @ \ {p}]
    /\ key' = [key EXCEPT ![r] = CHOOSE t \in Timeline : PartitionOf(t) = p]
    /\ Goto(r, "frontier")
    /\ UNCHANGED << tenants, entry, mu, lwm, ref, val >>

(* Mutation: a failed refresh ends the call before its walk.               *)
RefreshFailsReturns(r) ==
    /\ pc[r] = "frontier"
    /\ Goto(r, "idle")
    /\ UNCHANGED << tenants, entry, mu, lwm, key, ref, val, todo >>

(* A failed refresh is reported at the end; the next partition proceeds.   *)
RefreshFails(r) ==
    /\ pc[r] = "frontier"
    /\ Goto(r, "refresh")
    /\ UNCHANGED << tenants, entry, mu, lwm, key, ref, val, todo >>

(* The walk begins when no partition is left, or early when the context is *)
(* canceled, and takes mu.                                                 *)
WalkBegin(r) ==
    /\ pc[r] = "refresh"
    /\ mu = Free
    /\ mu' = r
    /\ todo' = [todo EXCEPT ![r] = Cached]
    /\ Goto(r, "walk")
    /\ UNCHANGED << tenants, entry, lwm, key, ref, val >>

(* Mutation: the walk reads touched and does not clear it.                 *)
WalkLoad(r, t) ==
    /\ pc[r] = "walk"
    /\ t \in todo[r]
    /\ todo' = [todo EXCEPT ![r] = @ \ {t}]
    /\ key' = [key EXCEPT ![r] = t]
    /\ Goto(r, IF entry[tenants[t]].touched THEN "mark" ELSE "try")
    /\ UNCHANGED << tenants, entry, mu, lwm, ref, val >>

(* touched.Swap(false) decides: used since the last walk, or not.          *)
WalkSwap(r, t) ==
    /\ pc[r] = "walk"
    /\ t \in todo[r]
    /\ todo' = [todo EXCEPT ![r] = @ \ {t}]
    /\ key' = [key EXCEPT ![r] = t]
    /\ entry' = [entry EXCEPT ![tenants[t]].touched = FALSE]
    /\ Goto(r, IF entry[tenants[t]].touched THEN "mark" ELSE "try")
    /\ UNCHANGED << tenants, mu, lwm, ref, val >>

WalkMark(r) ==
    /\ pc[r] = "mark"
    /\ entry' = [entry EXCEPT ![tenants[key[r]]].stale = TRUE]
    /\ Goto(r, "walk")
    /\ UNCHANGED << tenants, mu, lwm, key, ref, val, todo >>

(* TryLock fails while the lock is held; sync.Mutex lets it also fail when *)
(* a waiter is about to be handed the lock.                                *)
MayFailTryLock(s) ==
    \/ entry[s].holder # Free
    \/ \E e \in Enqueuer : pc[e] = "lock" /\ ref[e] = s

(* Mutations: the walk skips a busy entry, or waits for it.                *)
WalkSkipBusy(r) ==
    /\ pc[r] = "try"
    /\ MayFailTryLock(tenants[key[r]])
    /\ Goto(r, "walk")
    /\ UNCHANGED << tenants, entry, mu, lwm, key, ref, val, todo >>
WalkAwaitBusy(r) == FALSE

WalkBusy(r) ==
    /\ pc[r] = "try"
    /\ MayFailTryLock(tenants[key[r]])
    /\ Goto(r, "mark")
    /\ UNCHANGED << tenants, entry, mu, lwm, key, ref, val, todo >>

(* Nothing but evicted is read of an entry once it is set, so the rest is  *)
(* blanked here: it only tells states apart that behave alike.             *)
WalkEvict(r) ==
    LET s == tenants[key[r]] IN
    /\ pc[r] = "try"
    /\ entry[s].holder = Free
    /\ entry' = [entry EXCEPT ![s] = [NewEntry EXCEPT !.evicted = TRUE]]
    /\ tenants' = [tenants EXCEPT ![key[r]] = NoRef]
    /\ Goto(r, "walk")
    /\ UNCHANGED << mu, lwm, key, ref, val, todo >>

(* Mutation: entries marked stale do not count as cached.                  *)
PrunableStale(p) ==
    p \notin {PartitionOf(t) : t \in {u \in Cached : ~entry[tenants[u]].stale}}

(* A frontier is pruned when its partition has no cached entry.            *)
Prunable(p) == p \notin CachedPartitions

WalkEnd(r) ==
    /\ pc[r] = "walk"
    /\ todo[r] = {}
    /\ lwm' = [p \in Partition |-> IF Prunable(p) THEN NoLWM ELSE lwm[p]]
    /\ mu' = Free
    /\ key' = [key EXCEPT ![r] = SomeTimeline]
    /\ Goto(r, "idle")
    /\ UNCHANGED << tenants, entry, ref, val, todo >>

-----------------------------------------------------------------------------

(* The steps of an enqueue that has begun, given the database's answers.   *)
EnqueueStep(e) ==
    \/ Lookup(e) \/ Lock(e) \/ LockEvicted(e) \/ Touch(e) \/ Swap(e)
    \/ Store(e) \/ SeedSet(e) \/ Commit(e) \/ Abort(e)
    \/ \E c \in Cost, w \in Weight : Stamp(e, c, w) \/ Overflow(e, c, w)

EnqueueAnswer(e) ==
    \/ \E v \in HookStamp : FrontierFound(e, v) \/ EdgeRead(e, v)
    \/ FrontierNone(e) \/ FrontierFails(e) \/ EdgeFails(e)
    \/ \E ok \in BOOLEAN : Inserted(e, ok)

WalkStep(r) ==
    \/ \E t \in Timeline : WalkSwap(r, t)
    \/ WalkMark(r) \/ WalkBusy(r) \/ WalkEvict(r) \/ WalkEnd(r)

ReconcileStep(r) ==
    \/ \E p \in Partition : Refresh(r, p)
    \/ Store(r)
    \/ WalkBegin(r)
    \/ WalkStep(r)

ReconcileAnswer(r) ==
    \/ \E v \in HookStamp : FrontierFound(r, v)
    \/ FrontierNone(r) \/ RefreshFails(r)

CacheNext ==
    \/ \E e \in Enqueuer :
        (\E t \in Timeline : Begin(e, t)) \/ EnqueueStep(e) \/ EnqueueAnswer(e)
    \/ \E r \in Reconciler :
        Reconcile(r) \/ ReconcileStep(r) \/ ReconcileAnswer(r)

CacheSpec == CacheInit /\ [][CacheNext]_cacheVars

(* Reconcile is called again and again (queue.go:346) and proceeds: its    *)
(* refreshes are answered, well or not, and its walk is pure computation.  *)
(* Nothing is assumed of enqueues: one may hang, holding its entry lock,   *)
(* and go on at any later time, or never.                                  *)
CacheFairSpec ==
    /\ CacheSpec
    /\ \A r \in Reconciler :
        /\ WF_cacheVars(Reconcile(r) \/ ReconcileStep(r))
        /\ WF_cacheVars(ReconcileAnswer(r))

(* Goroutines run, the database answers or the context ends (enqueue.go:118*)
(* asks for a deadline), and a sync.Mutex does not starve a waiter.        *)
EnqueuesProceed ==
    \A e \in Enqueuer : /\ WF_cacheVars(EnqueueStep(e))
                        /\ WF_cacheVars(EnqueueAnswer(e))
                        /\ SF_cacheVars(Lookup(e))
                        /\ SF_cacheVars(Lock(e))

-----------------------------------------------------------------------------

Entry ==
    [vtime : 0 .. MaxInt, seeded : BOOLEAN, everSeeded : BOOLEAN,
     evicted : BOOLEAN, touched : BOOLEAN, stale : BOOLEAN,
     holder : Enqueuer \cup {Free}]

CacheTypeOK ==
    /\ tenants \in [Timeline -> Ref \cup {NoRef}]
    /\ entry \in [Ref -> Entry]
    /\ mu \in Reconciler \cup {Free}
    /\ lwm \in [Partition -> 0 .. MaxInt \cup {NoLWM}]
    /\ pc \in [Proc -> EnqueuePC \cup ReconcilePC]
    /\ \A e \in Enqueuer : pc[e] \in EnqueuePC
    /\ \A r \in Reconciler : pc[r] \in ReconcilePC
    /\ key \in [Proc -> Timeline]
    /\ ref \in [Enqueuer -> Ref \cup {NoRef}]
    /\ val \in [Proc -> 0 .. MaxInt]
    /\ todo \in [Reconciler -> SUBSET (Timeline \cup Partition)]
    /\ \A r \in Reconciler :
          todo[r] \subseteq (IF pc[r] \in {"walk", "mark", "try"}
                            THEN Timeline ELSE Partition)

(* From the stale check to the commit, one timeline has one writer in this *)
(* process, through any interleaving of evictions and re-creations of its  *)
(* entry (vtimecache.go:26-34, 233-237).                                   *)
OneWriter ==
    \A e, f \in Enqueuer :
        Critical(e) /\ Critical(f) /\ key[e] = key[f] => e = f

(* A walk never drops the frontier of a partition while a reserve there is *)
(* between the refresh that stored it and the seed that uses it            *)
(* (vtimecache.go:73-78, 287-293).                                         *)
PruneSparesReserves ==
    [][\A p \in Partition : lwm[p] # NoLWM /\ lwm'[p] = NoLWM =>
        \A e \in Enqueuer : Critical(e) => PartitionOf(key[e]) # p]_cacheVars

(* "It never blocks on an entry lock" (vtimecache.go:261): a walk finishes *)
(* whatever enqueues do, even if they hold their entries for ever.         *)
WalkNeverBlocks ==
    \A r \in Reconciler : pc[r] \in {"walk", "mark", "try"} ~> pc[r] = "idle"

Quiet(t) == \A e \in Enqueuer : pc[e] = "idle" \/ key[e] # t

(* A timeline nobody enqueues on is eventually gone from memory, and stays *)
(* gone (queue.go:368-369).                                                *)
IdleIsEvicted ==
    \A t \in Timeline : <>[]Quiet(t) => <>[](tenants[t] = NoRef)

(* An enqueue returns, or, if walk after walk evicts the entry it has just *)
(* looked up, keeps looking it up.                                         *)
EnqueueReturns ==
    \A e \in Enqueuer :
        \/ []<>(pc[e] = "idle")
        \/ []<>(pc[e] = "lookup") /\ []<>(pc[e] = "lock")

(* No enqueue hangs as long as the others and the database do not: each    *)
(* returns, on success and on every error path, also when it waits for the *)
(* entry another enqueue holds.  No path keeps an entry lock               *)
(* (vtimecache.go:167-170, 192-210, enqueue.go:112-118).                   *)
EnqueuesReturn == EnqueuesProceed => EnqueueReturns
=============================================================================
