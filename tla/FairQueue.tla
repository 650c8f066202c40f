----------------------------- MODULE FairQueue -----------------------------
(***************************************************************************)
(* The whole queue of one node: the virtual-time cache over the job store. *)
(* The cache's hooks become the primary reads of queue.go, its inserts     *)
(* write the store, and workers and cancelers move jobs underneath.        *)
(*                                                                         *)
(* Handles, promises and stale fences are in Leases.  Here a lease         *)
(* operation is taken only when its fence matches, by whoever holds it,    *)
(* and ClaimId may have a single member: fairness only reads whether a job *)
(* carries a fence.                                                        *)
(***************************************************************************)
EXTENDS VTimeCache, FiniteSetsExt

CONSTANTS
    JobId, ClaimId, Resolution, Duration, NsPerMs, MaxAttempts,
    Absent, NoClaim, NoResolution, Canceled     \* as in JobStore

VARIABLES
    jobs,           \* the collection, as in JobStore
    fallback        \* computeLWM found no fenced job and reads pending ones next

vars == << tenants, entry, mu, lwm, pc, key, ref, val, todo, jobs, fallback >>

Db == INSTANCE QueueStore WITH VStamp <- 0 .. MaxInt

(* The store's own assumptions, for the constants declared here.           *)
ASSUME QueueAssumption ==
    /\ JobId \subseteq Nat
    /\ Duration \subseteq Nat
    /\ NsPerMs \in Nat \ {0}
    /\ MaxAttempts \in Nat
    /\ NoClaim \notin ClaimId
    /\ Canceled \in Resolution
    /\ NoResolution \notin Resolution
    /\ Absent \notin Db!Job

-----------------------------------------------------------------------------
(* The cache's steps that only touch the cache.                            *)

CacheStep ==
    /\ \/ \E e \in Enqueuer : (\E t \in Timeline : Begin(e, t)) \/ EnqueueStep(e)
       \/ \E r \in Reconciler : Reconcile(r) \/ ReconcileStep(r)
    /\ UNCHANGED << jobs, fallback >>

(* computeLWM, first query: the highest fenced stamp, if there is one.     *)
ClockQuery(x) ==
    LET fenced == Db!Fenced(PartitionOf(key[x])) IN
    /\ pc[x] = "frontier"
    /\ ~fallback[x]
    /\ IF fenced # {}
       THEN FrontierFound(x, Max(Db!Stamps(fenced))) /\ UNCHANGED fallback
       ELSE fallback' = [fallback EXCEPT ![x] = TRUE] /\ UNCHANGED cacheVars
    /\ UNCHANGED jobs

(* Second query, only when the first found nothing: the lowest pending one.*)
FallbackQuery(x) ==
    LET pending == Db!PendingIn(PartitionOf(key[x])) IN
    /\ fallback[x]
    /\ IF pending # {} THEN FrontierFound(x, Min(Db!Stamps(pending)))
                       ELSE FrontierNone(x)
    /\ fallback' = [fallback EXCEPT ![x] = FALSE]
    /\ UNCHANGED jobs

FrontierQueryFails(x) ==
    /\ IF x \in Enqueuer THEN FrontierFails(x) ELSE RefreshFails(x)
    /\ fallback' = [fallback EXCEPT ![x] = FALSE]
    /\ UNCHANGED jobs

EdgeQuery(e) ==
    /\ EdgeRead(e, Db!Edge(key[e]))
    /\ UNCHANGED << jobs, fallback >>

EdgeQueryFails(e) == EdgeFails(e) /\ UNCHANGED << jobs, fallback >>

-----------------------------------------------------------------------------
(* The insert, under the entry lock.                                       *)

InsertApplied(e, j, delay) ==
    /\ Inserted(e, TRUE)
    /\ Db!InsertOne(j, key[e][1], key[e][2], val[e], delay)
    /\ UNCHANGED fallback

(* A duplicate key, or an error before the server wrote anything.          *)
InsertFailed(e) == Inserted(e, FALSE) /\ UNCHANGED << jobs, fallback >>

(* A timeout or network error after the server wrote the job; a step of    *)
(* UnknownNext only.                                                       *)
InsertUnknown(e, j, delay) ==
    /\ Inserted(e, FALSE)
    /\ Db!InsertOne(j, key[e][1], key[e][2], val[e], delay)
    /\ UNCHANGED fallback

-----------------------------------------------------------------------------
(* Workers, cancelers, the TTL monitor and the clock.                      *)

StoreStep ==
    /\ Db!StoreStep
    /\ UNCHANGED << cacheVars, fallback >>

(* The process dies and a new one opens the queue over the same store: the *)
(* cache is soft state and starts empty.                                   *)
Restart ==
    /\ CacheRestart
    /\ fallback' = [x \in Proc |-> FALSE]
    /\ UNCHANGED jobs

-----------------------------------------------------------------------------

Init ==
    /\ CacheInit
    /\ Db!StoreInit
    /\ fallback = [x \in Proc |-> FALSE]

(* The steps of one process and of the clients of its collection.          *)
Step ==
    \/ CacheStep
    \/ \E x \in Proc : ClockQuery(x) \/ FallbackQuery(x) \/ FrontierQueryFails(x)
    \/ \E e \in Enqueuer :
        \/ EdgeQuery(e) \/ EdgeQueryFails(e) \/ InsertFailed(e)
        \/ \E j \in JobId, d \in Duration : InsertApplied(e, j, d)
    \/ StoreStep

Next == Step \/ Restart

Spec == Init /\ [][Next]_vars

(* With the outcome of an insert unknown to its caller as well.            *)
UnknownNext ==
    \/ Next
    \/ \E e \in Enqueuer, j \in JobId, d \in Duration : InsertUnknown(e, j, d)

UnknownSpec == Init /\ [][UnknownNext]_vars

OnCache(A) == A /\ UNCHANGED << jobs, fallback >>

(* Reconcile is called again and again (queue.go:346) and proceeds, its    *)
(* walk being pure computation once it has mu; though calls may fail or be *)
(* cut short, none of its queries does so for ever (queue.go:372-374).     *)
(* Nothing is assumed of enqueues: one may hang, holding its entry lock    *)
(* and a frontier it has read, and go on at any later time, or never.      *)
ReconcileFairSpec ==
    /\ Spec
    /\ \A r \in Reconciler :
        /\ WF_vars(OnCache(Reconcile(r) \/ ReconcileStep(r)))
        /\ \A p \in Partition : SF_vars(OnCache(Refresh(r, p)))
        /\ SF_vars(ClockQuery(r))
        /\ SF_vars(FallbackQuery(r))

-----------------------------------------------------------------------------

(* A new stamp exceeds every pending stamp on its timeline, through        *)
(* evictions, re-seeds, cancellations, failed inserts and restarts         *)
(* (docs/fair-job-queue-design.md:788).                                    *)
TimelineOrder ==
    [][\A j \in JobId : jobs[j] = Absent /\ jobs'[j] # Absent =>
        \A i \in Db!TimelineJobs(<< jobs'[j].tenant, jobs'[j].partition >>) :
            jobs[i].vstamp < jobs'[j].vstamp]_vars

(* Late, torn and reordered refreshes heal: once the collection stays as   *)
(* it is, the stored frontier of a partition becomes and remains its       *)
(* frontier, whether that is above or below what was stored before         *)
(* (vtimecache.go:116-122).                                                *)
StoredFrontierConverges ==
    <>[][UNCHANGED jobs]_vars =>
        \A p \in Partition :
            <>[](\/ lwm[p] = NoLWM
                \/ Db!Frontier(p) = {}
                \/ lwm[p] \in Db!Frontier(p))
=============================================================================
