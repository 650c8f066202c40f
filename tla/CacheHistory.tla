---------------------------- MODULE CacheHistory ----------------------------
(***************************************************************************)
(* VTimeCache with history variables that tell which seeds and which       *)
(* reserves are newer than the last reconcile.  They are only assigned and *)
(* occur in no guard.                                                      *)
(***************************************************************************)
EXTENDS VTimeCache

VARIABLES
    reseeded,       \* entries seeded by a reserve that checked stale since
                    \* a reconcile was last done refreshing
    early,          \* reserves that checked stale before that
    late            \* reserves that took their entry lock since, no walk
                    \* being under way

watchedVars == << tenants, entry, mu, lwm, pc, key, ref, val, todo,
                  reseeded, early, late >>

WatchedInit ==
    /\ CacheInit
    /\ reseeded = {}
    /\ early = {}
    /\ late = {}

RefreshPC == {"refresh", "frontier", "store"}

(* A call of Reconcile has no partition left to refresh, or gives up on    *)
(* the rest (queue.go:381-394): whatever comes after, a walk is due.       *)
RefreshesEnd == \E r \in Reconciler : pc[r] \in RefreshPC /\ pc'[r] \notin RefreshPC

Moved(from, to) == {e \in Enqueuer : pc[e] = from /\ pc'[e] = to}
Returned == {e \in Enqueuer : pc[e] # "idle" /\ pc'[e] = "idle"}

(* Entries the map gains or loses in this step.                            *)
Remapped ==
    {r \in Ref : \E t \in Timeline :
        (tenants[t] = r) # (tenants'[t] = r)}

WatchWalks ==
    IF RefreshesEnd
    THEN /\ reseeded' = {}
         /\ early' = {e \in Enqueuer :
                        Critical(e) /\ pc[e] \notin {"touch", "swap"}}
         /\ late' = {}
    ELSE /\ reseeded' = (reseeded \ Remapped)
                          \cup {ref[e] : e \in Moved("set", "stamp") \ early}
         /\ early' = early \ Returned
         /\ late' = (late \ Returned)
                      \cup (IF Walking THEN {} ELSE Moved("lock", "touch"))

WatchedNext == CacheNext /\ WatchWalks

WatchedSpec == WatchedInit /\ [][WatchedNext]_watchedVars

-----------------------------------------------------------------------------

(* After a reconcile, one that failed or was cut short included, every     *)
(* clock re-reads its position from the database before it stamps again:   *)
(* an enqueue that took its lock after the walk uses an entry seeded since *)
(* the refreshes, whether the walk found the entry used, idle, busy or     *)
(* half-way into a reserve (queue.go:363-365, queue.go:372-374,            *)
(* vtimecache.go:17-24).                                                   *)
ReseedAfterWalk ==
    \A e \in late :
        pc[e] \in {"stamp", "insert", "commit", "abort"} => ref[e] \in reseeded
=============================================================================
