--------------------------- MODULE ForeignInserts ---------------------------
(***************************************************************************)
(* FairQueue where jobs also reach its timelines behind the cache's back:  *)
(* from another node writing the same timeline (queue.go:358-361), from a  *)
(* predecessor process that died with an insert on its way, or from an     *)
(* insert this process gave up at its deadline and the server applied      *)
(* later, after the entry lock was released (enqueue.go:152-157).  All the *)
(* cache can know of such a job is what its queries return, so it carries  *)
(* any stamp and comes at any moment.                                      *)
(*                                                                         *)
(* The history variables only watch.  A job is known to a reserve when it  *)
(* was acknowledged to an enqueue here, was stored before a walk that has  *)
(* ended, or was stored before the process started, all before the reserve *)
(* took its entry lock.                                                    *)
(***************************************************************************)
EXTENDS FairQueue

VARIABLES
    known,          \* the pending jobs a reserve starting now must respect
    seen,           \* reconciler -> pending jobs when its walk began
    must            \* enqueuer -> known when it took the entry lock

foreignVars == << vars, known, seen, must >>

PendingJobs == {j \in JobId : Db!Pending(j)}

(* Another writer stamped the job; strides are at least 1.                 *)
ForeignInsert(j, t, v, delay) ==
    /\ v > 0
    /\ Db!InsertOne(j, t[1], t[2], v, delay)
    /\ UNCHANGED << cacheVars, fallback >>

Acknowledged == {j \in JobId : jobs[j] = Absent /\ jobs'[j] # Absent}

Walked == UNION {seen[r] : r \in {q \in Reconciler : pc[q] = "walk" /\ pc'[q] = "idle"}}

Watch ==
    /\ known' = (known \cup Acknowledged \cup Walked) \cap PendingJobs'
    /\ seen' = [r \in Reconciler |->
                    IF pc'[r] \notin {"walk", "mark", "try"} THEN {}
                    ELSE IF mu # r THEN PendingJobs
                    ELSE seen[r] \cap PendingJobs']
    /\ must' = [e \in Enqueuer |->
                    IF ~Critical(e)' THEN {}
                    ELSE IF ~Critical(e) THEN known
                    ELSE must[e] \cap PendingJobs']

NoneSeen == [r \in Reconciler |-> {}]
NoneMust == [e \in Enqueuer |-> {}]

ForeignInit == Init /\ known = {} /\ seen = NoneSeen /\ must = NoneMust

ForeignNext ==
    \/ Step /\ Watch
    \/ Restart /\ known' = PendingJobs /\ seen' = NoneSeen /\ must' = NoneMust
    \/ /\ \E j \in JobId, t \in Timeline, v \in 0 .. MaxInt, d \in Duration :
             ForeignInsert(j, t, v, d)
       /\ UNCHANGED << known, seen, must >>

ForeignSpec == ForeignInit /\ [][ForeignNext]_foreignVars

(* However many jobs arrive unannounced, and whenever, an enqueue stamps   *)
(* its job after every pending job of the timeline that was acknowledged   *)
(* here, or stored before the last reconcile or restart: a double issue or *)
(* an overtaking lasts no longer than a reconcile interval                 *)
(* (queue.go:358-366, vtimecache.go:17-21).                                *)
KnownOrder ==
    [][\A e \in Enqueuer : pc[e] = "insert" /\ pc'[e] = "commit" =>
        \A i \in must[e] \cap Db!TimelineJobs(key[e]) :
            jobs[i].vstamp < val[e]]_foreignVars
=============================================================================
