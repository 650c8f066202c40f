----------------------------- MODULE FairShare -----------------------------
(***************************************************************************)
(* Weighted shares.  Dispatch without what the documentation says shifts   *)
(* them (canceling, releasing or letting lapse a claimed job, delaying     *)
(* one), with a retention longer than the behavior and no failed enqueue;  *)
(* and with a history of the service two tenants receive while both wait.  *)
(* Each enqueue has a cost and a weight of its own.                        *)
(*                                                                         *)
(* worth and window are only assigned and occur in no guard.               *)
(***************************************************************************)
EXTENDS Dispatch

VARIABLES
    worth,      \* job -> what it is worth to its tenant, in stamps
    window      \* [for, against] pair -> partition -> its history

shareVars == << vars, worth, window >>

Pair == {s \in Tenant \X Tenant : s[1] # s[2]}

(* The cost of a job over its weight, and one stamp at least               *)
(* (vtime.go:29-37).                                                       *)
Worth(cost, weight) == Larger(1, (cost * Scale) \div weight)

(* Enqueued, visible and not yet dispatched.                               *)
Waiting(t, p) ==
    {j \in Db!TimelineJobs(<< t, p >>) : jobs[j].claim_id = NoClaim /\ jobs[j].visible_in = 0}

Head(t, p) == CHOOSE j \in Waiting(t, p) : jobs[j].vstamp = Min(Db!Stamps(Waiting(t, p)))

(* Waiting, with no stamp left from a time before the service clock.       *)
InLine(t, p) ==
    /\ Waiting(t, p) # {}
    /\ \A v \in Db!Frontier(p) : v <= jobs[Head(t, p)].vstamp

(* A job ends at its stamp and begins its worth before that.               *)
StartOf(j) == jobs[j].vstamp - worth[j]

(* Where the line of t stands.                                             *)
Start(t, p) == StartOf(Head(t, p))

Closed == [open |-> FALSE, lead |-> 0, ahead |-> 0]

(* The jobs dispatched in this step, one at most.                          *)
Served(t, p) == {j \in Waiting(t, p) : jobs'[j].claim_id # NoClaim}

Service(t, p) ==
    IF Served(t, p) = {} THEN 0 ELSE worth[CHOOSE j \in Served(t, p) : TRUE]

WatchShares ==
    window' = [s \in Pair |-> [p \in Partition |->
        IF ~(InLine(s[1], p)' /\ InLine(s[2], p)') THEN Closed
        ELSE IF ~window[s][p].open
             THEN [open |-> TRUE, ahead |-> 0,
                   lead |-> Larger(0, Start(s[2], p)' - Start(s[1], p)')]
             ELSE [window[s][p] EXCEPT
                    !.ahead = @ + Service(s[1], p) - Service(s[2], p)]]]

ShareInit ==
    /\ Init
    /\ worth = [j \in JobId |-> 0]
    /\ window = [s \in Pair |-> [p \in Partition |-> Closed]]

LowestUnused == {j \in JobId : jobs[j] = Absent}

ShareEnqueue(j, t, cost, weight) ==
    /\ Enqueue(j, t, cost, weight, 0)
    /\ worth' = [worth EXCEPT ![j] = Worth(cost, weight)]

ShareNext ==
    /\ \/ \E t \in Timeline, cost \in Cost, weight \in Weight :
            LowestUnused # {} /\ ShareEnqueue(Min(LowestUnused), t, cost, weight)
       \/ /\ \E n \in Node :
               \/ \E failed \in SUBSET Partition : Reconcile(n, failed)
               \/ Restart(n)
          /\ UNCHANGED worth
       \/ /\ \E j \in JobId :
               \/ \E p \in Partition, c \in ClaimId, d \in Duration : Db!Claim(j, p, c, d)
               \/ \E r \in Resolution : Db!Complete(j, r)
          /\ UNCHANGED << clocks, lwm, worth >>
    /\ WatchShares

ShareSpec == ShareInit /\ [][ShareNext]_shareVars

(* Of two tenants whose jobs both wait at or after the service clock, the  *)
(* one receives more service than the other, each job counting its cost    *)
(* over its weight, only by what its line was behind when that began plus  *)
(* the job the other is to get next: whatever costs and weights the        *)
(* enqueues had, across re-seeds, restarts, reconciles that fail and       *)
(* claims by any worker (doc.go's weighted fair sharing; enqueue.go:24-28, *)
(* enqueue.go:45-55, vtime.go's stride; claim.go's order).                 *)
FairShares ==
    [][\A s \in Pair, p \in Partition : window[s][p].open =>
        window[s][p].ahead + Service(s[1], p)
            <= window[s][p].lead + worth[Head(s[2], p)]]_shareVars
=============================================================================
