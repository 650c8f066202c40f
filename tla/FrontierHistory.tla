-------------------------- MODULE FrontierHistory --------------------------
(***************************************************************************)
(* FairQueue with a history variable that remembers every frontier each    *)
(* partition has had, the service clock or its fallback taken at one       *)
(* instant.  It watches the queue and never constrains it.                 *)
(***************************************************************************)
EXTENDS FairQueue

VARIABLE frontiers      \* partition -> the frontiers it has had

HistoryInit == Init /\ frontiers = [p \in Partition |-> {}]

HistoryNext ==
    /\ Next
    /\ frontiers' = [p \in Partition |-> frontiers[p] \cup Db!Frontier(p)']

HistorySpec == HistoryInit /\ [][HistoryNext]_<< vars, frontiers >>

(* A stored frontier is one the partition has had at some moment: it may   *)
(* be late and stale, as refreshes are not sequenced, but it falls back to *)
(* pending jobs only when no job holds a fence                             *)
(* (docs/fair-job-queue-design.md:238, 260).                               *)
StoredFrontierWasReal ==
    \A p \in Partition : lwm[p] # NoLWM => lwm[p] \in frontiers[p]
=============================================================================
