-------------------------- MODULE LeasesRefinement --------------------------
(***************************************************************************)
(* Leases implements JobLifecycle.  A job is leased while any part of the  *)
(* lease granted to its claim is left and lapsed from then on, though the  *)
(* record may stay hidden for the rest of a rounded-up millisecond.        *)
(***************************************************************************)
EXTENDS Leases

(* The stage of a record, given what is left of each promise.              *)
StageFor(job, left) ==
    CASE job = Absent -> [stage |-> "gone"]
      [] job # Absent /\ job.liveness = "resolved" ->
           [stage |-> "done", resolution |-> job.resolution]
      [] job # Absent /\ job.liveness = "pending" /\ job.claim_id = NoClaim ->
           [stage |-> "waiting"]
      [] OTHER ->
           [stage |-> IF left[job.claim_id] > 0 THEN "leased" ELSE "lapsed",
            claim |-> job.claim_id]

Lifecycle == INSTANCE JobLifecycle
    WITH life <- [j \in JobId |-> StageFor(jobs[j], promise)], tickets <- handles

(* The filters, pipeline updates and clocks of the store add up to the     *)
(* promised lifecycle: every command a worker, canceler or the server runs *)
(* is one of its moves or none, so no command revives a claim that was     *)
(* superseded, replaces a live lease or leaves a resolved job (job.go:9-25,*)
(* claim.go:14-18, 42-49).                                                 *)
ImplementsLifecycle == Lifecycle!LifeSpec
=============================================================================
