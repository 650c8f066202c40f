---------------------------- MODULE JobLifecycle ----------------------------
(***************************************************************************)
(* What the library promises about one job at a time, with no records,     *)
(* filters or clocks: a job waits, is leased to one claim, may outlive its *)
(* lease, and is done exactly once (job.go:9-25, claim.go:14-18, 38-49).   *)
(*                                                                         *)
(* A ticket is what a worker needs to act on a lease.  A leased job may    *)
(* have none, when the answer to its claimer was lost or the worker died.  *)
(***************************************************************************)
EXTENDS Integers

CONSTANTS JobId, ClaimId, Resolution, Canceled

VARIABLES
    life,           \* job -> its stage
    tickets         \* [job, claim] pairs in the hands of workers

lifeVars == << life, tickets >>

Gone == [stage |-> "gone"]
Waiting == [stage |-> "waiting"]
Leased(c) == [stage |-> "leased", claim |-> c]
Lapsed(c) == [stage |-> "lapsed", claim |-> c]
Done(r) == [stage |-> "done", resolution |-> r]

Stage ==
    {Gone, Waiting} \cup {Leased(c) : c \in ClaimId}
        \cup {Lapsed(c) : c \in ClaimId} \cup {Done(r) : r \in Resolution}

(* The stages of a job whose last claim still counts.                      *)
ClaimedBy(j, c) == life[j] \in {Leased(c), Lapsed(c)}

Move(j, stage) == life' = [life EXCEPT ![j] = stage]

LifeInit ==
    /\ life = [j \in JobId |-> Gone]
    /\ tickets = {}

Submit(j) ==
    /\ life[j] = Gone
    /\ Move(j, Waiting)
    /\ UNCHANGED tickets

(* Only a job without a live lease is leased, and to a claim like no other.*)
Lease(j, c) ==
    /\ life[j] = Waiting \/ \E b \in ClaimId : life[j] = Lapsed(b)
    /\ \A i \in JobId : ~ClaimedBy(i, c)
    /\ \A k \in tickets : k.claim # c
    /\ Move(j, Leased(c))
    /\ tickets' \in {tickets, tickets \cup {[job |-> j, claim |-> c]}}

(* The ticket of the job's last claim: it counts until somebody else gets  *)
(* the job, even after the lease has lapsed.                               *)
Valid(k) == ClaimedBy(k.job, k.claim)

Renew(k) == Valid(k) /\ Move(k.job, Leased(k.claim)) /\ UNCHANGED tickets
GiveUp(k) == Valid(k) /\ Move(k.job, Waiting) /\ UNCHANGED tickets
Finish(k, r) == Valid(k) /\ Move(k.job, Done(r)) /\ UNCHANGED tickets

Cancel(j) ==
    /\ life[j] = Waiting \/ \E c \in ClaimId : ClaimedBy(j, c)
    /\ Move(j, Done(Canceled))
    /\ UNCHANGED tickets

(* Time ends leases, several at the same moment perhaps.                   *)
Lapse(J) ==
    /\ \A j \in J : \E c \in ClaimId : life[j] = Leased(c)
    /\ life' = [j \in JobId |-> IF j \in J THEN Lapsed(life[j].claim) ELSE life[j]]
    /\ UNCHANGED tickets

Collect(j) ==
    /\ \E r \in Resolution : life[j] = Done(r)
    /\ Move(j, Gone)
    /\ UNCHANGED tickets

Drop(k) == tickets' = tickets \ {k} /\ UNCHANGED life

LifeNext ==
    \/ \E j \in JobId :
        Submit(j) \/ Cancel(j) \/ Collect(j) \/ \E c \in ClaimId : Lease(j, c)
    \/ \E k \in tickets :
        \/ Renew(k) \/ GiveUp(k) \/ Drop(k)
        \/ \E r \in Resolution \ {Canceled} : Finish(k, r)
    \/ \E J \in SUBSET JobId : Lapse(J)

LifeSpec == LifeInit /\ [][LifeNext]_lifeVars
=============================================================================
