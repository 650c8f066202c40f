------------------------------ MODULE Timeline ------------------------------
(***************************************************************************)
(* One (tenant, partition) timeline under an arbitrary sequence of         *)
(* enqueues: each call normalizes its cost and weight, asks nextVStamp for *)
(* a stamp and, as the insert is taken to succeed, commits it.  The module *)
(* isolates what the arithmetic alone guarantees at the edges of int64;    *)
(* locking, seeding and failing inserts are in VTimeCache and FairQueue.   *)
(***************************************************************************)
EXTENDS VTime

CONSTANTS
    CostInput,      \* the values callers put in EnqueueOpts.Cost
    WeightInput     \* the values callers put in EnqueueOpts.Weight

ASSUME TimelineAssumption ==
    /\ CostInput \subseteq MachineInt
    /\ WeightInput \subseteq MachineInt

VARIABLES
    vtime,      \* tenantVtime.vtime: the last committed stamp
    last        \* the last call: its normalized arguments and its outcome

vars == << vtime, last >>

Outcome == {"none", "stamped", "overflow"}

(* A timeline seeds at a stored stamp or at 0, never below 0.              *)
Init ==
    /\ vtime \in 0 .. MaxInt
    /\ last = [cost |-> 1, weight |-> 1, outcome |-> "none"]

(* An enqueue whose stamp fits advances the timeline to it.                *)
Stamp(cost, weight) ==
    /\ WeightAccepted(weight)
    /\ LET c == NormalizeCost(cost)
           w == NormalizeWeight(weight)
       IN  /\ StampFits(vtime, c, w)
           /\ vtime' = NextVStamp(vtime, c, w)
           /\ last' = [cost |-> c, weight |-> w, outcome |-> "stamped"]

(* An enqueue refused with ErrVTimeOverflow leaves vtime unchanged.        *)
Refuse(cost, weight) ==
    /\ WeightAccepted(weight)
    /\ LET c == NormalizeCost(cost)
           w == NormalizeWeight(weight)
       IN  /\ ~StampFits(vtime, c, w)
           /\ last' = [cost |-> c, weight |-> w, outcome |-> "overflow"]
    /\ UNCHANGED vtime

Next ==
    \E cost \in CostInput, weight \in WeightInput :
        Stamp(cost, weight) \/ Refuse(cost, weight)

Spec == Init /\ [][Next]_vars

-----------------------------------------------------------------------------

(* Every stamp a timeline holds is a non-negative machine integer, so none *)
(* sorts ahead of the whole queue by having wrapped (vtime.go:20).         *)
TypeOK ==
    /\ vtime \in 0 .. MaxInt
    /\ last \in [cost : 1 .. MaxInt, weight : 1 .. MaxInt, outcome : Outcome]

(* Within a timeline every stamp is strictly above the one before, for any *)
(* mix of costs and weights, up to the very end of the integer range       *)
(* (vtime.go:31-35, "keeps every advance strictly positive").              *)
StrictlyIncreasing == [][last'.outcome = "stamped" => vtime' > vtime]_vars

(* A stamp charges the job what it declared: the advance times the weight  *)
(* differs from the scaled cost by less than the weight, truncation and    *)
(* floor included (vtime.go:16, "truncation error in a stride is below     *)
(* weight/(cost*1000)").  A wrapped product or sum breaks it.              *)
ChargesDeclaredCost ==
    [][last'.outcome = "stamped" =>
        LET charged  == (vtime' - vtime) * last'.weight
            declared == last'.cost * Scale
        IN  /\ charged - declared < last'.weight
            /\ declared - charged < last'.weight]_vars

(* ErrVTimeOverflow is never spurious: it is returned only if the scaled   *)
(* cost or the advanced timeline does not fit the integer range            *)
(* (errors.go:50-55).                                                      *)
RefusalIsDue ==
    [][last'.outcome = "overflow" =>
        \/ last'.cost * Scale > MaxInt
        \/ vtime + Larger(1, (last'.cost * Scale) \div last'.weight) > MaxInt
      ]_vars
=============================================================================
