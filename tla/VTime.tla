------------------------------- MODULE VTime -------------------------------
(***************************************************************************)
(* Virtual-time arithmetic (vtime.go): the stride of one enqueue and the   *)
(* stamp it yields, in fixed point on signed machine integers.  Go's int64 *)
(* operations wrap, so every operation the source performs without a       *)
(* preceding guard goes through Wrap; that no wrap ever shows is a result, *)
(* not an assumption.  Operators only: module Timeline turns them into a   *)
(* state machine, module FairQueue uses them for its stamps.               *)
(***************************************************************************)
EXTENDS Integers

CONSTANTS
    MaxInt,     \* math.MaxInt64; any value works, TLC takes a small one
    Scale       \* scale: fixed-point units per cost unit

ASSUME VTimeAssumption ==
    /\ MaxInt \in Nat
    /\ Scale \in Nat \ {0}
    /\ Scale <= MaxInt

MinInt == -MaxInt - 1
MachineInt == MinInt .. MaxInt

(* Two's complement: the machine integer congruent to x.                   *)
Wrap(x) == ((x - MinInt) % (2 * (MaxInt + 1))) + MinInt

Larger(a, b) == IF a >= b THEN a ELSE b

(* Go's integer division by a positive divisor truncates toward zero.      *)
Quotient(a, b) == IF a >= 0 THEN a \div b ELSE -((-a) \div b)

(* Mutation: an off-by-one bound that refuses the largest legal cost.      *)
MaxCostExclusive == (MaxInt \div Scale) - 1

(* The largest cost whose product with Scale is representable.             *)
MaxCost == MaxInt \div Scale

(* Zero and negative costs mean the cheapest possible job.                 *)
NormalizeCost(cost) == Larger(1, cost)

(* Zero means 1; a negative weight is refused (WeightAccepted).            *)
WeightAccepted(weight) == weight >= 0
NormalizeWeight(weight) == IF weight = 0 THEN 1 ELSE weight

(* Mutation: no floor of one unit under the division.                      *)
StrideUnfloored(cost, weight) == Quotient(Wrap(cost * Scale), weight)

(* The advance of one enqueue: never less than one fixed-point unit.       *)
Stride(cost, weight) == Larger(1, Quotient(Wrap(cost * Scale), weight))

(* Mutations: each drops one of nextVStamp's two guards.                   *)
StampFitsAnyCost(vtime, cost, weight) ==
    vtime <= Wrap(MaxInt - Stride(cost, weight))
StampFitsAnySum(vtime, cost, weight) == cost <= MaxCost

(* nextVStamp returns ErrVTimeOverflow unless both guards pass ...         *)
StampFits(vtime, cost, weight) ==
    /\ cost <= MaxCost
    /\ vtime <= Wrap(MaxInt - Stride(cost, weight))

(* ... and this value otherwise.                                           *)
NextVStamp(vtime, cost, weight) == Wrap(vtime + Stride(cost, weight))
=============================================================================
