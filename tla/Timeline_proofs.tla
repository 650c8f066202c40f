-------------------------- MODULE Timeline_proofs --------------------------
(***************************************************************************)
(* What the arithmetic of vtime.go guarantees to a timeline, for every     *)
(* integer width and scale: the properties of Timeline follow from the     *)
(* exactness of the stamp (StampExact) and from DivisionBounds.            *)
(***************************************************************************)
EXTENDS Timeline, VTime_proofs, TLAPS

(* A normalized argument is a positive machine integer.                    *)
LEMMA Normalized ==
    ASSUME NEW cost \in CostInput, NEW weight \in WeightInput,
           WeightAccepted(weight)
    PROVE  /\ NormalizeCost(cost) \in 1 .. MaxInt
           /\ NormalizeWeight(weight) \in 1 .. MaxInt
<1>1. MaxInt \in Nat /\ MaxInt >= 1
  BY VTimeAssumption
<1>2. cost \in MachineInt /\ weight \in MachineInt
  BY TimelineAssumption
<1> QED
  BY <1>1, <1>2 DEF MachineInt, MinInt, NormalizeCost, NormalizeWeight,
                    WeightAccepted, Larger

-----------------------------------------------------------------------------

(* No sequence of enqueues leaves the range: a stored stamp is never       *)
(* negative, whatever costs and weights were passed (vtime.go:20-22).      *)
THEOREM TypeCorrect == Spec => []TypeOK
<1>1. MaxInt \in Nat /\ MaxInt >= 1
  BY VTimeAssumption
<1>2. Init => TypeOK
  BY <1>1 DEF Init, TypeOK, Outcome
<1>3. TypeOK /\ [Next]_vars => TypeOK'
  <2> SUFFICES ASSUME TypeOK, [Next]_vars
               PROVE  TypeOK'
    OBVIOUS
  <2>1. ASSUME NEW cost \in CostInput, NEW weight \in WeightInput,
               Stamp(cost, weight)
        PROVE  TypeOK'
    <3> DEFINE c == NormalizeCost(cost)
               w == NormalizeWeight(weight)
    <3>1. c \in 1 .. MaxInt /\ w \in 1 .. MaxInt /\ vtime \in 0 .. MaxInt
      BY <2>1, Normalized DEF Stamp, TypeOK
    <3>2. StampFits(vtime, c, w) /\ vtime' = NextVStamp(vtime, c, w)
      BY <2>1 DEF Stamp
    <3>3. last' = [cost |-> c, weight |-> w, outcome |-> "stamped"]
      BY <2>1 DEF Stamp
    <3>4. vtime' \in 0 .. MaxInt
      <4> HIDE DEF c, w
      <4> QED BY <3>1, <3>2, StampExact DEF StampFits
    <3> QED BY <3>1, <3>3, <3>4 DEF TypeOK, Outcome
  <2>2. ASSUME NEW cost \in CostInput, NEW weight \in WeightInput,
               Refuse(cost, weight)
        PROVE  TypeOK'
    BY <2>2, Normalized DEF Refuse, TypeOK, Outcome
  <2>3. CASE UNCHANGED vars
    BY <2>3 DEF vars, TypeOK
  <2> QED BY <2>1, <2>2, <2>3 DEF Next
<1> QED BY <1>2, <1>3, PTL DEF Spec

(* What one step does to a well-typed timeline: the three facts the action *)
(* properties of Timeline state.                                           *)
LEMMA StepExact ==
    ASSUME TypeOK, Next
    PROVE  /\ last'.outcome = "stamped" =>
                /\ last'.cost \in 1 .. MaxInt
                /\ last'.weight \in 1 .. MaxInt
                /\ last'.cost <= MaxCost
                /\ vtime' = vtime + Stride(last'.cost, last'.weight)
           /\ last'.outcome = "overflow" =>
                /\ last'.cost \in 1 .. MaxInt
                /\ last'.weight \in 1 .. MaxInt
                /\ ~StampFits(vtime, last'.cost, last'.weight)
<1>1. ASSUME NEW cost \in CostInput, NEW weight \in WeightInput,
             Stamp(cost, weight)
      PROVE  /\ last'.outcome = "stamped"
             /\ last'.cost \in 1 .. MaxInt
             /\ last'.weight \in 1 .. MaxInt
             /\ last'.cost <= MaxCost
             /\ vtime' = vtime + Stride(last'.cost, last'.weight)
  <2> DEFINE c == NormalizeCost(cost)
             w == NormalizeWeight(weight)
  <2>1. c \in 1 .. MaxInt /\ w \in 1 .. MaxInt /\ vtime \in 0 .. MaxInt
    BY <1>1, Normalized DEF Stamp, TypeOK
  <2>2. StampFits(vtime, c, w) /\ vtime' = NextVStamp(vtime, c, w)
    BY <1>1 DEF Stamp
  <2>3. last' = [cost |-> c, weight |-> w, outcome |-> "stamped"]
    BY <1>1 DEF Stamp
  <2> HIDE DEF c, w
  <2>4. c <= MaxCost /\ vtime' = vtime + Stride(c, w)
    BY <2>1, <2>2, StampExact DEF StampFits
  <2> QED BY <2>1, <2>3, <2>4
<1>2. ASSUME NEW cost \in CostInput, NEW weight \in WeightInput,
             Refuse(cost, weight)
      PROVE  /\ last'.outcome = "overflow"
             /\ last'.cost \in 1 .. MaxInt
             /\ last'.weight \in 1 .. MaxInt
             /\ ~StampFits(vtime, last'.cost, last'.weight)
  <2> DEFINE c == NormalizeCost(cost)
             w == NormalizeWeight(weight)
  <2>1. c \in 1 .. MaxInt /\ w \in 1 .. MaxInt
    BY <1>2, Normalized DEF Refuse
  <2>2. last' = [cost |-> c, weight |-> w, outcome |-> "overflow"]
    BY <1>2 DEF Refuse
  <2>3. ~StampFits(vtime, c, w)
    BY <1>2 DEF Refuse
  <2> HIDE DEF c, w
  <2> QED BY <2>1, <2>2, <2>3
<1> QED BY <1>1, <1>2 DEF Next

(* Consecutive stamps of a timeline never tie or go back, for every width, *)
(* scale, cost and weight (vtime.go:31-35).                                *)
THEOREM StampsIncrease == Spec => StrictlyIncreasing
<1>1. TypeOK /\ [Next]_vars
        => [last'.outcome = "stamped" => vtime' > vtime]_vars
  <2> SUFFICES ASSUME TypeOK, Next, last'.outcome = "stamped"
               PROVE  vtime' > vtime
    OBVIOUS
  <2>1. vtime \in 0 .. MaxInt /\ MaxInt \in Nat
    BY VTimeAssumption DEF TypeOK
  <2>2. vtime' = vtime + Stride(last'.cost, last'.weight)
    BY StepExact
  <2>3. Stride(last'.cost, last'.weight) \in 1 .. MaxInt
    BY <2>1, StepExact, StampExact
  <2> QED BY <2>1, <2>2, <2>3
<1> QED BY <1>1, TypeCorrect, PTL DEF Spec, StrictlyIncreasing

(* A stamp's advance times its weight is within one weight of the scaled   *)
(* cost: nothing is lost to wrapping, only to one truncation or floor.     *)
THEOREM CostIsCharged == Spec => ChargesDeclaredCost
<1> DEFINE Charged ==
        LET charged  == (vtime' - vtime) * last'.weight
            declared == last'.cost * Scale
        IN  /\ charged - declared < last'.weight
            /\ declared - charged < last'.weight
<1>1. TypeOK /\ [Next]_vars => [last'.outcome = "stamped" => Charged]_vars
  <2> SUFFICES ASSUME TypeOK, Next, last'.outcome = "stamped"
               PROVE  Charged
    OBVIOUS
  <2> DEFINE w == last'.weight
             p == last'.cost * Scale
             s == Stride(last'.cost, last'.weight)
             q == p \div w
  <2>1. vtime \in 0 .. MaxInt /\ MaxInt \in Nat
    BY VTimeAssumption DEF TypeOK
  <2>2. w \in 1 .. MaxInt /\ vtime' = vtime + s
    BY StepExact
  <2>3. p \in 1 .. MaxInt /\ s \in 1 .. MaxInt /\ s = Larger(1, q)
    BY <2>1, StepExact, StampExact
  <2>4. q \in Nat /\ q * w <= p /\ p < q * w + w
    <3> HIDE DEF p, w
    <3> QED BY <2>1, <2>2, <2>3, DivisionBounds
  <2>5. vtime' - vtime = s
    <3> HIDE DEF s
    <3> QED BY <2>1, <2>2, <2>3
  <2>6. s * w - p < w /\ p - s * w < w
    <3> HIDE DEF s, p, w, q
    <3>1. CASE q >= 1
      <4>1. s = q
        BY <2>3, <2>4, <3>1 DEF Larger
      <4>2. q * w \in Int /\ p \in Int /\ w \in Int /\ w >= 1
        BY <2>1, <2>2, <2>3, <2>4
      <4> QED BY <2>4, <4>1, <4>2
    <3>2. CASE q = 0
      <4>1. s = 1
        BY <2>3, <3>2 DEF Larger
      <4>2. p < w /\ p >= 1 /\ p \in Int /\ w \in Int
        BY <2>1, <2>2, <2>3, <2>4, <3>2
      <4>3. s * w = w
        BY <4>1, <4>2
      <4> QED BY <4>2, <4>3
    <3> QED BY <2>4, <3>1, <3>2
  <2> QED BY <2>5, <2>6
<1> QED BY <1>1, TypeCorrect, PTL DEF Spec, ChargesDeclaredCost

(* ErrVTimeOverflow means what it says: the scaled cost or the advanced    *)
(* timeline really exceeds the integer range.                              *)
THEOREM RefusalsAreDue == Spec => RefusalIsDue
<1> DEFINE Due ==
        \/ last'.cost * Scale > MaxInt
        \/ vtime + Larger(1, (last'.cost * Scale) \div last'.weight) > MaxInt
<1>1. TypeOK /\ [Next]_vars => [last'.outcome = "overflow" => Due]_vars
  <2> SUFFICES ASSUME TypeOK, Next, last'.outcome = "overflow"
               PROVE  Due
    OBVIOUS
  <2> DEFINE c == last'.cost
             w == last'.weight
  <2>1. vtime \in 0 .. MaxInt /\ MaxInt \in Nat /\ Scale \in Nat \ {0}
    BY VTimeAssumption DEF TypeOK
  <2>2. c \in 1 .. MaxInt /\ w \in 1 .. MaxInt /\ ~StampFits(vtime, c, w)
    BY StepExact
  <2>3. CASE c > MaxCost
    <3> DEFINE q == MaxInt \div Scale
    <3>1. q \in Nat /\ MaxInt < q * Scale + Scale /\ c >= q + 1
      BY <2>1, <2>2, <2>3, DivisionBounds DEF MaxCost
    <3> HIDE DEF c, q
    <3>2. c * Scale >= (q + 1) * Scale
      BY <2>1, <2>2, <3>1
    <3>3. (q + 1) * Scale = q * Scale + Scale
      BY <2>1, <3>1
    <3>4. q * Scale \in Int /\ c * Scale \in Int
      BY <2>1, <2>2, <3>1
    <3>5. c * Scale > MaxInt
      BY <2>1, <3>1, <3>2, <3>3, <3>4
    <3> QED BY <3>5 DEF c
  <2>4. CASE ~(c > MaxCost)
    <3>1. c <= MaxCost
      BY <2>1, <2>2, <2>4, DivisionBounds DEF MaxCost
    <3> HIDE DEF c, w
    <3>2. Stride(c, w) = Larger(1, (c * Scale) \div w)
      BY <2>1, <2>2, <3>1, StampExact
    <3>3. Stride(c, w) \in 1 .. MaxInt /\ ~(vtime + Stride(c, w) <= MaxInt)
      BY <2>1, <2>2, <3>1, StampExact
    <3>4. vtime + Stride(c, w) > MaxInt
      BY <2>1, <3>3
    <3> QED BY <3>2, <3>4 DEF c, w
  <2> QED BY <2>3, <2>4
<1> QED BY <1>1, TypeCorrect, PTL DEF Spec, RefusalIsDue
=============================================================================
