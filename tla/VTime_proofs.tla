---------------------------- MODULE VTime_proofs ----------------------------
(***************************************************************************)
(* The arithmetic of vtime.go for every integer width and scale.  The      *)
(* guards of nextVStamp make each wrapping operation exact (StampExact),   *)
(* by one fact of integer division (DivisionBounds).  And, for the queries *)
(* of queue.go, a set of stamps has a highest and a lowest.                *)
(***************************************************************************)
EXTENDS VTime, FiniteSetsExt, WellFoundedInduction, TLAPS

(* Integer division of a natural number by a positive one, as bounds.      *)
LEMMA DivisionBounds ==
    ASSUME NEW a \in Nat, NEW b \in Nat \ {0}
    PROVE  /\ a \div b \in Nat
           /\ (a \div b) * b <= a
           /\ a < (a \div b) * b + b
           /\ a \div b <= a
<1> DEFINE q == a \div b
           r == a % b
<1>1. q \in Int /\ r \in 0 .. (b - 1) /\ a = b * q + r
  OBVIOUS
<1>2. q \in Nat
  BY <1>1
<1>3. q * b = b * q
  BY <1>2
<1>4. q <= b * q
  BY <1>2
<1> QED BY <1>1, <1>2, <1>3, <1>4

(* A machine integer is its own wrapped value.                             *)
LEMMA WrapExact ==
    ASSUME NEW x \in MachineInt
    PROVE  Wrap(x) = x
<1>1. MaxInt \in Nat
  BY VTimeAssumption
<1>2. x \in Int /\ -MaxInt - 1 <= x /\ x <= MaxInt
  BY <1>1 DEF MachineInt, MinInt
<1> DEFINE m == 2 * (MaxInt + 1)
           y == x - (-MaxInt - 1)
<1>3. m \in Nat \ {0} /\ y \in Nat /\ y < m
  BY <1>1, <1>2
<1>4. y % m = y
  <2> HIDE DEF m, y
  <2> QED BY <1>3
<1> QED BY <1>1, <1>2, <1>4 DEF Wrap, MinInt

(* Under nextVStamp's guards nothing wraps: the stride is the scaled cost  *)
(* over the weight floored at one, the stamp is the plain sum, and both    *)
(* are in range (vtime.go:39-55).                                          *)
LEMMA StampExact ==
    ASSUME NEW vt \in 0 .. MaxInt,
           NEW cost \in 1 .. MaxInt,
           NEW weight \in 1 .. MaxInt,
           cost <= MaxCost
    PROVE  /\ cost * Scale \in 1 .. MaxInt
           /\ Stride(cost, weight) = Larger(1, (cost * Scale) \div weight)
           /\ Stride(cost, weight) \in 1 .. MaxInt
           /\ StampFits(vt, cost, weight)
                <=> vt + Stride(cost, weight) <= MaxInt
           /\ StampFits(vt, cost, weight)
                => /\ NextVStamp(vt, cost, weight) = vt + Stride(cost, weight)
                   /\ NextVStamp(vt, cost, weight) \in 0 .. MaxInt
<1>1. MaxInt \in Nat /\ Scale \in Nat \ {0}
  BY VTimeAssumption
<1>2. cost * Scale \in 1 .. MaxInt
  <2> DEFINE q == MaxInt \div Scale
  <2>1. q \in Nat /\ q * Scale <= MaxInt
    BY <1>1, DivisionBounds
  <2>2. cost <= q
    BY DEF MaxCost
  <2>3. cost * Scale <= q * Scale
    <3> HIDE DEF q
    <3> QED BY <1>1, <2>1, <2>2
  <2>4. cost * Scale >= 1 /\ cost * Scale \in Int
    BY <1>1
  <2>5. q * Scale \in Int
    BY <1>1, <2>1
  <2> HIDE DEF q
  <2> QED BY <1>1, <2>1, <2>3, <2>4, <2>5
<1> DEFINE p == cost * Scale
           s == Stride(cost, weight)
<1>3. p \in Nat /\ p >= 1 /\ p <= MaxInt
  BY <1>1, <1>2
<1>4. Wrap(p) = p
  <2>1. p \in MachineInt
    BY <1>1, <1>3 DEF MachineInt, MinInt
  <2> QED BY <2>1, WrapExact
<1>5. s = Larger(1, p \div weight)
  <2>1. Quotient(p, weight) = p \div weight
    <3> HIDE DEF p
    <3> QED BY <1>3 DEF Quotient
  <2> QED BY <1>4, <2>1 DEF Stride
<1>6. s \in 1 .. MaxInt
  <2>1. p \div weight \in Nat /\ p \div weight <= p
    <3> HIDE DEF p
    <3> QED BY <1>1, <1>3, DivisionBounds
  <2> HIDE DEF p, s
  <2> QED BY <1>1, <1>3, <1>5, <2>1 DEF Larger
<1>7. Wrap(MaxInt - s) = MaxInt - s
  <2>1. MaxInt - s \in MachineInt
    <3> HIDE DEF s
    <3> QED BY <1>1, <1>6 DEF MachineInt, MinInt
  <2> QED BY <2>1, WrapExact
<1>8. StampFits(vt, cost, weight) <=> vt + s <= MaxInt
  <2>1. StampFits(vt, cost, weight) <=> vt <= MaxInt - s
    BY <1>7 DEF StampFits
  <2> HIDE DEF s
  <2> QED BY <1>1, <1>6, <2>1
<1>9. ASSUME vt + s <= MaxInt
      PROVE  Wrap(vt + s) = vt + s /\ vt + s \in 0 .. MaxInt
  <2>1. vt + s \in MachineInt /\ vt + s \in 0 .. MaxInt
    <3> HIDE DEF s
    <3> QED BY <1>1, <1>6, <1>9 DEF MachineInt, MinInt
  <2> QED BY <2>1, WrapExact
<1>10. NextVStamp(vt, cost, weight) = Wrap(vt + s)
  BY DEF NextVStamp
<1> QED BY <1>2, <1>5, <1>6, <1>8, <1>9, <1>10

-----------------------------------------------------------------------------
(* Newest and oldest stamps.                                               *)

(* The induction is the library's: every set of naturals has a least       *)
(* member.                                                                 *)
LEMMA LeastExists ==
    ASSUME NEW S, S \subseteq Nat, S # {}
    PROVE  \E x \in S : \A y \in S : x <= y
<1> DEFINE Less == {ss \in Nat \X Nat : ss[1] < ss[2]}
<1>1. IsWellFoundedOn(Less, Nat)
  BY NatLessThanWellFounded DEF OpToRel
<1> HIDE DEF Less
<1>2. PICK x \in S : \A y \in S : ~(<< y, x >> \in Less)
  BY <1>1, WFMin
<1>3. ASSUME NEW y \in S
      PROVE  x <= y
  <2>1. x \in Nat /\ y \in Nat
    OBVIOUS
  <2>2. y < x => << y, x >> \in Less
    BY <2>1 DEF Less
  <2> QED BY <1>2, <2>1, <2>2
<1> QED BY <1>3

LEMMA ExtremesExist ==
    ASSUME NEW S, S \subseteq 0 .. MaxInt, S # {}
    PROVE  /\ Max(S) \in S /\ \A y \in S : y <= Max(S)
           /\ Min(S) \in S /\ \A y \in S : Min(S) <= y
<1>0. /\ MaxInt \in Nat /\ S \subseteq Nat
      /\ \A x \in S : x \in Nat /\ x <= MaxInt /\ MaxInt - x \in Nat
  BY VTimeAssumption
<1>1. \E x \in S : \A y \in S : x <= y
  BY <1>0, LeastExists
<1>2. \E x \in S : \A y \in S : x >= y
  <2> DEFINE T == {MaxInt - x : x \in S}
  <2>1. T \subseteq Nat /\ T # {}
    BY <1>0
  <2>2. PICK z \in T : \A y \in T : z <= y
    BY <2>1, LeastExists
  <2>3. PICK x \in S : z = MaxInt - x
    OBVIOUS
  <2>4. ASSUME NEW y \in S
        PROVE  x >= y
    <3>1. MaxInt - y \in T
      OBVIOUS
    <3>2. MaxInt - x <= MaxInt - y
      BY <2>2, <2>3, <3>1
    <3>3. x \in Nat /\ y \in Nat
      BY <1>0
    <3> QED BY <1>0, <3>2, <3>3
  <2> QED BY <2>4
<1>3. Max(S) \in S /\ \A y \in S : Max(S) >= y
  BY <1>2 DEF Max
<1>4. Min(S) \in S /\ \A y \in S : Min(S) <= y
  BY <1>1 DEF Min
<1> QED BY <1>0, <1>3, <1>4
=============================================================================
