CONSTANTS
    MaxInt = 15
    Scale = 3
    CostInput <- MCCostInput
    WeightInput <- MCWeightInput
SPECIFICATION Spec
INVARIANT TypeOK
PROPERTY StrictlyIncreasing
PROPERTY ChargesDeclaredCost
PROPERTY RefusalIsDue
