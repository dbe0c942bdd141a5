SPECIFICATION WalletSpec
CONSTANTS
    o1 = o1
    k1 = k1
    k2 = k2
    NoRef = NoRef
    Owner = {o1}
    Checkout = {k1, k2}
    Slot = {s1, s2}
    Cost = {1, 2}
    Adjustment <- MCAdjustment
    PackOwner <- MCPackOwner
    PackCredits <- MCPackCredits
    AdminAdjustmentsEnabled = TRUE
    MaxCredits = 4
    MaxRows = 3
INVARIANTS
    BalanceNeverNegative
CHECK_DEADLOCK FALSE
