SPECIFICATION PurchaseSpec
CONSTANTS
    o1 = o1
    k1 = k1
    k2 = k2
    NoRef = NoRef
    NoEvent = NoEvent
    Owner = {o1}
    Checkout = {k1, k2}
    Event = {k1, k2}
    Slot = {w1, w2, s1}
    Worker = {w1, w2}
    Cost = {1}
    Adjustment <- MCAdjustment
    PackOwner <- MCPackOwner
    PackCredits <- MCPackCredits
    AdminAdjustmentsEnabled = FALSE
    QueueEnabled = FALSE
    MaxAttempts = 5
    MaxFaults = 1
    MaxCrashes = 1
    MaxCredits = 10
    MaxRows = 2
INVARIANTS
    GrantedAtMostOnce
CHECK_DEADLOCK FALSE
