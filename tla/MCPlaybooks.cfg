SPECIFICATION FairSpec
CONSTANTS
    inv = inv  r1 = r1  r2 = r2  r3 = r3
    Invoice = {inv}
    Response = {r1, r2, r3}
    Reply <- PromisesAndDispute
    Policy <- Terms
    Day = 3
    Lead = 1
    MaxTime = 4
INVARIANT
    TypeOK
PROPERTIES
    SettledIsNotContacted
    PromiseHoldsOutreach
    PromiseEndsOnce
    DisputeStays
    PromiseSettles
CHECK_DEADLOCK FALSE
