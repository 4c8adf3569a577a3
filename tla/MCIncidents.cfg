SPECIFICATION FairSpec
CONSTANTS
    cu = cu  inc = inc
    Event = {1, 2}
    Fact <- TwoPayments
    CaseId <- Ids
    Customer = {cu}
    Policy <- StandardOnly
    Incident = {inc}
    ScopeOf <- IssuerScope
    Advised = TRUE
    Nets = {1}
    Delay <- OneUnit
    Day = 3
    IncidentTtl = 1
    ReviewTtl = 1
    MaxAttempts = 2
    MaxTime = 3
INVARIANTS
    PointerIsLinked
    RepeatActsOnce
PROPERTIES
    IncidentSuspendsWork
    DeferralMovesForward
    DeferredCaseWakes
CHECK_DEADLOCK FALSE
