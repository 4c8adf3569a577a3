SPECIFICATION Spec
CONSTANTS
    cu = cu  inc = inc
    Event = {1, 2}
    Fact <- FailedThenCharged
    CaseId <- Ids
    Customer = {cu}
    Policy <- StandardOnly
    Incident = {}
    ScopeOf <- IssuerScope
    Advised = FALSE
    Nets = {1}
    Delay <- OneUnit
    Day = 3
    IncidentTtl = 1
    ReviewTtl = 1
    MaxAttempts = 2
    MaxTime = 3
PROPERTY
    ChargedStopsRetry
CHECK_DEADLOCK FALSE
