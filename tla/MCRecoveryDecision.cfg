SPECIFICATION Spec
CONSTANTS
    cu = cu  inc = inc
    Event = {1, 2, 3}
    Fact <- TwoSubscriptions
    CaseId <- Ids
    Customer = {cu}
    Policy <- BothPolicies
    Incident = {}
    ScopeOf <- IssuerScope
    Advised = FALSE
    Nets = {1}
    Delay <- OneUnit
    Day = 3
    IncidentTtl = 1
    ReviewTtl = 1
    MaxAttempts = 2
    MaxTime = 3
INVARIANTS
    TypeOK
    OneContactAtATime
    ContactCeiling
PROPERTIES
    PaidIsNotCharged
    HighValueIsApproved
    TruthIsMonotone
CHECK_DEADLOCK FALSE
