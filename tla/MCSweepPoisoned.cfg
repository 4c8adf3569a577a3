SPECIFICATION FairSpec
CONSTANTS
    cu = cu  inc = inc
    Event = {1, 2}
    Fact <- TwoInvoices
    CaseId <- Ids
    Customer = {cu}
    Policy <- NightlyOnly
    Incident = {}
    ScopeOf <- IssuerScope
    Advised = FALSE
    Nets = {1}
    Delay <- OneUnit
    Day = 3
    IncidentTtl = 1
    ReviewTtl = 1
    MaxAttempts = 2
    MaxTime = 3
PROPERTY
    DeferredCaseWakes
CHECK_DEADLOCK FALSE
