SPECIFICATION FairSpec
CONSTANTS
    c1 = c1  pay = pay  nudge = nudge
    w1 = w1  w2 = w2  r1 = r1  e1 = e1
    Case = {c1}
    Action = {pay}
    CaseOf <- OneCase
    Class <- PayOnly
    Worker = {w1, w2}
    Recon = {r1}
    Event = {e1}
    MaxAttempts = 2
    Limit <- LimitOne
    MaxClaims = 2
INVARIANTS
    TypeOK
    AtMostOneEffect
    OneCallerPerAction
    CreditBacked
    CreditedOnce
    ExecutingIsWorked
PROPERTIES
    NeverReopened
    UnknownResolvedByFact
    InFlightResolves
    AwaitingSettles
CHECK_DEADLOCK FALSE
