SPECIFICATION FairSpec
CONSTANTS
    c1 = c1  pay = pay  nudge = nudge
    w1 = w1  w2 = w2  r1 = r1  e1 = e1
    Case = {c1}
    Action = {pay, nudge}
    CaseOf <- OneCase
    Class <- PayAndNudge
    Worker = {w1, w2}
    Recon = {r1}
    Event = {}
    MaxAttempts = 1
    Limit <- LimitOne
    MaxClaims = 2
PROPERTY
    AgedWaitEnds
CHECK_DEADLOCK FALSE
