SPECIFICATION FairSpec
CONSTANTS
    good = good  d1 = d1  d2 = d2  h1 = h1  h2 = h2
    Event = {good}
    Poison = {}
    Dispatcher = {d1, d2}
    Handler = {h1, h2}
    MaxAttempts = 2
    MaxReplays = 1
INVARIANTS
    TypeOK
    RowsAgree
    ClaimIsLeased
PROPERTY
    Dispatched
CHECK_DEADLOCK FALSE
