SPECIFICATION FairSpec
CONSTANTS
    m1 = m1  m2 = m2  s1 = s1  s2 = s2  s3 = s3
    Merchant = {m1}
    Rail = {"UPI"}
    Family = {"BANK"}
    Slot = {s1, s2, s3}
    BaselineWindow = 3
    CurrentWindow = 1
    MinBaseline = 1
    MinCurrent = 1
    ClearWindows = 2
    MaxLag = 2
    MerchantOrder <- IdsInOrder
    MerchantLimit = 1
PROPERTIES
    ResolvedAfterClearWindows
    IncidentClears
