SPECIFICATION Spec
CONSTANTS
    Jobs = {j1, j2}
    Cases <- MCCases
    MerchantOf <- MCMerchantOf
    CustomerOf <- MCCustomerOf
    Affected <- MCAffected
    Works <- MCWorks
    MaxTries = 1
INVARIANTS
    ChainIsLinear
    AuditFollowsRow
    MerchantWorkSerializes
    WebhookIsNoVictim
