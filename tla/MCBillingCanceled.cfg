CONSTANTS
    Plans = {"Starter"}
    Buyable = {}
    Included <- MCIncluded
    Workers = {w1}
    MaxNetworks = 1
    MaxSubs = 1
    MaxEvents = 2
    MaxHandled = 2
    MaxCalls = 1
    NoPlan = NoPlan
    NoStatus = NoStatus
    NoCustomer = NoCustomer
SPECIFICATION BillingSpec
INVARIANT
    CanceledIsRefused
CHECK_DEADLOCK FALSE
