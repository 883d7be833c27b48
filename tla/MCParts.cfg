CONSTANTS
    Procs = {"a", "b", "c", "d", "e", "f"}
    OpOf <- MCOrdered
    Discoveries = {x1, x2}
    Crons = {hourly, invalid}
    BadCrons = {invalid}
    AdHoc = AdHoc
    MaxJobs = 2
    Topologies = {t1, t2}
    Tables = {"hosts", "subnets"}
    Graphic = {"hosts"}
    MaxChanges = 1
    MaxEdits = 1
    NoTopology = NoTopology
    Plans = {"Starter", "Team"}
    Buyable = {"Team"}
    Included <- MCIncluded
    Workers = {w1, w2}
    MaxNetworks = 2
    MaxSubs = 2
    MaxEvents = 2
    MaxHandled = 3
    MaxCalls = 2
    NoPlan = NoPlan
    NoStatus = NoStatus
    NoCustomer = NoCustomer
    Keys = {k1, k2}
    MaxHashes = 3
    MaxUses = 2
    MaxRequests = 3
    NoKey = NoKey
SPECIFICATION PartsSpec
INVARIANTS
    LocksTypeOK
    NoCallIsStuck
    ScheduleTypeOK
    TopologyTypeOK
    
    BatchesEnd
    BillingTypeOK
    PlanFollowsSubscription
    
    
    OneTrial
    KeysTypeOK
    DeletedKeysStayDeleted
    KeysAreAsIssued
PROPERTIES
    DeletedStaysDeleted
    
SYMMETRY MCSymmetry
CHECK_DEADLOCK FALSE
