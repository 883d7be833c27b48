CONSTANTS
    Procs = {"a", "b"}
    OpOf <- MCWork
SPECIFICATION LocksFairSpec
PROPERTY
    WorkRequestReturns
CHECK_DEADLOCK FALSE
