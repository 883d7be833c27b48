CONSTANTS
    s1 = s1
    s2 = s2
    d1 = d1
    NoSession = NoSession
    NoSlot = 0
    Sessions = {s1, s2}
    Daemons = {d1}
    Slots = {1, 2}
    Owner <- MCOwner
    Modes = {"Push", "Pull"}
    Kind <- MCNetworkReport
    MaxFaults = 1
    Cancellable <- MCCancelAny
SPECIFICATION ProtocolSpec
INVARIANTS
    ProtocolTypeOK
    OneTaskPerDaemon
    ReportsAreOwn
    TrackedIsQueued
CHECK_DEADLOCK FALSE
