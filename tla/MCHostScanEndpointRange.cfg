SPECIFICATION HostScanSpec
CONSTANTS
  Hosts <- EndpointHosts
  MaxLost = 0
INVARIANT ShownServiceIsFound
CHECK_DEADLOCK FALSE
