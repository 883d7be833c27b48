SPECIFICATION HostScanSpec
CONSTANTS
  Hosts <- MCHosts
  MaxLost = 1
INVARIANTS
  HostScanTypeOK
  EveryPortIsClaimed
  ClaimsAreReal
  GenericYieldsToSpecific
  
  ShownServiceIsFound
PROPERTY
  OnePassIsEnough
CHECK_DEADLOCK FALSE
