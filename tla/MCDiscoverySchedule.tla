------------------------- MODULE MCDiscoverySchedule -------------------------
EXTENDS DiscoverySchedule
=============================================================================
